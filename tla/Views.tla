------------------------------- MODULE Views -------------------------------
(***************************************************************************)
(* internal/service/analysis.go: the analysis of a source, read by the     *)
(* queries that also make a snapshot payload, in the same order, and one   *)
(* more.  It changes nothing and holds no mutex.                           *)
(***************************************************************************)
EXTENDS Snapshot

Analysis(p, s) ==
  /\ Arrive(p, "analysis", s, "snap_source", Request("analysis", s))
  /\ UNCHANGED <<tables, lock>>

\* restarts.List, whose length completes the view.
CountRestarts(p) ==
  /\ At(p, "view_restarts")
  /\ Answer(p, "ok")
  /\ UNCHANGED <<tables, lock>>

ViewRequest(p, s) == Analysis(p, s)

ViewStep(p) == CountRestarts(p)
=============================================================================
