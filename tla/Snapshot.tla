------------------------------ MODULE Snapshot ------------------------------
(***************************************************************************)
(* internal/snapshot: drafting, publishing and superseding diagnostic      *)
(* snapshots.  The evidence of a draft is read by four queries, each of    *)
(* which sees the tables as they are by then.  No mutex protects a source. *)
(***************************************************************************)
EXTENDS Requests

CONSTANT MaxSnaps   \* bound: no new snapshot is asked for beyond this many

ASSUME SnapshotAssumption == MaxSnaps \in Nat

Draft(p, s) ==
  /\ Len(snaps[s]) < MaxSnaps
  /\ Arrive(p, "draft", s, "snap_version", Request("draft", s))
  /\ UNCHANGED <<tables, lock>>

Publish(p, s) ==
  /\ \E i \in DOMAIN snaps[s] :
       /\ snaps[s][i].state = "draft"
       /\ Arrive(p, "publish", s, "snap_publish", [Request("publish", s) EXCEPT !.snap = i])
  /\ UNCHANGED <<tables, lock>>

Supersede(p, s) ==
  /\ Len(snaps[s]) < MaxSnaps
  /\ \E i \in DOMAIN snaps[s] :
       /\ snaps[s][i].state = "published"
       /\ Arrive(p, "supersede", s, "snap_version", [Request("supersede", s) EXCEPT !.row = i])
  /\ UNCHANGED <<tables, lock>>

-----------------------------------------------------------------------------
(* Publisher.Draft, for Draft and Supersede alike *)

ReadVersion(p) ==
  /\ At(p, "snap_version")
  /\ \E v \in NextVersion(loc[p].src) : loc' = [loc EXCEPT ![p].version = v]
  /\ Goto(p, "snap_source")
  /\ UNCHANGED <<tables, lock>>

\* The payload the handler is filling.
FreezeIn(p, evidence) == loc' = [loc EXCEPT ![p] = [@ EXCEPT !.payload = evidence]]

SnapshotOfNothing(p) ==
  /\ At(p, "snap_source")
  /\ sources[loc[p].src].state = "absent"
  /\ Answer(p, "not_found")
  /\ UNCHANGED <<tables, lock>>

ReadSource(p) ==
  /\ At(p, "snap_source")
  /\ sources[loc[p].src].state # "absent"
  /\ FreezeIn(p, [loc[p].payload EXCEPT !.state = sources[loc[p].src].state,
                                        !.baseline = sources[loc[p].src].baseline])
  /\ Goto(p, "snap_windows")
  /\ UNCHANGED <<tables, lock>>

\* WindowStats.  The baseline is missing when it is NULL beside any window.
ReadWindows(p) ==
  LET total == Cardinality(Recorded(loc[p].src)) IN
  /\ At(p, "snap_windows")
  /\ FreezeIn(p, [loc[p].payload EXCEPT
                    !.total = total,
                    !.valid = Cardinality(ValidSeqs(loc[p].src)),
                    !.baselineMissing = (loc[p].payload.baseline = NULL /\ total > 0)])
  /\ Goto(p, "snap_tests")
  /\ UNCHANGED <<tables, lock>>

\* Variant: the source is read once more, after the windows.
ReadSourceAgain(p) ==
  /\ At(p, "snap_tests")
  /\ FreezeIn(p, [loc[p].payload EXCEPT !.testFailures = SummaryForSource(loc[p].src),
                                        !.baseline = sources[loc[p].src].baseline])
  /\ Goto(p, "snap_events")
  /\ UNCHANGED <<tables, lock>>

ReadTests(p) ==
  /\ At(p, "snap_tests")
  /\ FreezeIn(p, [loc[p].payload EXCEPT !.testFailures = SummaryForSource(loc[p].src)])
  /\ Goto(p, "snap_events")
  /\ UNCHANGED <<tables, lock>>

\* Of the newest EventPage events, open or closed, the open ones are kept.
ReadEvents(p) ==
  /\ At(p, "snap_events")
  /\ FreezeIn(p, [loc[p].payload EXCEPT
                    !.openEvents = {i \in ListEvents(loc[p].src) : Open(loc[p].src, i)}])
  /\ Goto(p, IF loc[p].op = "analysis" THEN "view_restarts" ELSE "snap_insert")
  /\ UNCHANGED <<tables, lock>>

\* Variant: Supersede does not publish the new draft.
InsertUnpublished(p) ==
  /\ At(p, "snap_insert")
  /\ InsertSnapshot(loc[p].src, loc[p].version, loc[p].payload)
  /\ \/ loc[p].op = "draft" /\ Answer(p, "ok")
     \/ /\ loc[p].op = "supersede"
        /\ loc' = [loc EXCEPT ![p].snap = Len(snaps[loc[p].src]) + 1]
        /\ Goto(p, "snap_supersede")
  /\ UNCHANGED <<notSnaps, lock>>

InsertDraft(p) ==
  /\ At(p, "snap_insert")
  /\ InsertSnapshot(loc[p].src, loc[p].version, loc[p].payload)
  /\ \/ loc[p].op = "draft" /\ Answer(p, "ok")
     \/ /\ loc[p].op = "supersede"
        /\ loc' = [loc EXCEPT ![p].snap = Len(snaps[loc[p].src]) + 1]
        /\ Goto(p, "snap_publish")
  /\ UNCHANGED <<notSnaps, lock>>

-----------------------------------------------------------------------------

SetPublished(p) ==
  /\ At(p, "snap_publish")
  /\ PublishSnapshot(loc[p].src, loc[p].snap)
  /\ \/ loc[p].op = "publish" /\ Answer(p, "ok")
     \/ loc[p].op = "supersede" /\ Goto(p, "snap_supersede") /\ UNCHANGED loc
  /\ UNCHANGED <<notSnaps, lock>>

SetSuperseded(p) ==
  /\ At(p, "snap_supersede")
  /\ SupersedeSnapshot(loc[p].src, loc[p].row, loc[p].snap)
  /\ Answer(p, "ok")
  /\ UNCHANGED <<notSnaps, lock>>

SnapshotRequest(p, s) == Draft(p, s) \/ Publish(p, s) \/ Supersede(p, s)

SnapshotStep(p) ==
  \/ ReadVersion(p) \/ SnapshotOfNothing(p) \/ ReadSource(p) \/ ReadWindows(p)
  \/ ReadTests(p) \/ ReadEvents(p) \/ InsertDraft(p) \/ SetPublished(p) \/ SetSuperseded(p)
=============================================================================
