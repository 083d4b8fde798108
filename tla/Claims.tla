------------------------------- MODULE Claims -------------------------------
(***************************************************************************)
(* What comments and documents of the repository say of the program and    *)
(* the program does not keep.  The runs named after these definitions show *)
(* how; README.md tells each story.                                        *)
(***************************************************************************)
EXTENDS RngHealth

\* event.go: "candidate -> transient | persistent -> confirmed -> closed".  An
\* event an engineer confirmed is only ever closed.
ConfirmedStays ==
  [][\A s \in Sources : \A i \in DOMAIN events[s] :
       events[s][i].state = "confirmed" =>
         events'[s][i].state \in {"confirmed", "closed"}]_vars

\* correlator.go: "the last anomalous window of the walk is the start of the run".
\* The event an anomalous window ends starts right after a valid window, or with
\* the first window there is.
EventStartsRun ==
  \A p \in Procs :
    At(p, "done") /\ loc[p].reply = "ok" /\ Anomalous(p) =>
      LET s == loc[p].src IN
      \E i \in DOMAIN events[s] :
        /\ events[s][i].lastSeq = loc[p].seq
        /\ \A q \in RecentWindows(s, events[s][i].firstSeq - 1, 1) : windows[s][q].status = "valid"

\* snapshot_store.go, "versions are monotone": later snapshots of a source have
\* higher versions.
VersionsIncrease ==
  \A s \in Sources : \A i, j \in DOMAIN snaps[s] :
    i < j => snaps[s][i].version < snaps[s][j].version
=============================================================================
