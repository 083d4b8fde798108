----------------------------- MODULE Refinement -----------------------------
(***************************************************************************)
(* Ingest, with its nine statements and more, its mutex and its concurrent *)
(* requests, implements Tracker.  A window counts as judged from the       *)
(* statement that confirms its number, and as reported from the last       *)
(* statement that writes its event; between the two UPDATEs of an event    *)
(* the view still shows the event as it was.                               *)
(***************************************************************************)
EXTENDS RngHealth

\* The request inside Ingest for source s is about to run one of these statements.
HolderAt(s, labels) == lock[s] # None /\ pc[lock[s]] \in labels

ModeView ==
  [s \in Sources |-> CASE sources[s].state = "absent" -> "absent"
                       [] sources[s].state \in {"enabled", "observing"} -> "healthy"
                       [] OTHER -> "degraded"]

LogView ==
  [s \in Sources |-> [q \in {r \in Recorded(s) : r <= sources[s].lastSeq} |-> windows[s][q]]]

\* From SetLastSeq to the last statement of OnWindow.
Reporting == {"observe", "observe_set"} \cup {"recent"} \cup RunLabels

PendingView == [s \in Sources |-> IF HolderAt(s, Reporting) THEN loc[lock[s]].seq ELSE 0]

AlarmView == [s \in Sources |-> HolderAt(s, {"degrade", "set_degraded"})]

\* What OnWindow has written of event i and not finished is not shown yet.
LevelView(s, i) ==
  LET shown == IF HolderAt(s, {"update_run"}) /\ loc[lock[s]].row = i
               THEN loc[lock[s]].rowState ELSE events[s][i].state
  IN  CASE shown \in {"candidate", "transient"} -> "minor"
        [] OTHER -> shown

ReportsView ==
  [s \in Sources |->
     [i \in DOMAIN events[s] |->
        [level |-> LevelView(s, i), anomaly |-> events[s][i].anomaly,
         first |-> events[s][i].firstSeq, last |-> events[s][i].lastSeq,
         count |-> events[s][i].windowCount]]]

Abstract == INSTANCE Tracker WITH
  mode <- ModeView, log <- LogView, pending <- PendingView,
  alarm <- AlarmView, reports <- ReportsView

\* Concurrent clients see Ingest judge, report and degrade as if windows came one at
\* a time: mutex, stale reads and half-written events never show.  This holds while
\* no statement fails and no engineer intervenes.
ImplementsTracker == Abstract!Spec

\* Every anomalous window that is confirmed is in the end covered by an event that
\* reaches it, though requests for the source wait for each other.
AnomaliesReported ==
  \A s \in Sources : \A q \in Seqs :
    (q \in DOMAIN LogView[s] /\ LogView[s][q].status # "valid")
      ~> \E i \in DOMAIN ReportsView[s] : ReportsView[s][i].last >= q
=============================================================================
