----------------------------- MODULE Correlator -----------------------------
(***************************************************************************)
(* internal/correlate: OnWindow, which Ingest calls for a stored window.   *)
(* It counts the run of anomalous windows that ends with this one, opens,  *)
(* raises or settles the event of the source and decides whether the       *)
(* source must be degraded.  The window's own verdict is the one Ingest    *)
(* holds (loc[p].status); the run is counted over stored statuses.         *)
(***************************************************************************)
EXTENDS Requests

\* Variant: a valid window is skipped instead of ending the run.
AnomalousTail(s, q) ==
  {r \in RecentWindows(s, q, PersistentThreshold + 2) : windows[s][r].status # "valid"}

\* The tail of the recent windows up to the first valid one.
TailRun(s, q) ==
  LET recent == RecentWindows(s, q, PersistentThreshold + 2)
  IN  {r \in recent : \A t \in recent : t >= r => windows[s][t].status # "valid"}

Anomalous(p) == loc[p].status # "valid"
Persistent(p) == loc[p].runLen >= PersistentThreshold

\* The state a run of this length gives an event.
RunState(p) ==
  IF Persistent(p) THEN "persistent"
  ELSE IF loc[p].runLen > 1 THEN "transient" ELSE "candidate"

\* Variant: only the window that makes the run persistent calls for it.
DegradeOnce(p) == loc[p].runLen = PersistentThreshold /\ loc[p].seen \in {"enabled", "observing"}

\* The source state that counts is the one Ingest read at its start.
ShouldDegrade(p) == Persistent(p) /\ loc[p].seen \in {"enabled", "observing"}

\* Variant: firstSeq is not set.
CountRunOnly(p) ==
  /\ At(p, "recent")
  /\ loc' = [loc EXCEPT ![p].runLen = Cardinality(TailRun(loc[p].src, loc[p].seq))]
  /\ Goto(p, "restart")
  /\ UNCHANGED <<tables, lock>>

CountRun(p) ==
  /\ At(p, "recent")
  /\ LET run == TailRun(loc[p].src, loc[p].seq) IN
     \/ /\ run = {}
        /\ loc' = [loc EXCEPT ![p] = [@ EXCEPT !.runLen = 0, !.firstSeq = loc[p].seq]]
        /\ Goto(p, "open")
     \/ \E first \in run :
          /\ \A r \in run : first <= r
          /\ loc' = [loc EXCEPT ![p] = [@ EXCEPT !.runLen = Cardinality(run), !.firstSeq = first]]
          /\ Goto(p, "restart")
  /\ UNCHANGED <<tables, lock>>

\* Variant: a boundary one window too early counts.
ReadEarlierRestart(p) ==
  /\ At(p, "restart")
  /\ loc' = [loc EXCEPT ![p].after =
                \E at \in LatestBefore(loc[p].src, loc[p].seq) : at >= loc[p].firstSeq - 2]
  /\ Goto(p, "open")
  /\ UNCHANGED <<tables, lock>>

\* An error of LatestBefore counts as "no restart boundary".
ReadRestart(p) ==
  /\ At(p, "restart")
  /\ \E after \in BOOLEAN :
       /\ \/ after = \E at \in LatestBefore(loc[p].src, loc[p].seq) : at >= loc[p].firstSeq - 1
          \/ "error" \in Faults /\ ~after
       /\ loc' = [loc EXCEPT ![p].after = after]
  /\ Goto(p, "open")
  /\ UNCHANGED <<tables, lock>>

-----------------------------------------------------------------------------
(* A valid window ends the run.  An open event nobody confirmed and that   *)
(* never became persistent is closed, by way of transient.                 *)

Settled(p, i) == events[loc[p].src][i].state \in {"candidate", "transient"}

\* An error of OpenForSource counts as "no open event".
NothingToSettle(p) ==
  /\ At(p, "open")
  /\ ~Anomalous(p)
  /\ \/ \A i \in OpenForSource(loc[p].src) : ~Settled(p, i)
     \/ "error" \in Faults
  /\ Answer(p, "ok")
  /\ UNCHANGED <<tables, lock>>

FindSettled(p) ==
  /\ At(p, "open")
  /\ ~Anomalous(p)
  /\ \E i \in OpenForSource(loc[p].src) :
       /\ Settled(p, i)
       /\ loc' = [loc EXCEPT ![p].row = i]
  /\ Goto(p, "settle")
  /\ UNCHANGED <<tables, lock>>

Settle(p) ==
  /\ At(p, "settle")
  /\ SetState(loc[p].src, loc[p].row, "transient", FALSE, TRUE)
  /\ Goto(p, "settle_close")
  /\ UNCHANGED <<notEvents, loc, lock>>

SettleClose(p) ==
  /\ At(p, "settle_close")
  /\ SetState(loc[p].src, loc[p].row, "closed", FALSE, TRUE)
  /\ Answer(p, "ok")
  /\ UNCHANGED <<notEvents, lock>>

-----------------------------------------------------------------------------
(* An anomalous window opens an event, or extends the open one.            *)

\* Variant: an error counts as "no open event" here as well.
NoOpenEventOrError(p) ==
  /\ At(p, "open")
  /\ Anomalous(p)
  /\ OpenForSource(loc[p].src) = {} \/ "error" \in Faults
  /\ Goto(p, "create_event")
  /\ UNCHANGED <<tables, loc, lock>>

NoOpenEvent(p) ==
  /\ At(p, "open")
  /\ Anomalous(p)
  /\ OpenForSource(loc[p].src) = {}
  /\ Goto(p, "create_event")
  /\ UNCHANGED <<tables, loc, lock>>

\* Variant: an open event is left as it is.
LeaveOpenEvent(p) ==
  /\ At(p, "open")
  /\ Anomalous(p)
  /\ OpenForSource(loc[p].src) # {}
  /\ Answer(p, "ok")
  /\ UNCHANGED <<tables, lock>>

FindOpenEvent(p) ==
  /\ At(p, "open")
  /\ Anomalous(p)
  /\ \E i \in OpenForSource(loc[p].src) :
       LET ev == events[loc[p].src][i]
       IN  loc' = [loc EXCEPT ![p] =
                     [@ EXCEPT !.row = i, !.rowState = ev.state,
                               !.confirmed = ReadTime(ev.confirmedAt),
                               !.closed = ReadTime(ev.closedAt)]]
  /\ Goto(p, "raise")
  /\ UNCHANGED <<tables, lock>>

\* OnWindow returns ShouldDegrade, and Ingest acts on it.
Correlated(p) ==
  \/ ShouldDegrade(p) /\ Goto(p, "degrade") /\ UNCHANGED loc
  \/ ~ShouldDegrade(p) /\ Answer(p, "ok")

CreateEvent(p) ==
  /\ At(p, "create_event")
  /\ InsertEvent(loc[p].src,
       [state |-> RunState(p), anomaly |-> loc[p].anomaly,
        firstSeq |-> loc[p].firstSeq, lastSeq |-> loc[p].seq,
        windowCount |-> loc[p].runLen, afterRestart |-> loc[p].after,
        confirmedAt |-> FALSE, closedAt |-> FALSE])
  /\ Correlated(p)
  /\ UNCHANGED <<notEvents, lock>>

\* The state written back is the one read, unless the run is persistent.
RaisedState(p) == IF Persistent(p) THEN "persistent" ELSE loc[p].rowState

Raise(p) ==
  /\ At(p, "raise")
  /\ SetState(loc[p].src, loc[p].row, RaisedState(p), loc[p].confirmed, loc[p].closed)
  /\ Goto(p, "update_run")
  /\ UNCHANGED <<notEvents, loc, lock>>

\* Variant: the windows are counted one by one, while the start is read back.
ExtendByOne(p) ==
  /\ At(p, "update_run")
  /\ UpdateRun(loc[p].src, loc[p].row, loc[p].firstSeq, loc[p].seq,
               events[loc[p].src][loc[p].row].windowCount + 1, loc[p].anomaly, loc[p].after)
  /\ Correlated(p)
  /\ UNCHANGED <<notEvents, lock>>

\* Variant: the event keeps the category it was opened with.
ExtendInterval(p) ==
  /\ At(p, "update_run")
  /\ UpdateRun(loc[p].src, loc[p].row, loc[p].firstSeq, loc[p].seq, loc[p].runLen,
               events[loc[p].src][loc[p].row].anomaly, loc[p].after)
  /\ Correlated(p)
  /\ UNCHANGED <<notEvents, lock>>

ExtendRun(p) ==
  /\ At(p, "update_run")
  /\ UpdateRun(loc[p].src, loc[p].row, loc[p].firstSeq, loc[p].seq,
               loc[p].runLen, loc[p].anomaly, loc[p].after)
  /\ Correlated(p)
  /\ UNCHANGED <<notEvents, lock>>

CorrelatorStep(p) ==
  \/ CountRun(p) \/ ReadRestart(p)
  \/ NothingToSettle(p) \/ FindSettled(p) \/ Settle(p) \/ SettleClose(p)
  \/ NoOpenEvent(p) \/ FindOpenEvent(p) \/ CreateEvent(p) \/ Raise(p) \/ ExtendRun(p)
=============================================================================
