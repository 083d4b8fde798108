------------------------------ MODULE Service ------------------------------
(***************************************************************************)
(* internal/service: registration, restart boundaries, the engineer's      *)
(* handling of events and the re-evaluation of a window.  None of these    *)
(* takes the ingest mutex.                                                 *)
(***************************************************************************)
EXTENDS Requests

\* RegisterSource finds no such (name, device) ...
Register(p, s) ==
  /\ sources[s].state = "absent"
  /\ Arrive(p, "register", s, "insert_source", Request("register", s))
  /\ UNCHANGED <<tables, lock>>

\* ... and inserts it, ON CONFLICT DO NOTHING.
InsertedSource(p) ==
  /\ At(p, "insert_source")
  /\ sources[loc[p].src].state = "absent"
  /\ InsertSource(loc[p].src)
  /\ Answer(p, "ok")
  /\ UNCHANGED <<notSources, lock>>

DuplicateSource(p) ==
  /\ At(p, "insert_source")
  /\ sources[loc[p].src].state # "absent"
  /\ Answer(p, "conflict")
  /\ UNCHANGED <<tables, lock>>

\* RecordRestart.
Restart(p, s) ==
  /\ sources[s].state \notin {"absent", "sealed"}
  /\ \E at \in Seqs :
       Arrive(p, "restart", s, "restart_insert", [Request("restart", s) EXCEPT !.seq = at])
  /\ UNCHANGED <<tables, lock>>

InsertedRestart(p) ==
  /\ At(p, "restart_insert")
  /\ InsertRestart(loc[p].src, loc[p].seq)
  /\ Answer(p, "ok")
  /\ UNCHANGED <<notRestarts, lock>>

-----------------------------------------------------------------------------
(* Events *)

Confirm(p, s) ==
  /\ \E i \in DOMAIN events[s] :
       /\ events[s][i].state \in ConfirmableStates
       /\ Arrive(p, "confirm", s, "confirm", [Request("confirm", s) EXCEPT !.row = i])
  /\ UNCHANGED <<tables, lock>>

SetConfirmed(p) ==
  /\ At(p, "confirm")
  /\ SetState(loc[p].src, loc[p].row, "confirmed", TRUE, FALSE)
  /\ Answer(p, "ok")
  /\ UNCHANGED <<notEvents, lock>>

Close(p, s) ==
  /\ \E i \in DOMAIN events[s] :
       /\ events[s][i].state \in ClosableStates
       /\ Arrive(p, "close", s, "close",
                 [Request("close", s) EXCEPT !.row = i,
                                             !.confirmed = ReadTime(events[s][i].confirmedAt)])
  /\ UNCHANGED <<tables, lock>>

SetClosed(p) ==
  /\ At(p, "close")
  /\ SetState(loc[p].src, loc[p].row, "closed", loc[p].confirmed, TRUE)
  /\ Answer(p, "ok")
  /\ UNCHANGED <<notEvents, lock>>

-----------------------------------------------------------------------------
(* ReevaluateWindow: a status from whatever test rows are stored by now.   *)

\* Variant: a window without results is judged like any other.
ReevaluateAnything(p, s) ==
  /\ \E q \in Recorded(s) :
       LET failed == {t.category : t \in {u \in ListByWindow(s, q) : ~u.passed}}
       IN  Arrive(p, "reevaluate", s, "reevaluate",
                  [Request("reevaluate", s) EXCEPT !.seq = q,
                                                   !.status = StatStatus(failed),
                                                   !.anomaly = StatAnomaly(AlphaOrder, failed)])
  /\ UNCHANGED <<tables, lock>>

Reevaluate(p, s) ==
  /\ \E q \in Seqs :
       LET rows   == ListByWindow(s, q)
           failed == {t.category : t \in {u \in rows : ~u.passed}}
       IN  /\ rows # {}
           /\ Arrive(p, "reevaluate", s, "reevaluate",
                     [Request("reevaluate", s) EXCEPT !.seq = q,
                                                      !.status = StatStatus(failed),
                                                      !.anomaly = StatAnomaly(AlphaOrder, failed)])
  /\ UNCHANGED <<tables, lock>>

SetReevaluated(p) ==
  /\ At(p, "reevaluate")
  /\ UpdateStatus(loc[p].src, loc[p].seq, loc[p].status, loc[p].anomaly)
  /\ Answer(p, "ok")
  /\ UNCHANGED <<notWindows, lock>>

ServiceRequest(p, s) ==
  \/ Register(p, s) \/ Restart(p, s) \/ Confirm(p, s) \/ Close(p, s) \/ Reevaluate(p, s)

ServiceStep(p) ==
  \/ InsertedSource(p) \/ DuplicateSource(p) \/ InsertedRestart(p)
  \/ SetConfirmed(p) \/ SetClosed(p) \/ SetReevaluated(p)
=============================================================================
