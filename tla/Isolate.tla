------------------------------ MODULE Isolate ------------------------------
(***************************************************************************)
(* internal/isolate: the state machine of a source and the recovery from   *)
(* degradation.  Each operation reads the source, decides, and writes the  *)
(* new state in a later statement; none of them takes the ingest mutex.    *)
(***************************************************************************)
EXTENDS Requests

\* Get and the switch on its state, as the first step of a request ...
Admitted(p, op, s, states, l) ==
  /\ sources[s].state \in states
  /\ Arrive(p, op, s, l, Request(op, s))
  /\ UNCHANGED <<tables, lock>>

\* ... and the UpdateState that follows, whatever the state is by then.
\* UpdateState writes sealed_at too: every state but sealed clears it.
WriteState(p, l, state) ==
  /\ At(p, l)
  /\ UpdateState(loc[p].src, state, state = "sealed")
  /\ UNCHANGED <<notSources, lock>>

Degrade(p, s) == Admitted(p, "degrade", s, DegradableStates, "set_degraded")
Isolate(p, s) == Admitted(p, "isolate", s, IsolatableStates, "set_isolated")
Seal(p, s)    == Admitted(p, "seal", s, SealableStates, "set_sealed")

SetDegraded(p) == WriteState(p, "set_degraded", "degraded") /\ Answer(p, "ok")
SetIsolated(p) == WriteState(p, "set_isolated", "isolated") /\ Answer(p, "ok")
SetSealed(p)   == WriteState(p, "set_sealed", "sealed") /\ Answer(p, "ok")

-----------------------------------------------------------------------------
(* Recovery.Confirm *)

Recover(p, s) == Admitted(p, "recover", s, RecoverableStates, "baseline")

ReadBaseline(p) ==
  /\ At(p, "baseline")
  /\ \E q \in LatestValidSeq(loc[p].src) : loc' = [loc EXCEPT ![p].baseline = q]
  /\ Goto(p, "set_observing")
  /\ UNCHANGED <<tables, lock>>

SetRecovered(p) ==
  /\ WriteState(p, "set_observing", "observing")
  /\ Goto(p, "set_baseline")
  /\ UNCHANGED loc

SetBaseline(p) ==
  /\ At(p, "set_baseline")
  /\ SetRecoveryBaseline(loc[p].src, loc[p].baseline)
  /\ Answer(p, "ok")
  /\ UNCHANGED <<notSources, lock>>

-----------------------------------------------------------------------------
(* What Ingest calls once a window is stored: both read the source again.  *)

\* Variant: Observe relies on what Ingest read at its start.
ObserveUnread(p) ==
  /\ At(p, "observe")
  /\ Goto(p, "observe_set")
  /\ UNCHANGED <<tables, loc, lock>>

\* Observe leaves every state but enabled alone.
Observe(p) ==
  /\ At(p, "observe")
  /\ \/ sources[loc[p].src].state = "enabled" /\ Goto(p, "observe_set")
     \/ sources[loc[p].src].state # "enabled" /\ Goto(p, "recent")
  /\ UNCHANGED <<tables, loc, lock>>

SetObserving(p) ==
  /\ WriteState(p, "observe_set", "observing")
  /\ Goto(p, "recent")
  /\ UNCHANGED loc

AutoDegrade(p) ==
  /\ At(p, "degrade")
  /\ sources[loc[p].src].state \in DegradableStates
  /\ Goto(p, "set_degraded")
  /\ UNCHANGED <<tables, loc, lock>>

AutoDegradeRefused(p) ==
  /\ At(p, "degrade")
  /\ sources[loc[p].src].state \notin DegradableStates
  /\ Answer(p, "transition")
  /\ UNCHANGED <<tables, lock>>

IsolateRequest(p, s) == Degrade(p, s) \/ Isolate(p, s) \/ Seal(p, s) \/ Recover(p, s)

IsolateStep(p) ==
  \/ SetDegraded(p) \/ SetIsolated(p) \/ SetSealed(p)
  \/ ReadBaseline(p) \/ SetRecovered(p) \/ SetBaseline(p)
  \/ Observe(p) \/ SetObserving(p) \/ AutoDegrade(p) \/ AutoDegradeRefused(p)
=============================================================================
