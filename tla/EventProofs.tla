----------------------------- MODULE EventProofs -----------------------------
(***************************************************************************)
(* What Ingest and the correlator promise of the windows they answer with  *)
(* success and of the events they keep.                                    *)
(***************************************************************************)
EXTENDS StepProofs

\* Two requests inside Ingest serve different sources.
LEMMA OneInside ==
  ASSUME IInv, NEW p \in Procs, NEW r \in Procs, r # p, Inside(p), Inside(r)
  PROVE  loc[p].src \in Sources /\ loc[r].src \in Sources /\ loc[p].src # loc[r].src
<1>1. loc[p].src \in Sources /\ loc[r].src \in Sources
  BY LocalTyped DEF IInv, Inside, LocalsFit
<1>2. lock[loc[p].src] = p /\ lock[loc[r].src] = r
  BY <1>1 DEF IInv, LockDiscipline
<1> QED BY <1>1, <1>2

\* The labels of Ingest are reached inside it.
LEMMA IngestIsInside ==
  ASSUME Typed, NEW p \in Procs, pc[p] \in IngestLabels \ {"lock"}
  PROVE  Inside(p) /\ loc[p].src \in Sources
BY LocalTyped DEF Inside, LocalsFit, IngestLabels

\* Where Ingest has found its run, or is about to, or has succeeded.
Finishing(p) ==
  \/ pc[p] \in {"recent", "degrade"} \cup RunLabels
  \/ pc[p] = "set_degraded" /\ loc[p].op = "ingest"
  \/ pc[p] = "done" /\ loc[p].reply = "ok"

LEMMA FinishingInside ==
  ASSUME Typed, NEW p \in Procs, Finishing(p) \/ pc[p] \in CorrelatedLabels
  PROVE  Inside(p) /\ loc[p].src \in Sources
<1>1. CASE pc[p] = "set_degraded" /\ loc[p].op = "ingest"
  BY <1>1, LocalTyped DEF Inside, LocalsFit
<1> QED
  BY <1>1, IngestIsInside DEF Finishing, IngestLabels, RunLabels, CorrelatedLabels

\* How a request gets there: for the same window, from StoreLastSeq or Observe.
LEMMA FinishingSteps ==
  ASSUME IInv, Roles, NEW p \in Procs, Accept(p) \/ Acts(p), Finishing(p)'
  PROVE  /\ Acts(p) /\ loc'[p].op = "ingest" /\ loc[p].op = "ingest"
         /\ loc'[p].src = loc[p].src /\ loc'[p].seq = loc[p].seq
         /\ loc'[p].anomaly = loc[p].anomaly /\ loc'[p].status = loc[p].status
         /\ loc'[p].seen = loc[p].seen
         /\ \/ pc'[p] = "recent" /\ (StoreLastSeq(p) \/ Observe(p) \/ SetObserving(p))
            \/ Finishing(p)
<1>0. Typed /\ Role(p) /\ LocalsFit(pc[p], loc[p])
  BY LocalTyped DEF IInv, Roles
<1>1. ~Accept(p)
  BY <1>0, Accepted DEF Starts, Finishing, RunLabels
<1>2. Acts(p)
  BY <1>1
<1>3. pc'[p] = "recent" => StoreLastSeq(p) \/ Observe(p) \/ SetObserving(p)
  BY <1>0, <1>2, Paths
<1>4. pc'[p] \in RunLabels => Finishing(p)
  BY <1>0, <1>2, Paths
  DEF RunLabels, Finishing, CountRun, ReadRestart, FindSettled, Settle, NoOpenEvent,
      FindOpenEvent, Raise, At
<1>5. pc'[p] = "degrade" => Finishing(p)
  BY <1>0, <1>2, Paths DEF RunLabels, Finishing, CreateEvent, ExtendRun, At
<1>6. pc'[p] = "set_degraded" => Finishing(p)
  BY <1>0, <1>2, Paths DEF RunLabels, Finishing, AutoDegrade, At
<1>7. pc'[p] = "done" /\ loc'[p].reply = "ok" => Finishing(p)
  BY <1>0, <1>2, Success
  DEF RunLabels, Finishing, NothingToSettle, SettleClose, CreateEvent, ExtendRun, SetDegraded,
      WriteState, At
<1>8. \/ pc'[p] = "recent" /\ (StoreLastSeq(p) \/ Observe(p) \/ SetObserving(p))
      \/ Finishing(p)
  BY <1>3, <1>4, <1>5, <1>6, <1>7 DEF Finishing
<1>9. loc'[p].op = "ingest" /\ loc[p].op = "ingest" /\ loc'[p].src = loc[p].src
  <2>1. pc'[p] # "idle"
    BY DEF Finishing, RunLabels
  <2>2. loc'[p].op = loc[p].op /\ loc'[p].src = loc[p].src
    BY <1>0, <1>2, <2>1, SameRequest
  <2>3. loc[p].op = "ingest"
    <3>1. StoreLastSeq(p) \/ Observe(p) \/ SetObserving(p) => pc[p] \in IngestLabels \cup {"observe_set"}
      BY DEF StoreLastSeq, Observe, SetObserving, WriteState, At, IngestLabels
    <3> QED
      BY <1>0, <1>8, <3>1 DEF Finishing, LocalsFit, IngestLabels, RunLabels
  <2> QED BY <2>2, <2>3
<1>10. /\ loc'[p].seq = loc[p].seq /\ loc'[p].anomaly = loc[p].anomaly
       /\ loc'[p].status = loc[p].status /\ loc'[p].seen = loc[p].seen
  <2>1. {"seq", "anomaly", "status", "seen"} \subseteq DOMAIN Blank
    BY DEF Blank
  <2>2. ASSUME NEW fs, Leaves(p, fs), {"seq", "anomaly", "status", "seen"} \cap fs = {}
        PROVE  /\ loc'[p].seq = loc[p].seq /\ loc'[p].anomaly = loc[p].anomaly
               /\ loc'[p].status = loc[p].status /\ loc'[p].seen = loc[p].seen
    <3>1. {"seq", "anomaly", "status", "seen"} \subseteq DOMAIN Blank \ fs
      BY <2>1, <2>2
    <3> QED BY <2>2, <3>1 DEF Leaves
  <2>3. ~Admit(p) /\ ~StoreStatus(p) /\ ~Return(p) /\ pc'[p] # "idle"
    <3>1. Admit(p) => pc'[p] = "create"
      BY <1>0, GoesTo DEF Admit
    <3>2. StoreStatus(p) => pc'[p] = "lastseq"
      BY <1>0, GoesTo DEF StoreStatus
    <3>3. Return(p) => pc'[p] \in {"idle", "lock"}
      BY <1>0, GoesTo DEF Return
    <3> QED BY <3>1, <3>2, <3>3 DEF Finishing, RunLabels
  <2> QED BY <1>0, <1>2, <2>2, <2>3, Locals
<1> QED BY <1>2, <1>8, <1>9, <1>10

-----------------------------------------------------------------------------
(* A source that has been seen to be past "enabled" never returns to it:   *)
(* only the registration of an absent source writes that state.            *)

Left(s) == sources[s].state \notin {"enabled", "absent"}

SeenInv(p) ==
  LET s == loc[p].src IN
  /\ pc[p] \in UnconfirmedLabels /\ loc[p].seen # "enabled" => Left(s)
  /\ pc[p] \in {"observe", "observe_set"} => sources[s].state # "absent"
  /\ Finishing(p) => Left(s)

LEMMA LeftForGood ==
  ASSUME IInv, NEW p \in Procs, Accept(p) \/ Acts(p), NEW s \in Sources, Left(s)
  PROVE  Left(s)'
<1>1. Typed
  BY DEF IInv
<1>2. CASE Accept(p)
  BY <1>1, <1>2, Accepted DEF tables, Left
<1>3. CASE Acts(p)
  BY <1>3, SourceSteps DEF Left
<1> QED BY <1>2, <1>3

LEMMA SeenStep ==
  ASSUME IInv, Roles, NEW p \in Procs, SeenInv(p), Accept(p) \/ Acts(p)
  PROVE  SeenInv(p)'
<1>0. Typed /\ pc \in [Procs -> Labels] /\ Grows
  BY LocalTyped, AloneAndGrowing DEF IInv
<1>1. ASSUME Finishing(p)' PROVE Left(loc[p].src)'
  <2>1. loc'[p].src = loc[p].src /\ Acts(p)
    BY <1>1, FinishingSteps
  <2>2. CASE Finishing(p)
    BY <1>0, <2>1, <2>2, FinishingInside, LeftForGood DEF SeenInv, Left
  <2>3. CASE StoreLastSeq(p) /\ pc'[p] = "recent"
    <3>1. pc[p] = "lastseq" /\ loc[p].seen # "enabled" /\ loc[p].src \in Sources
      BY <1>0, <2>3, GoesTo, StoreLastSeqMoves DEF StoreLastSeq, At
    <3>2. Left(loc[p].src)
      BY <3>1 DEF SeenInv, UnconfirmedLabels
    <3> QED BY <2>1, <3>1, <3>2, LeftForGood DEF Left
  <2>4. CASE Observe(p) /\ pc'[p] = "recent"
    <3>1. pc[p] = "observe" /\ sources[loc[p].src].state # "enabled" /\ UNCHANGED sources
      BY <1>0, <2>4, GoesTo DEF Observe, At, tables
    <3> QED BY <2>1, <3>1 DEF SeenInv, Left
  <2>5. CASE SetObserving(p)
    <3>1. loc[p].src \in Sources
      BY <1>0, <2>5, LocalTyped DEF SetObserving, WriteState, At, LocalsFit
    <3>2. sources'[loc[p].src].state = "observing"
      BY <1>0, <2>5, <3>1, StateWritten DEF SetObserving, WriteState
    <3> QED BY <2>1, <3>2 DEF Left
  <2> QED BY <1>1, <2>2, <2>3, <2>4, <2>5, FinishingSteps
<1>2. ASSUME pc'[p] \in {"observe", "observe_set"} PROVE sources'[loc'[p].src].state # "absent"
  <2>0. Acts(p)
    BY <1>0, <1>2, Accepted DEF Starts
  <2>1. loc'[p].src = loc[p].src
    BY <1>0, <1>2, <2>0, SameRequest
  <2>2. CASE StoreLastSeq(p)
    BY <2>1, <2>2, StoreLastSeqMoves
  <2>3. CASE Observe(p)
    BY <2>1, <2>3 DEF Observe, At, SeenInv, tables
  <2> QED BY <1>0, <1>2, <2>0, <2>2, <2>3, Paths
<1>3. ASSUME pc'[p] \in UnconfirmedLabels, loc'[p].seen # "enabled" PROVE Left(loc[p].src)'
  <2>0. Acts(p)
    BY <1>0, <1>3, Accepted DEF Starts, UnconfirmedLabels
  <2>1. loc'[p].src = loc[p].src
    BY <1>0, <1>3, <2>0, SameRequest DEF UnconfirmedLabels
  <2>2. CASE Admit(p)
    <3>1. loc[p].src \in Sources /\ loc[p] \in Local
      BY <2>2, InsideIngest DEF Admit, At, UnconfirmedLabels
    <3>2. sources[loc[p].src].state # "absent"
      <4>1. loc[p].seq \in 0..MaxSeq
        BY <3>1 DEF Local
      <4> QED BY <2>2, <4>1, VerdictAdmits DEF Admit
    <3>3. loc'[p].seen = sources[loc[p].src].state /\ UNCHANGED sources
      BY <1>0, <2>2, AdmitSets DEF Admit, tables
    <3> QED BY <1>3, <2>1, <3>2, <3>3 DEF Left
  <2>3. CASE CreateWindow(p) \/ StoreTest(p) \/ StoreStatus(p)
    <3>1. pc[p] \in UnconfirmedLabels
      BY <2>3 DEF CreateWindow, StoreTest, StoreStatus, At, UnconfirmedLabels
    <3>2. loc'[p].seen = loc[p].seen
      <4>1. "seen" \in DOMAIN Blank
        BY DEF Blank
      <4>2. Leaves(p, {"replay", "test"}) \/ Leaves(p, {"test"}) \/ Leaves(p, {"status", "anomaly"})
        BY <1>0, <2>3, CreateWindowSets, StoreTestSets, StoreStatusSets
      <4> QED BY <4>1, <4>2 DEF Leaves
    <3>3. Left(loc[p].src) /\ loc[p].src \in Sources
      BY <1>3, <3>1, <3>2, InsideIngest DEF SeenInv
    <3> QED BY <2>1, <3>3, LeftForGood DEF Left
  <2> QED BY <1>0, <1>3, <2>0, <2>2, <2>3, Paths DEF UnconfirmedLabels
<1> QED BY <1>1, <1>2, <1>3 DEF SeenInv, Left

LEMMA SeenKept ==
  ASSUME IInv, Roles, \A p \in Procs : SeenInv(p), [Next]_vars
  PROVE  \A p \in Procs : SeenInv(p)'
<1>0. Typed
  BY DEF IInv
<1>1. ASSUME NEW p \in Procs, Accept(p) \/ Acts(p), NEW r \in Procs PROVE SeenInv(r)'
  <2>1. CASE r = p
    BY <1>1, <2>1, SeenStep
  <2>2. CASE r # p
    <3>1. pc'[r] = pc[r] /\ loc'[r] = loc[r] /\ Grows
      BY <1>1, <2>2, AloneAndGrowing DEF Moves
    <3>2. Finishing(r)' = Finishing(r)
      BY <3>1 DEF Finishing
    <3>3. CASE pc[r] = "idle"
      BY <3>1, <3>3 DEF SeenInv, Finishing, UnconfirmedLabels, RunLabels
    <3>4. CASE pc[r] # "idle"
      <4>1. loc[r].src \in Sources
        BY <1>0, <3>4, LocalTyped DEF LocalsFit
      <4>2. Left(loc[r].src) => Left(loc[r].src)'
        BY <1>1, <3>1, <4>1, LeftForGood DEF Left
      <4> QED BY <3>1, <3>2, <4>1, <4>2 DEF SeenInv, Grows
    <3> QED BY <3>3, <3>4
  <2> QED BY <2>1, <2>2
<1>2. CASE Crash
  BY <1>2 DEF Crash, SeenInv, Finishing, UnconfirmedLabels, RunLabels
<1>3. CASE UNCHANGED vars
  BY <1>3 DEF vars, SeenInv, Finishing, Left
<1> QED BY <1>1, <1>2, <1>3 DEF Next, Acts

LEMMA SeenInvariant == Spec => [](\A p \in Procs : SeenInv(p))
<1> DEFINE Inv == \A p \in Procs : SeenInv(p)
<1>1. Init => Inv
  BY DEF Init, RequestsInit, SeenInv, Finishing, UnconfirmedLabels, RunLabels
<1>2. IInv /\ Roles /\ Inv /\ [Next]_vars => Inv'
  BY SeenKept
<1> HIDE DEF Inv
<1>3. Spec => []Inv
  BY <1>1, <1>2, IngestInvariant, RolesInvariant, PTL DEF Spec
<1> QED BY <1>3 DEF Inv

\* A source with a window answered with success has left "enabled", whoever else
\* changes its state, and also when an earlier Ingest died before Observe.
THEOREM SuccessIsObserved == Spec => []ObservedOnSuccess
<1>1. (\A p \in Procs : SeenInv(p)) => ObservedOnSuccess
  BY DEF SeenInv, Finishing, Left, ObservedOnSuccess, At
<1> QED BY <1>1, SeenInvariant, PTL

-----------------------------------------------------------------------------
(* after_restart: set only by ReadRestart, from a boundary that exists; no *)
(* boundary is ever deleted.                                               *)

Bounded(s, first, last) == \E rb \in restarts[s] : first - 1 <= rb.atSeq /\ rb.atSeq <= last

\* Before the boundaries are read nothing is claimed of them; afterwards what is
\* claimed is so.
BeforeRestart == {"lock", "get", "observe", "observe_set", "recent", "restart"} \cup UnconfirmedLabels

AfterInv(p) ==
  /\ pc[p] \in BeforeRestart => ~loc[p].after
  /\ pc[p] \in RunLabels /\ loc[p].after => Bounded(loc[p].src, loc[p].firstSeq, loc[p].seq)

LEMMA RestartsStay ==
  ASSUME IInv, NEW p \in Procs, Accept(p) \/ Acts(p), NEW s \in Sources
  PROVE  restarts[s] \subseteq restarts'[s]
<1>1. Typed
  BY DEF IInv
<1>2. CASE UNCHANGED restarts
  BY <1>2
<1>3. CASE InsertedRestart(p)
  <2>1. restarts \in [Sources -> SUBSET RestartRow]
    BY <1>1, TablesTyped
  <2> QED BY <1>3, <2>1 DEF InsertedRestart, InsertRestart
<1> QED BY <1>1, <1>2, <1>3, Accepted, Writers DEF tables

LEMMA AfterStep ==
  ASSUME IInv, NEW p \in Procs, AfterInv(p), Accept(p) \/ Acts(p)
  PROVE  AfterInv(p)'
<1>0. Typed /\ "after" \in DOMAIN Blank /\ ~Blank.after
  BY DEF IInv, Blank
<1>1. CASE Accept(p)
  <2>1. pc'[p] \notin RunLabels /\ pc'[p] \notin BeforeRestart \ {"lock"}
    BY <1>0, <1>1, Accepted DEF Starts, BeforeRestart, RunLabels, UnconfirmedLabels
  <2>2. pc'[p] = "lock" => ~loc'[p].after
    BY <1>0, <1>1, Accepted DEF Starts, Fresh
  <2> QED BY <2>1, <2>2 DEF AfterInv
<1>2. CASE Acts(p) /\ pc'[p] = "lock"
  <2>1. ~loc'[p].after
    BY <1>0, <1>2, NextItem DEF Fresh
  <2> QED BY <1>2, <2>1 DEF AfterInv, RunLabels
<1>3. CASE Acts(p) /\ pc'[p] \in BeforeRestart \ {"lock"}
  <2>1. pc[p] \in BeforeRestart \ {"restart"}
    BY <1>0, <1>3, Paths
    DEF BeforeRestart, UnconfirmedLabels, Acquire, Admit, CreateWindow, StoreTest, StoreStatus,
        StoreLastSeq, Observe, SetObserving, CountRun, WriteState, At
  <2>2. ~loc[p].after
    BY <2>1 DEF AfterInv
  <2>3. pc'[p] \notin {"idle", "lock"}
    BY <1>3 DEF BeforeRestart, UnconfirmedLabels
  <2>4. ~ReadRestart(p)
    BY <2>1 DEF ReadRestart, At, BeforeRestart, UnconfirmedLabels
  <2>5. ~loc'[p].after
    BY <1>0, <1>3, <2>2, <2>3, <2>4, Kept
  <2> QED BY <2>5 DEF AfterInv
<1>4. CASE Acts(p) /\ pc'[p] \in RunLabels /\ loc'[p].after
  <2>1. pc'[p] \notin {"idle", "lock"}
    BY <1>4 DEF RunLabels
  <2>2. loc'[p].src = loc[p].src /\ loc'[p].seq = loc[p].seq
    BY <1>0, <1>4, <2>1, Kept
  <2>3. Bounded(loc'[p].src, loc'[p].firstSeq, loc'[p].seq)
    <3>1. CASE ReadRestart(p)
      <4>1. \E at \in LatestBefore(loc[p].src, loc[p].seq) : at >= loc[p].firstSeq - 1
        BY <1>0, <1>4, <3>1, ReadRestartSets
      <4>2. PICK rb \in restarts[loc[p].src] : rb.atSeq <= loc[p].seq /\ rb.atSeq >= loc[p].firstSeq - 1
        BY <4>1 DEF LatestBefore
      <4>3. loc'[p].firstSeq = loc[p].firstSeq
        BY <1>0, <1>4, <2>1, <3>1, Kept DEF ReadRestart, CountRun, At
      <4>4. /\ loc[p].firstSeq \in Int /\ loc[p].src \in Sources /\ rb.atSeq \in Int
        <5>1. loc[p].firstSeq \in Seqs /\ loc[p].src \in Sources
          BY <1>0, <3>1, LocalTyped DEF LocalsFit, ReadRestart, At, RunLabels
        <5>2. rb \in RestartRow
          BY <1>0, <5>1, TablesTyped
        <5> QED BY <5>1, <5>2 DEF Seqs, RestartRow
      <4>5. rb \in restarts[loc'[p].src] /\ loc'[p].firstSeq - 1 <= rb.atSeq /\ rb.atSeq <= loc'[p].seq
        BY <2>2, <4>2, <4>3, <4>4
      <4> QED BY <4>5 DEF Bounded
    <3>2. CASE CountRun(p)
      <4>1. ~loc[p].after
        BY <3>2 DEF CountRun, At, AfterInv, BeforeRestart
      <4> QED BY <1>0, <1>4, <2>1, <3>2, <4>1, Kept DEF CountRun, ReadRestart, At
    <3>3. CASE ~ReadRestart(p) /\ ~CountRun(p)
      <4>1. loc'[p].after = loc[p].after /\ loc'[p].firstSeq = loc[p].firstSeq
        BY <1>0, <1>4, <2>1, <3>3, Kept
      <4>2. pc[p] \in RunLabels
        BY <1>0, <1>4, <3>3, Paths
        DEF RunLabels, FindSettled, Settle, NoOpenEvent, FindOpenEvent, Raise, At
      <4> QED BY <1>4, <2>2, <4>1, <4>2 DEF AfterInv
    <3> QED BY <3>1, <3>2, <3>3
  <2>4. loc'[p].src \in Sources
    BY <1>0, <1>4, <2>1, <2>2, Busy, LocalTyped DEF LocalsFit
  <2>5. Bounded(loc[p].src, loc[p].firstSeq, loc[p].seq)'
    BY <1>4, <2>3, <2>4, RestartsStay DEF Bounded
  <2>6. pc'[p] \in BeforeRestart => ~loc'[p].after
    <3>1. pc'[p] = "restart" => CountRun(p)
      BY <1>0, <1>4, Paths
    <3>2. CountRun(p) => ~loc[p].after /\ ~ReadRestart(p)
      BY DEF CountRun, ReadRestart, At, AfterInv, BeforeRestart
    <3> QED
      BY <1>0, <1>4, <2>1, <3>1, <3>2, Kept DEF BeforeRestart, RunLabels, UnconfirmedLabels
  <2> QED BY <2>5, <2>6 DEF AfterInv
<1>5. CASE pc'[p] \notin BeforeRestart /\ (pc'[p] \notin RunLabels \/ ~loc'[p].after)
  BY <1>5 DEF AfterInv
<1>6. "lock" \in BeforeRestart
  BY DEF BeforeRestart
<1>7. CASE Acts(p) /\ pc'[p] \in BeforeRestart
  BY <1>2, <1>3, <1>7
<1> QED BY <1>1, <1>4, <1>5, <1>7

LEMMA AttributionStep ==
  ASSUME IInv, RestartAttributed, NEW p \in Procs, AfterInv(p), Accept(p) \/ Acts(p)
  PROVE  RestartAttributed'
<1>0. Typed
  BY DEF IInv
<1>1. CASE Accept(p)
  BY <1>0, <1>1, Accepted DEF tables, RestartAttributed
<1>2. CASE Acts(p)
  <2> SUFFICES ASSUME NEW s \in Sources, NEW i \in DOMAIN events'[s], events'[s][i].afterRestart
               PROVE  \E rb \in restarts'[s] : /\ events'[s][i].firstSeq - 1 <= rb.atSeq
                                               /\ rb.atSeq <= events'[s][i].lastSeq
    BY DEF RestartAttributed
  <2>1. restarts[s] \subseteq restarts'[s]
    BY RestartsStay
  <2>2. CASE i \in DOMAIN events[s] /\ SameRun(s, i)
    BY <2>1, <2>2 DEF SameRun, RestartAttributed
  <2>3. CASE RunOf(p, s, i) /\ s = loc[p].src /\ (CreateEvent(p) \/ ExtendRun(p))
    <3>1. pc[p] \in RunLabels
      BY <2>3 DEF CreateEvent, ExtendRun, At, RunLabels
    <3>2. Bounded(s, loc[p].firstSeq, loc[p].seq)
      BY <2>3, <3>1 DEF AfterInv, RunOf
    <3> QED BY <2>1, <2>3, <3>2 DEF Bounded, RunOf
  <2>4. i \in DOMAIN events[s] \/ (CreateEvent(p) /\ s = loc[p].src /\ RunOf(p, s, i))
    BY <1>0, <1>2, EventSteps
  <2> QED BY <1>0, <1>2, <2>2, <2>3, <2>4, EventSteps
<1> QED BY <1>1, <1>2

LEMMA RestartKept ==
  ASSUME IInv, RestartAttributed, \A p \in Procs : AfterInv(p), [Next]_vars
  PROVE  RestartAttributed' /\ \A p \in Procs : AfterInv(p)'
<1>0. Typed
  BY DEF IInv
<1>1. ASSUME NEW p \in Procs, Accept(p) \/ Acts(p), NEW r \in Procs PROVE AfterInv(r)'
  <2>1. CASE r = p
    BY <1>1, <2>1, AfterStep
  <2>2. CASE r # p
    <3>1. pc'[r] = pc[r] /\ loc'[r] = loc[r]
      BY <1>1, <2>2, AloneAndGrowing DEF Moves
    <3>2. CASE pc[r] \in RunLabels
      <4>1. loc[r].src \in Sources
        BY <1>0, <3>2, LocalTyped DEF LocalsFit, RunLabels
      <4> QED BY <1>1, <3>1, <4>1, RestartsStay DEF AfterInv, Bounded
    <3>3. CASE pc[r] \notin RunLabels
      BY <3>1, <3>3 DEF AfterInv
    <3> QED BY <3>2, <3>3
  <2> QED BY <2>1, <2>2
<1>2. CASE Crash
  BY <1>2 DEF Crash, tables, RestartAttributed, AfterInv, BeforeRestart, UnconfirmedLabels, RunLabels
<1>3. CASE UNCHANGED vars
  BY <1>3 DEF vars, RestartAttributed, AfterInv, Bounded
<1>4. ASSUME NEW p \in Procs, Accept(p) \/ Acts(p) PROVE RestartAttributed'
  BY <1>4, AttributionStep
<1> QED BY <1>1, <1>2, <1>3, <1>4 DEF Next, Acts

\* An event that claims to follow a restart has a recorded boundary inside its run or
\* right before it, whatever boundaries and windows arrived in between.
THEOREM RestartsJustified == Spec => []RestartAttributed
<1> DEFINE Inv == RestartAttributed /\ \A p \in Procs : AfterInv(p)
<1>1. Init => Inv
  BY DEF Init, DatabaseInit, RequestsInit, RestartAttributed, AfterInv, BeforeRestart,
         UnconfirmedLabels, RunLabels
<1>2. IInv /\ Inv /\ [Next]_vars => Inv'
  BY RestartKept
<1>3. Inv => RestartAttributed
  OBVIOUS
<1> HIDE DEF Inv
<1> QED BY <1>1, <1>2, <1>3, IngestInvariant, PTL DEF Spec

-----------------------------------------------------------------------------
(* The rows an event statement addresses: events are never deleted.        *)

EventLabels == {"settle", "settle_close", "raise", "update_run", "confirm", "close"}

RowNamed(p) == pc[p] \in EventLabels => loc[p].row \in DOMAIN events[loc[p].src]

RowsNamed == \A p \in Procs : RowNamed(p)

LEMMA EventsStay ==
  ASSUME IInv, NEW p \in Procs, Accept(p) \/ Acts(p), NEW s \in Sources
  PROVE  DOMAIN events[s] \subseteq DOMAIN events'[s]
<1>1. Typed
  BY DEF IInv
<1>2. CASE Accept(p)
  BY <1>1, <1>2, Accepted DEF tables
<1>3. CASE Acts(p)
  BY <1>1, <1>3, EventSteps
<1> QED BY <1>2, <1>3

LEMMA RowStep ==
  ASSUME IInv, NEW p \in Procs, RowNamed(p), Accept(p) \/ Acts(p), pc'[p] \in EventLabels
  PROVE  loc'[p].row \in DOMAIN events'[loc'[p].src]
<1>0. Typed
  BY DEF IInv
<1>1. CASE Accept(p)
  <2>1. PICK s \in Sources :
          \/ Confirm(p, s) /\ Starts(p, "confirm", s, "confirm", {"row"})
          \/ Close(p, s) /\ Starts(p, "close", s, "close", {"row", "confirmed"})
    BY <1>0, <1>1, Accepted DEF Starts, EventLabels
  <2>2. loc'[p].src = s /\ loc'[p].row \in DOMAIN events[s]
    BY <1>0, <2>1, RequestSets DEF Starts
  <2> QED BY <1>0, <1>1, <2>2, Accepted DEF tables
<1>2. CASE Acts(p)
  <2>1. pc'[p] \notin {"idle", "lock"}
    BY DEF EventLabels
  <2>2. loc'[p].src = loc[p].src /\ loc[p].src \in Sources
    BY <1>0, <1>2, <2>1, Kept, Busy, LocalTyped DEF LocalsFit
  <2>3. loc'[p].row \in DOMAIN events[loc[p].src]
    <3>1. CASE FindSettled(p)
      BY <1>0, <3>1, FindSettledSets DEF OpenForSource
    <3>2. CASE FindOpenEvent(p)
      BY <1>0, <3>2, FindOpenEventSets DEF OpenForSource
    <3>3. CASE ~FindSettled(p) /\ ~FindOpenEvent(p)
      <4>1. pc[p] \in EventLabels
        BY <1>0, <1>2, <3>3, Paths DEF EventLabels, Settle, Raise, At
      <4> QED BY <1>0, <1>2, <2>1, <3>3, <4>1, Kept DEF RowNamed
    <3> QED BY <3>1, <3>2, <3>3
  <2> QED BY <2>2, <2>3, EventsStay
<1> QED BY <1>1, <1>2

LEMMA RowsKept == IInv /\ RowsNamed /\ [Next]_vars => RowsNamed'
<1> SUFFICES ASSUME IInv, RowsNamed, [Next]_vars PROVE RowsNamed'
  OBVIOUS
<1>0. Typed
  BY DEF IInv
<1>1. ASSUME NEW p \in Procs, Accept(p) \/ Acts(p), NEW r \in Procs PROVE RowNamed(r)'
  <2>1. CASE r = p
    BY <1>1, <2>1, RowStep DEF RowsNamed, RowNamed
  <2>2. CASE r # p
    <3>1. pc'[r] = pc[r] /\ loc'[r] = loc[r]
      BY <1>1, <2>2, AloneAndGrowing DEF Moves
    <3>2. pc[r] \in EventLabels => loc[r].src \in Sources
      BY <1>0, LocalTyped DEF LocalsFit, EventLabels
    <3> QED BY <1>1, <3>1, <3>2, EventsStay DEF RowsNamed, RowNamed
  <2> QED BY <2>1, <2>2
<1>2. CASE Crash
  BY <1>2 DEF Crash, RowsNamed, RowNamed, EventLabels
<1>3. CASE UNCHANGED vars
  BY <1>3 DEF vars, RowsNamed, RowNamed
<1> QED BY <1>1, <1>2, <1>3 DEF Next, Acts, RowsNamed

\* Every statement that changes an event addresses a row that exists.
THEOREM EventRowsExist == Spec => []RowsNamed
<1>1. Init => RowsNamed
  BY DEF Init, RequestsInit, RowsNamed, RowNamed, EventLabels
<1> QED BY <1>1, RowsKept, IngestInvariant, PTL DEF Spec

-----------------------------------------------------------------------------
(* An anomalous window answered with success is on record.                 *)

Correlating(p) == Finishing(p) \/ pc[p] \in {"observe", "observe_set"}

\* Where Ingest has written the event.
Concluding(p) ==
  \/ pc[p] = "degrade"
  \/ pc[p] = "set_degraded" /\ loc[p].op = "ingest"
  \/ pc[p] = "done" /\ loc[p].reply = "ok"

OnRecord(s, q, anomaly) ==
  \E i \in DOMAIN events[s] : events[s][i].lastSeq = q /\ events[s][i].anomaly = anomaly

ReportInv(p) ==
  LET s == loc[p].src IN
  /\ Correlating(p) => loc[p].seq \in Seqs /\ sources[s].lastSeq = loc[p].seq
  /\ Concluding(p) /\ Anomalous(p) => OnRecord(s, loc[p].seq, loc[p].anomaly)
  /\ pc[p] \in {"settle", "settle_close"} => ~Anomalous(p)

Reports == \A p \in Procs : ReportInv(p)

LEMMA CorrelatingSteps ==
  ASSUME IInv, Roles, NEW p \in Procs, Accept(p) \/ Acts(p), Correlating(p)'
  PROVE  /\ Acts(p) /\ loc'[p].src = loc[p].src /\ loc'[p].seq = loc[p].seq
         /\ loc'[p].status = loc[p].status /\ loc'[p].seen = loc[p].seen
         /\ StoreLastSeq(p) \/ (Correlating(p) /\ ~StoreLastSeq(p))
<1>0. Typed
  BY DEF IInv
<1>1. ~Correlating(p) \/ ~StoreLastSeq(p)
  BY DEF Correlating, Finishing, RunLabels, StoreLastSeq, At
<1>2. CASE Finishing(p)'
  <2>1. Observe(p) \/ SetObserving(p) => Correlating(p)
    BY DEF Observe, SetObserving, WriteState, At, Correlating
  <2> QED BY <1>1, <1>2, <2>1, FinishingSteps DEF Correlating
<1>3. CASE pc'[p] \in {"observe", "observe_set"}
  <2>1. Acts(p)
    BY <1>0, <1>3, Accepted DEF Starts
  <2>2. StoreLastSeq(p) \/ Observe(p)
    BY <1>0, <1>3, <2>1, Paths
  <2>3. ~StoreStatus(p) /\ ~Admit(p)
    BY <2>2 DEF StoreLastSeq, Observe, StoreStatus, Admit, At
  <2>4. /\ loc'[p].src = loc[p].src /\ loc'[p].seq = loc[p].seq
        /\ loc'[p].status = loc[p].status /\ loc'[p].seen = loc[p].seen
    BY <1>0, <1>3, <2>1, <2>3, Kept
  <2> QED BY <1>1, <2>1, <2>2, <2>4 DEF Observe, At, Correlating
<1> QED BY <1>2, <1>3 DEF Correlating

LEMMA ConfirmedStep ==
  ASSUME IInv, Roles, NEW p \in Procs, ReportInv(p), Accept(p) \/ Acts(p), Correlating(p)'
  PROVE  loc'[p].seq \in Seqs /\ sources'[loc'[p].src].lastSeq = loc'[p].seq
<1>1. /\ Acts(p) /\ loc'[p].src = loc[p].src /\ loc'[p].seq = loc[p].seq
      /\ StoreLastSeq(p) \/ (Correlating(p) /\ ~StoreLastSeq(p))
  BY CorrelatingSteps
<1>2. Typed /\ loc[p].src \in Sources
  BY <1>1, Busy, LocalTyped DEF IInv, LocalsFit
<1>3. CASE StoreLastSeq(p)
  <2>1. loc[p].seq \in Seqs
    BY <1>3, InsideIngest DEF StoreLastSeq, At, UnconfirmedLabels
  <2> QED BY <1>1, <1>2, <1>3, <2>1, LastSeqWritten DEF StoreLastSeq
<1>4. CASE Correlating(p) /\ ~StoreLastSeq(p)
  BY <1>1, <1>2, <1>4, SourceSteps DEF ReportInv
<1> QED BY <1>1, <1>3, <1>4

LEMMA ReportStep ==
  ASSUME IInv, Roles, NEW p \in Procs, RowNamed(p), ReportInv(p), Accept(p) \/ Acts(p),
         Concluding(p)', Anomalous(p)'
  PROVE  OnRecord(loc[p].src, loc[p].seq, loc[p].anomaly)'
<1>1. Finishing(p)'
  BY DEF Concluding, Finishing
<1>2. /\ Acts(p) /\ loc[p].op = "ingest"
      /\ loc'[p].src = loc[p].src /\ loc'[p].seq = loc[p].seq
      /\ loc'[p].anomaly = loc[p].anomaly /\ loc'[p].status = loc[p].status
  BY <1>1, FinishingSteps
<1>3. Typed /\ loc[p].src \in Sources /\ Anomalous(p)
  BY <1>2, Busy, LocalTyped DEF IInv, LocalsFit, Anomalous
<1>4. CreateEvent(p) \/ ExtendRun(p) \/ Concluding(p)
  <2>1. CASE pc'[p] = "degrade"
    BY <1>2, <1>3, <2>1, Paths
  <2>2. CASE pc'[p] = "set_degraded"
    BY <1>2, <1>3, <2>2, Paths DEF AutoDegrade, At, Concluding
  <2>3. CASE pc'[p] = "done" /\ loc'[p].reply = "ok"
    BY <1>2, <1>3, <2>3, Success
    DEF NothingToSettle, SettleClose, SetDegraded, WriteState, At, Concluding, ReportInv
  <2> QED BY <2>1, <2>2, <2>3 DEF Concluding
<1>5. \E i \in DOMAIN events'[loc[p].src] :
        events'[loc[p].src][i].lastSeq = loc[p].seq /\ events'[loc[p].src][i].anomaly = loc[p].anomaly
  <2>1. CASE CreateEvent(p)
    BY <1>3, <2>1, EventInserted DEF CreateEvent
  <2>2. CASE ExtendRun(p)
    <3>1. loc[p].row \in DOMAIN events[loc[p].src]
      BY <2>2 DEF ExtendRun, At, RowNamed, EventLabels
    <3> QED BY <1>3, <2>2, <3>1, RunUpdated DEF ExtendRun, RowReplaced
  <2>3. CASE Concluding(p)
    <3>1. ~ExtendRun(p)
      BY <2>3 DEF Concluding, ExtendRun, At
    <3>2. OnRecord(loc[p].src, loc[p].seq, loc[p].anomaly)
      BY <1>3, <2>3 DEF ReportInv
    <3> QED BY <1>2, <1>3, <3>1, <3>2, EventSteps DEF OnRecord, SameRun
  <2> QED BY <1>4, <2>1, <2>2, <2>3
<1> QED BY <1>2, <1>5 DEF OnRecord

LEMMA SettlingStep ==
  ASSUME IInv, NEW p \in Procs, ReportInv(p), Accept(p) \/ Acts(p),
         pc'[p] \in {"settle", "settle_close"}
  PROVE  ~Anomalous(p)'
<1>1. Typed /\ Acts(p)
  BY Accepted DEF IInv, Starts
<1>2. FindSettled(p) \/ Settle(p)
  BY <1>1, Paths
<1>3. ~Anomalous(p) /\ ~StoreStatus(p)
  BY <1>2 DEF FindSettled, Settle, StoreStatus, At, ReportInv
<1> QED BY <1>1, <1>3, Kept DEF Anomalous

\* What another request does to the source of a window being correlated.
LEMMA ReportUndisturbed ==
  ASSUME IInv, NEW p \in Procs, NEW r \in Procs, r # p, ReportInv(r), Accept(p) \/ Acts(p)
  PROVE  ReportInv(r)'
<1>0. Typed
  BY DEF IInv
<1>1. pc'[r] = pc[r] /\ loc'[r] = loc[r]
  BY AloneAndGrowing DEF Moves
<1>2. CASE Correlating(r)
  <2>1. Inside(r) /\ loc[r].src \in Sources
    BY <1>0, <1>2, FinishingInside DEF Correlating, CorrelatedLabels
  <2>2. loc[p].src # loc[r].src \/ (~StoreLastSeq(p) /\ ~ExtendRun(p))
    <3>1. StoreLastSeq(p) \/ ExtendRun(p) => Inside(p)
      BY <1>0, IngestIsInside DEF StoreLastSeq, ExtendRun, At, IngestLabels
    <3> QED BY <2>1, <3>1, OneInside
  <2>3. CASE Accept(p)
    BY <1>0, <1>1, <2>3, Accepted DEF tables, ReportInv, Correlating, Finishing, Concluding,
       Anomalous, OnRecord
  <2>4. CASE Acts(p)
    <3>1. sources'[loc[r].src].lastSeq = sources[loc[r].src].lastSeq
      BY <2>1, <2>2, <2>4, SourceSteps
    <3>2. \A i \in DOMAIN events[loc[r].src] :
            i \in DOMAIN events'[loc[r].src] /\ SameRun(loc[r].src, i)
      BY <1>0, <2>1, <2>2, <2>4, EventSteps
    <3>3. OnRecord(loc[r].src, loc[r].seq, loc[r].anomaly)
            => OnRecord(loc[r].src, loc[r].seq, loc[r].anomaly)'
      BY <1>1, <3>2 DEF OnRecord, SameRun
    <3>4. /\ Correlating(r)' = Correlating(r) /\ Concluding(r)' = Concluding(r)
          /\ Anomalous(r)' = Anomalous(r)
      BY <1>1 DEF Correlating, Finishing, Concluding, Anomalous
    <3> QED BY <1>1, <3>1, <3>3, <3>4 DEF ReportInv
  <2> QED BY <2>3, <2>4
<1>3. CASE ~Correlating(r)
  BY <1>1, <1>3 DEF ReportInv, Correlating, Finishing, Concluding, Anomalous, RunLabels
<1> QED BY <1>2, <1>3

LEMMA ReportKept ==
  ASSUME IInv, Roles, RowsNamed, Reports, [Next]_vars
  PROVE  Reports'
<1>1. ASSUME NEW p \in Procs, Accept(p) \/ Acts(p), NEW r \in Procs PROVE ReportInv(r)'
  <2>1. CASE r = p
    BY <1>1, <2>1, ConfirmedStep, ReportStep, SettlingStep DEF Reports, ReportInv, RowsNamed
  <2>2. CASE r # p
    BY <1>1, <2>2, ReportUndisturbed DEF Reports
  <2> QED BY <2>1, <2>2
<1>2. ASSUME Crash, NEW r \in Procs PROVE ReportInv(r)'
  <2>1. pc'[r] = "idle"
    BY <1>2 DEF Crash
  <2>2. ~Correlating(r)' /\ ~Concluding(r)'
    BY <2>1 DEF Correlating, Finishing, Concluding, RunLabels
  <2> QED BY <2>1, <2>2 DEF ReportInv
<1>3. CASE UNCHANGED vars
  BY <1>3 DEF vars, Reports, ReportInv, Correlating, Finishing, Concluding, Anomalous, OnRecord
<1> QED BY <1>1, <1>2, <1>3 DEF Next, Acts, Reports

LEMMA ReportsInvariant == Spec => []Reports
<1>1. Init => Reports
  <2> SUFFICES ASSUME Init, NEW r \in Procs PROVE ReportInv(r)
    BY DEF Reports
  <2>1. pc[r] = "idle"
    BY DEF Init, RequestsInit
  <2>2. ~Correlating(r) /\ ~Concluding(r)
    BY <2>1 DEF Correlating, Finishing, Concluding, RunLabels
  <2> QED BY <2>1, <2>2 DEF ReportInv
<1>2. IInv /\ Roles /\ RowsNamed /\ Reports /\ [Next]_vars => Reports'
  BY ReportKept
<1> QED BY <1>1, <1>2, IngestInvariant, RolesInvariant, EventRowsExist, PTL DEF Spec

\* An anomalous window answered with success is the confirmed one of its source and
\* the last of an event that carries its anomaly, also when another request confirms
\* or closes that event in between.
THEOREM SuccessIsOnRecord == Spec => []AnomalyReported
<1>1. Reports => AnomalyReported
  BY DEF Reports, ReportInv, Correlating, Finishing, Concluding, OnRecord, AnomalyReported, At
<1> QED BY <1>1, ReportsInvariant, PTL

-----------------------------------------------------------------------------
(* Without re-evaluation only Ingest writes windows, and only the window   *)
(* it has admitted: one up to the confirmed number never changes again.    *)

LEMMA WindowSteps ==
  ASSUME "reevaluate" \notin Ops, IInv, Roles, NEW p \in Procs, Accept(p) \/ Acts(p),
         NEW s \in Sources, NEW q \in Seqs
  PROVE  \/ windows'[s][q] = windows[s][q]
         \/ /\ s = loc[p].src /\ q = loc[p].seq /\ q > sources[s].lastSeq
            /\ Inside(p)
            /\ CreateWindow(p) \/ StoreStatus(p)
<1>0. Typed
  BY DEF IInv
<1>1. CASE Accept(p)
  BY <1>0, <1>1, Accepted DEF tables
<1>2. CASE Acts(p)
  <2>1. ~SetReevaluated(p)
    BY DEF Roles, Role, SetReevaluated, At
  <2>2. CASE CreateWindow(p) \/ StoreStatus(p)
    <3>1. pc[p] \in UnconfirmedLabels /\ pc[p] # "get"
      BY <2>2 DEF CreateWindow, StoreStatus, At, UnconfirmedLabels
    <3>2. Inside(p) /\ loc[p].src \in Sources /\ loc[p].seq \in Seqs
      BY <3>1, InsideIngest
    <3>3. loc[p].seq > sources[loc[p].src].lastSeq
      BY <3>1 DEF IInv, Ahead
    <3>4. s # loc[p].src \/ q # loc[p].seq => windows'[s][q] = windows[s][q]
      <4>1. CASE CreateWindow(p)
        BY <1>0, <3>2, <4>1, WindowInserted DEF CreateWindow
      <4>2. CASE StoreStatus(p)
        BY <1>0, <3>2, <4>2, StoreStatusSets, StatusWritten
      <4> QED BY <2>2, <4>1, <4>2
    <3> QED BY <2>2, <3>2, <3>3, <3>4
  <2> QED BY <1>2, <2>1, <2>2, Writers
<1> QED BY <1>1, <1>2

\* Windows up to the confirmed number are settled.
Settles(s, q) == \A k \in Seqs : k <= q => windows'[s][k] = windows[s][k]

LEMMA ConfirmedSettled ==
  ASSUME "reevaluate" \notin Ops, IInv, Roles, NEW p \in Procs, Accept(p) \/ Acts(p),
         NEW s \in Sources
  PROVE  Settles(s, sources[s].lastSeq)
<1>1. sources[s].lastSeq \in Int
  BY TablesTyped DEF IInv, SourceRow
<1>2. ASSUME NEW k \in Seqs, k <= sources[s].lastSeq PROVE windows'[s][k] = windows[s][k]
  <2>1. ~(k > sources[s].lastSeq)
    BY <1>1, <1>2 DEF Seqs
  <2> QED BY <2>1, WindowSteps
<1> QED BY <1>2 DEF Settles

LEMMA TailSettled ==
  ASSUME NEW s \in Sources, NEW q \in Seqs, Settles(s, q)
  PROVE  TailRun(s, q)' = TailRun(s, q) /\ Degrading(s, q)' = Degrading(s, q)
<1> DEFINE upTo == {r \in Recorded(s) : r <= q}
<1>1. \A r \in Seqs : r <= q => windows'[s][r] = windows[s][r]
  BY DEF Settles
<1>2. upTo' = upTo
  BY <1>1 DEF Recorded
<1>3. ASSUME NEW n PROVE RecentWindows(s, q, n)' = RecentWindows(s, q, n)
  BY <1>2 DEF RecentWindows
<1>4. ASSUME NEW n PROVE RecentWindows(s, q, n) \subseteq {r \in Seqs : r <= q}
  BY DEF RecentWindows, Recorded
<1>5. ASSUME NEW r \in {k \in Seqs : k <= q} PROVE windows'[s][r] = windows[s][r]
  BY <1>1
<1>6. RecentWindows(s, q, PersistentThreshold + 2)' = RecentWindows(s, q, PersistentThreshold + 2)
  BY <1>3
<1>7. RecentWindows(s, q, PersistentThreshold)' = RecentWindows(s, q, PersistentThreshold)
  BY <1>3
<1>8. TailRun(s, q)' = TailRun(s, q)
  BY <1>4, <1>5, <1>6 DEF TailRun
<1>9. Degrading(s, q)' = Degrading(s, q)
  BY <1>4, <1>5, <1>7 DEF Degrading
<1> QED BY <1>8, <1>9

\* The recorded windows of an interval.
Interval(s, first, last) == {q \in Recorded(s) : first <= q /\ q <= last}

LEMMA UpToFinite ==
  ASSUME NEW s \in Sources, NEW q \in Seqs
  PROVE  /\ IsFiniteSet(Recorded(s))
         /\ \A n : IsFiniteSet(RecentWindows(s, q, n))
         /\ IsFiniteSet(TailRun(s, q))
<1>1. IsFiniteSet(Seqs)
  BY DomainAssumption, FS_Interval DEF Seqs
<1>2. Recorded(s) \subseteq Seqs /\ TailRun(s, q) \subseteq Seqs
      /\ \A n : RecentWindows(s, q, n) \subseteq Seqs
  BY DEF Recorded, TailRun, RecentWindows
<1> QED BY <1>1, <1>2, FS_Subset

\* The recent windows include the window itself and, with one of them, every later one.
LEMMA RecentUpward ==
  ASSUME NEW s \in Sources, NEW q \in Seqs, NEW n \in Nat \ {0}
  PROVE  /\ q \in Recorded(s) => q \in RecentWindows(s, q, n)
         /\ \A r \in RecentWindows(s, q, n), t \in Recorded(s) :
              r <= t /\ t <= q => t \in RecentWindows(s, q, n)
<1> DEFINE upTo == {r \in Recorded(s) : r <= q}
           after(r) == {t \in upTo : t > r}
<1>1. q \in Int /\ \A r \in Recorded(s) : r \in Int
  BY DEF Recorded, Seqs
<1>2. IsFiniteSet(upTo)
  <2>1. upTo \subseteq Recorded(s)
    OBVIOUS
  <2> QED BY <2>1, UpToFinite, FS_Subset
<1>3. ASSUME NEW r PROVE IsFiniteSet(after(r))
  BY <1>2, FS_Subset
<1>4. q \in Recorded(s) => q \in RecentWindows(s, q, n)
  <2>1. ASSUME NEW t \in upTo PROVE ~(t > q)
    BY <1>1
  <2> HIDE DEF upTo
  <2>2. after(q) = {}
    BY <2>1
  <2>3. Cardinality(after(q)) = 0
    BY <2>2, FS_EmptySet
  <2>4. q <= q
    BY <1>1
  <2> QED BY <2>3, <2>4 DEF RecentWindows, upTo
<1>5. ASSUME NEW r \in RecentWindows(s, q, n), NEW t \in Recorded(s), r <= t, t <= q
      PROVE  t \in RecentWindows(s, q, n)
  <2>1. r \in upTo /\ Cardinality(after(r)) < n
    BY DEF RecentWindows
  <2>2. after(t) \subseteq after(r)
    <3>1. ASSUME NEW k \in upTo, k > t PROVE k > r
      <4>1. k \in Int /\ t \in Int /\ r \in Int
        BY <1>1, <2>1
      <4> QED BY <1>5, <3>1, <4>1
    <3> HIDE DEF upTo
    <3> QED BY <3>1
  <2>3. Cardinality(after(t)) <= Cardinality(after(r))
    BY <1>3, <2>2, FS_Subset
  <2>4. Cardinality(after(t)) \in Nat /\ Cardinality(after(r)) \in Nat
    BY <1>3, FS_CardinalityType
  <2>5. Cardinality(after(t)) < n
    BY <2>1, <2>3, <2>4
  <2> QED BY <1>5, <2>5 DEF RecentWindows
<1> QED BY <1>4, <1>5

\* The run that ends with an anomalous window is an interval of the recorded windows.
LEMMA TailIsInterval ==
  ASSUME NEW s \in Sources, NEW q \in Recorded(s), windows[s][q].status # "valid"
  PROVE  /\ q \in TailRun(s, q)
         /\ \A first \in TailRun(s, q) :
              (\A r \in TailRun(s, q) : first <= r) =>
                /\ TailRun(s, q) = Interval(s, first, q)
                /\ \A r \in Interval(s, first, q) : windows[s][r].status # "valid"
<1> DEFINE recent == RecentWindows(s, q, PersistentThreshold + 2)
<1>1. q \in Seqs /\ PersistentThreshold + 2 \in Nat \ {0}
  BY DomainAssumption DEF Recorded
<1>2. recent \subseteq Recorded(s) /\ \A r \in recent : r <= q
  BY DEF RecentWindows
<1>3. Recorded(s) \subseteq Int
  BY DEF Recorded, Seqs
<1>4. TailRun(s, q) = {r \in recent : \A t \in recent : t >= r => windows[s][t].status # "valid"}
  BY DEF TailRun
<1>5. q \in recent /\ \A r \in recent, t \in Recorded(s) : r <= t /\ t <= q => t \in recent
  BY <1>1, RecentUpward
<1> HIDE DEF recent
<1>6. q \in TailRun(s, q)
  BY <1>2, <1>3, <1>4, <1>5
<1>7. ASSUME NEW first \in TailRun(s, q), \A r \in TailRun(s, q) : first <= r
      PROVE  /\ TailRun(s, q) = Interval(s, first, q)
             /\ \A r \in Interval(s, first, q) : windows[s][r].status # "valid"
  <2>1. TailRun(s, q) \subseteq Interval(s, first, q)
    BY <1>2, <1>4, <1>7 DEF Interval
  <2>2. ASSUME NEW r \in Interval(s, first, q) PROVE r \in TailRun(s, q)
    <3>1. r \in recent
      BY <1>4, <1>5 DEF Interval
    <3>2. ASSUME NEW t \in recent, t >= r PROVE t >= first
      BY <1>2, <1>3, <1>4, <3>2 DEF Interval
    <3> QED BY <1>4, <3>1, <3>2
  <2>3. \A r \in TailRun(s, q) : windows[s][r].status # "valid"
    BY <1>2, <1>3, <1>4
  <2> QED BY <2>1, <2>2, <2>3
<1> QED BY <1>6, <1>7

\* A window whose last PersistentThreshold windows are anomalous ends a run as long.
LEMMA DegradingRun ==
  ASSUME NEW s \in Sources, NEW q \in Recorded(s), Degrading(s, q)
  PROVE  /\ windows[s][q].status # "valid"
         /\ Cardinality(TailRun(s, q)) >= PersistentThreshold
<1> DEFINE last == RecentWindows(s, q, PersistentThreshold)
           recent == RecentWindows(s, q, PersistentThreshold + 2)
<1>1. q \in Seqs /\ PersistentThreshold \in Nat \ {0}
  BY DomainAssumption DEF Recorded
<1>2. q \in last /\ \A r \in last, t \in Recorded(s) : r <= t /\ t <= q => t \in last
  BY <1>1, RecentUpward
<1>3. Cardinality(last) = PersistentThreshold /\ \A r \in last : windows[s][r].status # "valid"
  BY DEF Degrading
<1>4. recent \subseteq Recorded(s) /\ \A r \in recent : r <= q
  BY DEF RecentWindows
<1>5. last \subseteq recent
  <2> DEFINE upTo == {r \in Recorded(s) : r <= q}
             after(r) == {t \in upTo : t > r}
  <2>1. ASSUME NEW r PROVE Cardinality(after(r)) \in Nat
    <3>1. after(r) \subseteq Recorded(s)
      OBVIOUS
    <3> QED BY <1>1, <3>1, UpToFinite, FS_Subset, FS_CardinalityType
  <2>2. \A r : Cardinality(after(r)) < PersistentThreshold
               => Cardinality(after(r)) < PersistentThreshold + 2
    BY <1>1, <2>1
  <2> HIDE DEF after
  <2>3. last = {r \in upTo : Cardinality(after(r)) < PersistentThreshold}
        /\ recent = {r \in upTo : Cardinality(after(r)) < PersistentThreshold + 2}
    BY DEF RecentWindows, after
  <2> QED BY <2>2, <2>3
<1>6. Recorded(s) \subseteq Int
  BY DEF Recorded, Seqs
<1>7. TailRun(s, q) = {r \in recent : \A t \in recent : t >= r => windows[s][t].status # "valid"}
  BY DEF TailRun
<1> HIDE DEF last, recent
<1>8. last \subseteq TailRun(s, q)
  BY <1>2, <1>3, <1>4, <1>5, <1>6, <1>7
<1>9. Cardinality(last) <= Cardinality(TailRun(s, q))
  BY <1>1, <1>8, UpToFinite, FS_Subset
<1> QED BY <1>2, <1>3, <1>9

-----------------------------------------------------------------------------
(* The run a request holds is the one the tables show: its own window has  *)
(* the verdict it holds, and no other request touches the windows before.  *)

RunInv(p) ==
  LET s == loc[p].src
      q == loc[p].seq
  IN  /\ pc[p] = "lastseq" \/ Correlating(p) => windows[s][q].status = loc[p].status
      /\ pc[p] \in RunLabels =>
           /\ loc[p].runLen = Cardinality(TailRun(s, q))
           /\ TailRun(s, q) # {} => /\ loc[p].firstSeq \in TailRun(s, q)
                                    /\ \A r \in TailRun(s, q) : loc[p].firstSeq <= r
      /\ pc[p] \in {"create_event", "raise", "update_run"} => Anomalous(p)

Runs == \A p \in Procs : RunInv(p)

\* While its window is between SetLastSeq and the answer, the window is recorded and
\* the confirmed one.
LEMMA CorrelatedWindow ==
  ASSUME IInv, Reports, NEW p \in Procs, Correlating(p)
  PROVE  /\ loc[p].src \in Sources /\ Inside(p)
         /\ loc[p].seq = sources[loc[p].src].lastSeq
         /\ loc[p].seq \in Recorded(loc[p].src)
<1>1. Typed /\ Inside(p) /\ loc[p].src \in Sources
  BY FinishingInside DEF IInv, Correlating, CorrelatedLabels
<1>2. loc[p].seq \in Seqs /\ loc[p].seq = sources[loc[p].src].lastSeq
  BY DEF Reports, ReportInv
<1>3. loc[p].seq # 0
  BY <1>2 DEF Seqs
<1>4. windows[loc[p].src][loc[p].seq].status # "none"
  BY <1>1, <1>2, <1>3 DEF IInv, ConfirmedSeqEvaluated
<1> QED BY <1>1, <1>2, <1>4 DEF Recorded

LEMMA StatusMatches ==
  ASSUME "reevaluate" \notin Ops, IInv, Roles, Reports, NEW p \in Procs, RunInv(p),
         Accept(p) \/ Acts(p), pc'[p] = "lastseq" \/ Correlating(p)'
  PROVE  windows'[loc'[p].src][loc'[p].seq].status = loc'[p].status
<1>0. Typed
  BY DEF IInv
<1>1. CASE pc'[p] = "lastseq"
  <2>1. Acts(p)
    BY <1>0, <1>1, Accepted DEF Starts
  <2>2. StoreStatus(p) /\ loc'[p].src = loc[p].src /\ loc'[p].seq = loc[p].seq
    BY <1>0, <1>1, <2>1, Paths, Kept
  <2>3. loc[p].src \in Sources /\ loc[p].seq \in Seqs
    BY <2>2, InsideIngest DEF StoreStatus, At, UnconfirmedLabels
  <2> QED BY <1>0, <2>2, <2>3, StoreStatusSets, StatusWritten
<1>2. CASE Correlating(p)'
  <2>1. /\ Acts(p) /\ loc'[p].src = loc[p].src /\ loc'[p].seq = loc[p].seq
        /\ loc'[p].status = loc[p].status
        /\ StoreLastSeq(p) \/ Correlating(p)
    BY <1>2, CorrelatingSteps
  <2>2. windows[loc[p].src][loc[p].seq].status = loc[p].status
    BY <2>1 DEF RunInv, StoreLastSeq, At
  <2>3. loc[p].src \in Sources /\ loc[p].seq \in Seqs
    BY <2>1, InsideIngest, CorrelatedWindow DEF StoreLastSeq, At, UnconfirmedLabels, Recorded
  <2>4. windows'[loc[p].src][loc[p].seq] = windows[loc[p].src][loc[p].seq]
    <3>1. ~CreateWindow(p) /\ ~StoreStatus(p)
      BY <2>1
      DEF StoreLastSeq, Correlating, Finishing, RunLabels, CreateWindow, StoreStatus, At
    <3> QED BY <2>3, <3>1, WindowSteps
  <2> QED BY <2>1, <2>2, <2>4
<1> QED BY <1>1, <1>2

LEMMA RunStep ==
  ASSUME "reevaluate" \notin Ops, IInv, Roles, Reports, NEW p \in Procs, RunInv(p),
         Accept(p) \/ Acts(p)
  PROVE  RunInv(p)'
<1>0. Typed
  BY DEF IInv
<1>1. ASSUME pc'[p] \in RunLabels
      PROVE  LET run == TailRun(loc[p].src, loc[p].seq)' IN
             /\ loc'[p].runLen = Cardinality(run)
             /\ run # {} => loc'[p].firstSeq \in run /\ \A r \in run : loc'[p].firstSeq <= r
  <2>1. Correlating(p)'
    BY <1>1 DEF Correlating, Finishing
  <2>2. /\ Acts(p) /\ loc'[p].src = loc[p].src /\ loc'[p].seq = loc[p].seq
        /\ StoreLastSeq(p) \/ Correlating(p)
    BY <2>1, CorrelatingSteps
  <2>3. pc'[p] \notin {"idle", "lock"} /\ ~StoreLastSeq(p)
    BY <1>0, <1>1, GoesTo DEF RunLabels, StoreLastSeq
  <2>4. loc[p].src \in Sources /\ loc[p].seq \in Seqs /\ loc[p].seq = sources[loc[p].src].lastSeq
    BY <2>2, <2>3, CorrelatedWindow DEF Recorded
  <2>5. TailRun(loc[p].src, loc[p].seq)' = TailRun(loc[p].src, loc[p].seq)
    <3>1. PICK s \in Sources, q \in Seqs : s = loc[p].src /\ q = loc[p].seq
      BY <2>4
    <3>2. Settles(s, q)
      BY <2>4, <3>1, ConfirmedSettled
    <3>3. TailRun(s, q)' = TailRun(s, q)
      BY <3>2, TailSettled
    <3> QED BY <2>2, <3>1, <3>3 DEF TailRun, RecentWindows, Recorded
  <2> DEFINE run == TailRun(loc[p].src, loc[p].seq)
  <2>6. /\ loc'[p].runLen = Cardinality(run)
        /\ run # {} => loc'[p].firstSeq \in run /\ \A r \in run : loc'[p].firstSeq <= r
    <3>1. CASE CountRun(p)
      <4>1. Cardinality({}) = 0
        BY FS_EmptySet
      <4> QED BY <1>0, <3>1, <4>1, CountRunSets
    <3>2. CASE ~CountRun(p)
      <4>1. pc[p] \in RunLabels
        BY <1>0, <1>1, <2>2, <3>2, Paths
        DEF RunLabels, ReadRestart, FindSettled, Settle, NoOpenEvent, FindOpenEvent, Raise, At
      <4>2. loc'[p].runLen = loc[p].runLen /\ loc'[p].firstSeq = loc[p].firstSeq
        BY <1>0, <2>2, <2>3, <3>2, Kept
      <4> QED BY <4>1, <4>2 DEF RunInv
    <3> QED BY <3>1, <3>2
  <2> HIDE DEF run
  <2>7. TailRun(loc[p].src, loc[p].seq)' = run
    BY <2>5 DEF run
  <2> QED BY <2>6, <2>7
<1>2. ASSUME pc'[p] \in {"create_event", "raise", "update_run"} PROVE Anomalous(p)'
  <2>1. Correlating(p)'
    BY <1>2 DEF Correlating, Finishing, RunLabels
  <2>2. Acts(p) /\ loc'[p].status = loc[p].status
    BY <2>1, CorrelatingSteps
  <2>3. Anomalous(p)
    BY <1>0, <1>2, <2>2, Paths DEF NoOpenEvent, FindOpenEvent, Raise, At, RunInv
  <2> QED BY <2>2, <2>3 DEF Anomalous
<1>3. pc'[p] = "lastseq" \/ Correlating(p)' =>
        windows'[loc'[p].src][loc'[p].seq].status = loc'[p].status
  BY StatusMatches
<1> QED BY <1>1, <1>2, <1>3 DEF RunInv

LEMMA RunUndisturbed ==
  ASSUME "reevaluate" \notin Ops, IInv, Roles, Reports,
         NEW p \in Procs, NEW r \in Procs, r # p, RunInv(r), Accept(p) \/ Acts(p)
  PROVE  RunInv(r)'
<1>0. Typed
  BY DEF IInv
<1>1. pc'[r] = pc[r] /\ loc'[r] = loc[r]
  BY AloneAndGrowing DEF Moves
<1>2. Correlating(r)' = Correlating(r) /\ Anomalous(r)' = Anomalous(r)
  BY <1>1 DEF Correlating, Finishing, Anomalous
<1>3. CASE pc[r] = "lastseq" \/ Correlating(r)
  <2>1. Inside(r) /\ loc[r].src \in Sources /\ loc[r].seq \in Seqs
    BY <1>3, InsideIngest, CorrelatedWindow DEF UnconfirmedLabels, Recorded
  <2>2. PICK s \in Sources, q \in Seqs : s = loc[r].src /\ q = loc[r].seq
    BY <2>1
  <2>3. windows'[s][q] = windows[s][q]
    <3>1. ~(s = loc[p].src /\ Inside(p))
      BY <2>1, <2>2, OneInside
    <3> QED BY <3>1, WindowSteps
  <2>4. pc[r] \in RunLabels => TailRun(s, q)' = TailRun(s, q)
    <3>1. ASSUME pc[r] \in RunLabels PROVE Settles(s, q)
      <4>1. Correlating(r)
        BY <3>1 DEF Correlating, Finishing
      <4>2. q = sources[s].lastSeq
        BY <2>2, <4>1, CorrelatedWindow
      <4> QED BY <4>2, ConfirmedSettled
    <3> QED BY <3>1, TailSettled
  <2>5. TailRun(s, q)' = TailRun(loc[r].src, loc[r].seq)'
    BY <1>1, <2>2 DEF TailRun, RecentWindows, Recorded
  <2> QED BY <1>1, <1>2, <2>2, <2>3, <2>4, <2>5 DEF RunInv
<1>4. CASE ~(pc[r] = "lastseq" \/ Correlating(r))
  <2>1. pc[r] \notin RunLabels \cup {"create_event", "raise", "update_run"}
    BY <1>4 DEF Correlating, Finishing, RunLabels
  <2> QED BY <1>1, <1>2, <1>4, <2>1 DEF RunInv
<1> QED BY <1>3, <1>4

LEMMA RunsKept ==
  ASSUME "reevaluate" \notin Ops, IInv, Roles, Reports, Runs, [Next]_vars
  PROVE  Runs'
<1>1. ASSUME NEW p \in Procs, Accept(p) \/ Acts(p), NEW r \in Procs PROVE RunInv(r)'
  BY <1>1, RunStep, RunUndisturbed DEF Runs
<1>2. ASSUME NEW r \in Procs, Crash PROVE RunInv(r)'
  <2>1. pc'[r] = "idle"
    BY <1>2 DEF Crash
  <2>2. ~Correlating(r)' /\ pc'[r] \notin RunLabels
    BY <2>1 DEF Correlating, Finishing, RunLabels
  <2> QED BY <2>1, <2>2 DEF RunInv
<1>3. ASSUME NEW r \in Procs, UNCHANGED vars PROVE RunInv(r)'
  <2>1. Correlating(r)' = Correlating(r) /\ Anomalous(r)' = Anomalous(r)
    BY <1>3 DEF vars, Correlating, Finishing, Anomalous
  <2>2. TailRun(loc[r].src, loc[r].seq)' = TailRun(loc[r].src, loc[r].seq)
    BY <1>3 DEF vars, TailRun, RecentWindows, Recorded
  <2>3. RunInv(r)
    BY DEF Runs
  <2> QED BY <1>3, <2>1, <2>2, <2>3 DEF vars, RunInv
<1> QED BY <1>1, <1>2, <1>3 DEF Next, Acts, Runs

LEMMA RunsInvariant ==
  ASSUME "reevaluate" \notin Ops
  PROVE  Spec => []Runs
<1>1. Init => Runs
  <2> SUFFICES ASSUME Init, NEW r \in Procs PROVE RunInv(r)
    BY DEF Runs
  <2>1. pc[r] = "idle"
    BY DEF Init, RequestsInit
  <2>2. ~Correlating(r) /\ pc[r] \notin RunLabels
    BY <2>1 DEF Correlating, Finishing, RunLabels
  <2> QED BY <2>1, <2>2 DEF RunInv
<1>2. IInv /\ Roles /\ Reports /\ Runs /\ [Next]_vars => Runs'
  BY RunsKept
<1> QED BY <1>1, <1>2, IngestInvariant, RolesInvariant, ReportsInvariant, PTL DEF Spec

\* An event never reaches beyond the confirmed number.
EventsConfirmed ==
  \A s \in Sources : \A i \in DOMAIN events[s] : events[s][i].lastSeq <= sources[s].lastSeq

LEMMA LastSeqGrows ==
  ASSUME IInv, NEW p \in Procs, Accept(p) \/ Acts(p), NEW s \in Sources
  PROVE  sources'[s].lastSeq \in Int /\ sources[s].lastSeq <= sources'[s].lastSeq
<1>0. Typed /\ sources[s].lastSeq \in Int
  BY TablesTyped DEF IInv, SourceRow
<1>1. CASE Accept(p)
  BY <1>0, <1>1, Accepted DEF tables
<1>2. CASE Acts(p)
  <2>1. CASE StoreLastSeq(p) /\ s = loc[p].src
    <3>1. loc[p].seq \in Int
      BY <2>1, InsideIngest DEF StoreLastSeq, At, UnconfirmedLabels, Seqs
    <3> QED BY <1>0, <2>1, <3>1, StoreLastSeqMoves
  <2> QED BY <1>0, <1>2, <2>1, SourceSteps
<1> QED BY <1>1, <1>2

\* What a statement that writes the run of an event writes.
LEMMA RunWritten ==
  ASSUME IInv, Reports, Runs, NEW p \in Procs, CreateEvent(p) \/ ExtendRun(p)
  PROVE  LET s == loc[p].src
             interval == Interval(s, loc[p].firstSeq, loc[p].seq)
         IN  /\ s \in Sources /\ loc[p].seq = sources[s].lastSeq
             /\ loc[p].runLen = Cardinality(interval)
             /\ {loc[p].firstSeq, loc[p].seq} \subseteq interval
             /\ \A q \in interval : windows[s][q].status # "valid"
             /\ windows[s][loc[p].seq].status # "new"
<1>1. pc[p] \in {"create_event", "update_run"}
  BY DEF CreateEvent, ExtendRun, At
<1>2. pc[p] \in RunLabels /\ Correlating(p)
  BY <1>1 DEF RunLabels, Correlating, Finishing
<1>3. PICK s \in Sources : s = loc[p].src
  BY <1>2, CorrelatedWindow
<1>4. PICK q \in Recorded(s) : q = loc[p].seq
  BY <1>2, <1>3, CorrelatedWindow
<1>5. q = sources[s].lastSeq
  BY <1>2, <1>3, <1>4, CorrelatedWindow
<1>6. RunInv(p)
  BY DEF Runs
<1>7. Anomalous(p) /\ windows[s][q].status = loc[p].status
  BY <1>1, <1>2, <1>3, <1>4, <1>6 DEF RunInv
<1>8. windows[s][q].status # "valid"
  BY <1>7 DEF Anomalous
<1>9. /\ q \in TailRun(s, q)
      /\ \A first \in TailRun(s, q) :
           (\A r \in TailRun(s, q) : first <= r) =>
             /\ TailRun(s, q) = Interval(s, first, q)
             /\ \A r \in Interval(s, first, q) : windows[s][r].status # "valid"
  BY <1>8, TailIsInterval
<1>10. /\ loc[p].runLen = Cardinality(TailRun(s, q))
       /\ loc[p].firstSeq \in TailRun(s, q) /\ \A r \in TailRun(s, q) : loc[p].firstSeq <= r
  BY <1>2, <1>3, <1>4, <1>6, <1>9 DEF RunInv
<1>11. windows[s][q].status # "new"
  <2>1. sources[s].lastSeq # 0
    BY <1>5 DEF Recorded, Seqs
  <2> QED BY <1>5, <2>1 DEF IInv, ConfirmedSeqEvaluated
<1> QED BY <1>3, <1>4, <1>5, <1>9, <1>10, <1>11

\* RunEvidence, save that it does not tell which windows are left unevaluated: for that
\* RefinementProofs has to know who works on a window (Frontier).
EvidenceBacked ==
  \A s \in Sources : \A i \in DOMAIN events[s] :
    LET ev == events[s][i] IN
      /\ ev.windowCount = Cardinality(Evidence(s, ev))
      /\ {ev.firstSeq, ev.lastSeq} \subseteq Evidence(s, ev)
      /\ \A q \in Evidence(s, ev) : windows[s][q].status # "valid"
      /\ windows[s][ev.lastSeq].status # "new"

LEMMA EvidenceStep ==
  ASSUME "reevaluate" \notin Ops, IInv, Roles, RowsNamed, Reports, Runs, EventsConfirmed,
         EvidenceBacked, NEW p \in Procs, Accept(p) \/ Acts(p)
  PROVE  EventsConfirmed' /\ EvidenceBacked'
<1>0. Typed
  BY DEF IInv
<1> SUFFICES ASSUME NEW s \in Sources, NEW i \in DOMAIN events'[s]
             PROVE  LET ev == events'[s][i]
                        evidence == {q \in Recorded(s)' : ev.firstSeq <= q /\ q <= ev.lastSeq}
                    IN  /\ ev.windowCount = Cardinality(evidence)
                        /\ {ev.firstSeq, ev.lastSeq} \subseteq evidence
                        /\ \A q \in evidence : windows'[s][q].status # "valid"
                        /\ windows'[s][ev.lastSeq].status # "new"
                        /\ ev.lastSeq <= sources'[s].lastSeq
  BY DEF EventsConfirmed, EvidenceBacked, Evidence
<1>1. PICK first, last, n :
        /\ first = events'[s][i].firstSeq /\ last = events'[s][i].lastSeq
        /\ n = events'[s][i].windowCount
  OBVIOUS
<1>2. /\ n = Cardinality(Interval(s, first, last))
      /\ {first, last} \subseteq Interval(s, first, last)
      /\ \A q \in Interval(s, first, last) : windows[s][q].status # "valid"
      /\ windows[s][last].status # "new"
      /\ last <= sources[s].lastSeq
  <2>1. CASE i \in DOMAIN events[s] /\ events'[s][i].firstSeq = events[s][i].firstSeq
             /\ events'[s][i].lastSeq = events[s][i].lastSeq
             /\ events'[s][i].windowCount = events[s][i].windowCount
    <3>1. Evidence(s, events[s][i]) = Interval(s, first, last)
      BY <1>1, <2>1 DEF Evidence, Interval
    <3> QED BY <1>1, <2>1, <3>1 DEF EvidenceBacked, EventsConfirmed
  <2>2. CASE Acts(p) /\ RunOf(p, s, i) /\ s = loc[p].src /\ (CreateEvent(p) \/ ExtendRun(p))
    <3>1. first = loc[p].firstSeq /\ last = loc[p].seq /\ n = loc[p].runLen
      BY <1>1, <2>2 DEF RunOf
    <3>2. sources[s].lastSeq \in Int
      BY <1>0, TablesTyped DEF SourceRow
    <3> QED BY <2>2, <3>1, <3>2, RunWritten
  <2>3. CASE Accept(p)
    BY <1>0, <2>1, <2>3, Accepted DEF tables
  <2>4. CASE Acts(p)
    <3>1. i \in DOMAIN events[s] \/ (CreateEvent(p) /\ s = loc[p].src /\ RunOf(p, s, i))
      BY <1>0, <2>4, EventSteps
    <3>2. i \in DOMAIN events[s] =>
            SameRun(s, i) \/ (ExtendRun(p) /\ s = loc[p].src /\ RunOf(p, s, i))
      BY <1>0, <2>4, EventSteps
    <3> QED BY <2>1, <2>2, <2>4, <3>1, <3>2 DEF SameRun
  <2> QED BY <2>3, <2>4
<1>3. /\ last \in Seqs /\ last <= sources[s].lastSeq
      /\ sources[s].lastSeq \in Int /\ sources'[s].lastSeq \in Int
      /\ sources[s].lastSeq <= sources'[s].lastSeq
  <2> QED BY <1>0, <1>2, TablesTyped, LastSeqGrows DEF Interval, Recorded, SourceRow
<1>4. \A q \in Seqs : q <= last => windows'[s][q] = windows[s][q]
  <2>1. last \in Int
    BY <1>3 DEF Seqs
  <2>2. ASSUME NEW q \in Seqs, q <= last PROVE q <= sources[s].lastSeq
    <3>1. q \in Int
      BY DEF Seqs
    <3> QED BY <1>3, <2>1, <2>2, <3>1
  <2> QED BY <2>2, ConfirmedSettled DEF Settles
<1>5. {q \in Recorded(s)' : first <= q /\ q <= last} = Interval(s, first, last)
  BY <1>4 DEF Interval, Recorded
<1>6. \A q \in Interval(s, first, last) : windows'[s][q].status # "valid"
  BY <1>2, <1>4 DEF Interval, Recorded
<1>7. last <= sources'[s].lastSeq /\ last <= last
  BY <1>3 DEF Seqs
<1>8. windows'[s][last].status # "new"
  BY <1>2, <1>3, <1>4, <1>7
<1> QED BY <1>1, <1>2, <1>5, <1>6, <1>7, <1>8

LEMMA EvidenceInvariant ==
  ASSUME "reevaluate" \notin Ops
  PROVE  Spec => [](EventsConfirmed /\ EvidenceBacked)
<1> DEFINE Inv == EventsConfirmed /\ EvidenceBacked
<1>1. Init => Inv
  BY DEF Init, DatabaseInit, EventsConfirmed, EvidenceBacked
<1>2. ASSUME IInv, Roles, RowsNamed, Reports, Runs, Inv, [Next]_vars PROVE Inv'
  <2>1. ASSUME NEW p \in Procs, Accept(p) \/ Acts(p) PROVE Inv'
    BY <1>2, <2>1, EvidenceStep
  <2>2. CASE UNCHANGED tables
    <3>1. sources' = sources /\ windows' = windows /\ events' = events
      BY <2>2 DEF tables
    <3>2. EventsConfirmed'
      BY <1>2, <3>1 DEF EventsConfirmed
    <3>3. \A s \in Sources : \A i \in DOMAIN events[s] :
            Evidence(s, events[s][i])' = Evidence(s, events[s][i])
      BY <3>1 DEF Evidence, Recorded
    <3>4. EvidenceBacked'
      BY <1>2, <3>1, <3>3 DEF EvidenceBacked
    <3> QED BY <3>2, <3>4
  <2>3. CASE Crash \/ UNCHANGED vars
    BY <2>2, <2>3 DEF Crash, vars, tables
  <2> QED BY <1>2, <2>1, <2>3 DEF Next, Acts
<1> HIDE DEF Inv
<1>3. Spec => []Inv
  BY <1>1, <1>2, IngestInvariant, RolesInvariant, EventRowsExist, ReportsInvariant,
     RunsInvariant, PTL DEF Spec
<1> QED BY <1>3 DEF Inv

-----------------------------------------------------------------------------
(* A source that has left "enabled" and "observing" is brought back only   *)
(* by a recovery, and by the Ingest that has read it as "enabled".         *)

Past(s) == sources[s].state \in {"degraded", "isolated", "sealed"}

DegradeInv(p) ==
  /\ (pc[p] \in UnconfirmedLabels \/ Correlating(p)) /\ loc[p].seen \notin {"enabled", "observing"}
       => Past(loc[p].src)
  /\ pc[p] \in {"observe", "observe_set"} => loc[p].seen = "enabled"
  /\ At(p, "done") /\ loc[p].reply = "ok" /\ Degrading(loc[p].src, loc[p].seq)
       => Past(loc[p].src)

LEMMA PastStays ==
  ASSUME "recover" \notin Ops, IInv, Roles, NEW p \in Procs, Accept(p) \/ Acts(p),
         NEW s \in Sources, Past(s), s # loc[p].src \/ ~SetObserving(p)
  PROVE  Past(s)'
<1>1. Typed /\ ~SetRecovered(p)
  BY DEF IInv, Roles, Role, SetRecovered, WriteState, At
<1>2. CASE Accept(p)
  BY <1>1, <1>2, Accepted DEF tables, Past
<1>3. CASE Acts(p)
  BY <1>1, <1>3, SourceSteps DEF Past
<1> QED BY <1>2, <1>3

LEMMA PastStep ==
  ASSUME "recover" \notin Ops, IInv, Roles, NEW p \in Procs, DegradeInv(p), Accept(p) \/ Acts(p),
         pc'[p] \in UnconfirmedLabels \/ Correlating(p)',
         loc'[p].seen \notin {"enabled", "observing"}
  PROVE  Past(loc[p].src)'
<1>0. Typed
  BY DEF IInv
<1>1. CASE pc'[p] \in UnconfirmedLabels /\ Admit(p)
  <2>1. loc[p].src \in Sources /\ loc[p] \in Local /\ pc'[p] # "idle" /\ Acts(p)
    BY <1>1, InsideIngest DEF Admit, At, UnconfirmedLabels, Acts, Step, IngestStep
  <2>2. loc'[p].src = loc[p].src /\ loc'[p].seen = sources[loc[p].src].state /\ UNCHANGED sources
    BY <1>0, <1>1, <2>1, AdmitSets, SameRequest DEF Admit, tables
  <2>3. sources[loc[p].src].state # "absent"
    <3>1. loc[p].seq \in 0..MaxSeq
      BY <2>1 DEF Local
    <3> QED BY <1>1, <3>1, VerdictAdmits DEF Admit
  <2>4. sources[loc[p].src] \in SourceRow
    BY <1>0, <2>1, TablesTyped
  <2> QED BY <2>2, <2>3, <2>4 DEF Past, SourceRow, SourceStates
<1>2. CASE pc'[p] \in UnconfirmedLabels /\ ~Admit(p)
  <2>1. Acts(p) /\ pc'[p] \notin {"idle", "lock"}
    BY <1>0, <1>2, Accepted DEF Starts, UnconfirmedLabels
  <2>2. CreateWindow(p) \/ StoreTest(p) \/ StoreStatus(p)
    BY <1>0, <1>2, <2>1, Paths DEF UnconfirmedLabels
  <2>3. pc[p] \in UnconfirmedLabels /\ ~SetObserving(p)
    BY <2>2
    DEF CreateWindow, StoreTest, StoreStatus, SetObserving, WriteState, At, UnconfirmedLabels
  <2>4. loc'[p].src = loc[p].src /\ loc'[p].seen = loc[p].seen
    BY <1>0, <1>2, <2>1, Kept
  <2>5. loc[p].src \in Sources
    BY <2>3, InsideIngest
  <2>6. Past(loc[p].src)
    BY <2>3, <2>4 DEF DegradeInv
  <2> QED BY <2>3, <2>4, <2>5, <2>6, PastStays DEF Past
<1>3. CASE Correlating(p)'
  <2>1. /\ Acts(p) /\ loc'[p].src = loc[p].src /\ loc'[p].seen = loc[p].seen
        /\ StoreLastSeq(p) \/ Correlating(p)
    BY <1>3, CorrelatingSteps
  <2>2. Past(loc[p].src) /\ ~SetObserving(p)
    BY <2>1 DEF DegradeInv, StoreLastSeq, SetObserving, WriteState, At, UnconfirmedLabels
  <2>3. loc[p].src \in Sources
    BY <1>0, <2>1, Busy, LocalTyped DEF LocalsFit
  <2> QED BY <2>1, <2>2, <2>3, PastStays DEF Past
<1> QED BY <1>1, <1>2, <1>3

LEMMA ObservingStep ==
  ASSUME IInv, NEW p \in Procs, DegradeInv(p), Accept(p) \/ Acts(p),
         pc'[p] \in {"observe", "observe_set"}
  PROVE  loc'[p].seen = "enabled"
<1>1. Typed /\ Acts(p)
  BY Accepted DEF IInv, Starts
<1>2. StoreLastSeq(p) \/ Observe(p)
  BY <1>1, Paths
<1>3. loc[p].seen = "enabled" /\ ~Admit(p)
  <2>1. CASE StoreLastSeq(p)
    <3>1. loc[p].seen # "enabled" => Goto(p, "recent")
      BY <2>1 DEF StoreLastSeq
    <3> QED BY <1>1, <2>1, <3>1, GoesTo DEF StoreLastSeq, Admit, At
  <2>2. CASE Observe(p)
    BY <2>2 DEF Observe, Admit, At, DegradeInv
  <2> QED BY <1>2, <2>1, <2>2
<1> QED BY <1>1, <1>3, Kept

LEMMA SuccessStep ==
  ASSUME "reevaluate" \notin Ops, IInv, Roles, Reports, Runs, NEW p \in Procs, DegradeInv(p),
         Accept(p) \/ Acts(p), pc'[p] = "done", loc'[p].reply = "ok",
         Degrading(loc[p].src, loc[p].seq)'
  PROVE  Past(loc[p].src)'
<1>1. Correlating(p)'
  BY DEF Correlating, Finishing
<1>2. /\ Acts(p) /\ loc'[p].src = loc[p].src /\ loc'[p].seq = loc[p].seq
      /\ StoreLastSeq(p) \/ Correlating(p)
  BY <1>1, CorrelatingSteps
<1>3. Typed
  BY DEF IInv
<1>4. /\ loc[p].op = "ingest"
      /\ NothingToSettle(p) \/ SettleClose(p) \/ CreateEvent(p) \/ ExtendRun(p) \/ SetDegraded(p)
  BY <1>2, Success
<1>5. Correlating(p)
  BY <1>2, <1>4
  DEF StoreLastSeq, NothingToSettle, SettleClose, CreateEvent, ExtendRun, SetDegraded, WriteState, At
<1>6. PICK s \in Sources : s = loc[p].src
  BY <1>5, CorrelatedWindow
<1>7. PICK q \in Recorded(s) : q = loc[p].seq /\ q = sources[s].lastSeq
  BY <1>5, <1>6, CorrelatedWindow
<1>8. Degrading(s, q)
  <2>1. Degrading(s, q)'
    BY <1>2, <1>6, <1>7 DEF Degrading, RecentWindows, Recorded
  <2>2. Settles(s, q) /\ q \in Seqs
    BY <1>7, ConfirmedSettled DEF Recorded
  <2> QED BY <2>1, <2>2, TailSettled
<1>9. Anomalous(p) /\ Cardinality(TailRun(s, q)) >= PersistentThreshold
  BY <1>5, <1>6, <1>7, <1>8, DegradingRun DEF Runs, RunInv, Anomalous
<1>10. ~NothingToSettle(p) /\ ~SettleClose(p)
  BY <1>9 DEF NothingToSettle, SettleClose, At, Reports, ReportInv
<1>11. Past(s)'
  <2>1. CASE CreateEvent(p) \/ ExtendRun(p)
    <3>1. pc[p] \in RunLabels /\ Correlated(p) /\ UNCHANGED sources
      BY <2>1 DEF CreateEvent, ExtendRun, At, RunLabels, notEvents
    <3>2. Persistent(p)
      BY <1>6, <1>7, <1>9, <3>1 DEF Runs, RunInv, Persistent
    <3>3. ~ShouldDegrade(p)
      BY <1>3, <3>1, GoesTo DEF Correlated
    <3>4. Past(s)
      BY <1>5, <1>6, <3>2, <3>3 DEF ShouldDegrade, DegradeInv
    <3> QED BY <3>1, <3>4 DEF Past
  <2>2. CASE SetDegraded(p)
    BY <1>3, <1>6, <2>2, StateWritten DEF SetDegraded, WriteState, Past
  <2> QED BY <1>4, <1>10, <2>1, <2>2
<1> QED BY <1>2, <1>6, <1>11 DEF Past

LEMMA DegradeUndisturbed ==
  ASSUME "recover" \notin Ops, "reevaluate" \notin Ops, IInv, Roles, Reports,
         NEW p \in Procs, NEW r \in Procs, r # p, DegradeInv(r), Accept(p) \/ Acts(p)
  PROVE  DegradeInv(r)'
<1>0. Typed
  BY DEF IInv
<1>1. pc'[r] = pc[r] /\ loc'[r] = loc[r]
  BY AloneAndGrowing DEF Moves
<1>2. Correlating(r)' = Correlating(r)
  BY <1>1 DEF Correlating, Finishing
<1>3. CASE pc[r] \in UnconfirmedLabels \/ Correlating(r)
  <2>1. Inside(r) /\ loc[r].src \in Sources
    BY <1>3, InsideIngest, CorrelatedWindow
  <2>2. PICK s \in Sources : s = loc[r].src
    BY <2>1
  <2>3. s # loc[p].src \/ ~SetObserving(p)
    <3>1. SetObserving(p) => Inside(p)
      BY <1>0, FinishingInside DEF SetObserving, WriteState, At, CorrelatedLabels
    <3> QED BY <2>1, <2>2, <3>1, OneInside
  <2>4. Past(s) => Past(s)'
    BY <2>3, PastStays
  <2>5. ASSUME At(r, "done"), loc[r].reply = "ok"
        PROVE  Degrading(loc[r].src, loc[r].seq)' => Degrading(loc[r].src, loc[r].seq)
    <3>1. Correlating(r)
      BY <2>5 DEF Correlating, Finishing, At
    <3>2. PICK q \in Seqs : q = loc[r].seq /\ q = sources[s].lastSeq
      BY <2>2, <3>1, CorrelatedWindow DEF Recorded
    <3>3. Degrading(s, q)' => Degrading(s, q)
      BY <3>2, ConfirmedSettled, TailSettled
    <3>4. Degrading(loc[r].src, loc[r].seq)' => Degrading(s, q)'
      BY <1>1, <2>2, <3>2 DEF Degrading, RecentWindows, Recorded
    <3> QED BY <2>2, <3>2, <3>3, <3>4
  <2>6. Past(loc[r].src)' = Past(s)'
    BY <1>1, <2>2 DEF Past
  <2> QED BY <1>1, <1>2, <2>2, <2>4, <2>5, <2>6 DEF DegradeInv, At
<1>4. CASE ~(pc[r] \in UnconfirmedLabels \/ Correlating(r))
  <2>1. pc[r] \notin {"observe", "observe_set"} /\ ~(pc[r] = "done" /\ loc[r].reply = "ok")
    BY <1>4 DEF Correlating, Finishing
  <2> QED BY <1>1, <1>2, <1>4, <2>1 DEF DegradeInv, At
<1> QED BY <1>3, <1>4

\* As long as nothing is recovered or re-evaluated, a source whose last
\* PersistentThreshold windows are anomalous is neither "enabled" nor "observing" when
\* Ingest answers with success, whoever changed its state and whatever died before.
THEOREM PersistentAnomalyDegrades ==
  ASSUME "recover" \notin Ops, "reevaluate" \notin Ops
  PROVE  Spec => []PersistentDegrades
<1> DEFINE Inv == \A p \in Procs : DegradeInv(p)
<1>1. Init => Inv
  <2> SUFFICES ASSUME Init, NEW r \in Procs PROVE DegradeInv(r)
    OBVIOUS
  <2>1. pc[r] = "idle"
    BY DEF Init, RequestsInit
  <2>2. ~Correlating(r) /\ pc[r] \notin UnconfirmedLabels
    BY <2>1 DEF Correlating, Finishing, RunLabels, UnconfirmedLabels
  <2> QED BY <2>1, <2>2 DEF DegradeInv, At
<1>2. ASSUME IInv, Roles, Reports, Runs, Inv, [Next]_vars PROVE Inv'
  <2>1. ASSUME NEW p \in Procs, Accept(p) \/ Acts(p), NEW r \in Procs PROVE DegradeInv(r)'
    <3>1. CASE r = p
      <4>1. DegradeInv(p)
        BY <1>2
      <4>2. loc'[p].src = loc[p].src \/ ~(pc'[p] \in UnconfirmedLabels \/ Correlating(p)')
        <5>1. CASE Correlating(p)'
          BY <1>2, <2>1, <5>1, CorrelatingSteps
        <5>2. CASE pc'[p] \in UnconfirmedLabels
          <6>1. Typed /\ Acts(p)
            BY <1>2, <2>1, <5>2, Accepted DEF IInv, Starts, UnconfirmedLabels
          <6> QED BY <5>2, <6>1, SameRequest DEF UnconfirmedLabels
        <5> QED BY <5>1, <5>2
      <4> QED
        BY <1>2, <2>1, <3>1, <4>1, <4>2, PastStep, ObservingStep, SuccessStep DEF DegradeInv, At
    <3>2. CASE r # p
      BY <1>2, <2>1, <3>2, DegradeUndisturbed
    <3> QED BY <3>1, <3>2
  <2>2. ASSUME NEW r \in Procs, Crash PROVE DegradeInv(r)'
    <3>1. pc'[r] = "idle"
      BY <2>2 DEF Crash
    <3>2. ~Correlating(r)' /\ pc'[r] \notin UnconfirmedLabels
      BY <3>1 DEF Correlating, Finishing, RunLabels, UnconfirmedLabels
    <3> QED BY <3>1, <3>2 DEF DegradeInv, At
  <2>3. ASSUME NEW r \in Procs, UNCHANGED vars PROVE DegradeInv(r)'
    <3>1. Correlating(r)' = Correlating(r)
      BY <2>3 DEF vars, Correlating, Finishing
    <3>2. Degrading(loc[r].src, loc[r].seq)' = Degrading(loc[r].src, loc[r].seq)
      BY <2>3 DEF vars, Degrading, RecentWindows, Recorded
    <3>3. DegradeInv(r)
      BY <1>2
    <3> QED BY <2>3, <3>1, <3>2, <3>3 DEF vars, DegradeInv, Past, At
  <2> QED BY <1>2, <2>1, <2>2, <2>3 DEF Next, Acts
<1>3. Inv => PersistentDegrades
  BY DEF DegradeInv, Past, PersistentDegrades
<1> HIDE DEF Inv
<1> QED
  BY <1>1, <1>2, <1>3, IngestInvariant, RolesInvariant, ReportsInvariant, RunsInvariant,
     PTL DEF Spec
=============================================================================
