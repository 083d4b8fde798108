-------------------------- MODULE RefinementProofs --------------------------
(***************************************************************************)
(* Ingest while no statement fails and the process does not die: every     *)
(* window left behind is finished, the evidence of an event is all         *)
(* anomalous, every replay is flagged, and all of it together behaves like *)
(* Tracker.                                                                *)
(***************************************************************************)
EXTENDS Refinement, LifecycleProofs

\* Which statement a request inside Ingest runs at each label.
LEMMA Statement ==
  ASSUME Typed, NEW p \in Procs, Step(p)
  PROVE  /\ pc[p] = "lock"         => Acquire(p)
         /\ pc[p] = "get"          => Refuse(p) \/ Admit(p)
         /\ pc[p] = "create"       => CreateWindow(p) \/ CreateConflict(p)
         /\ pc[p] = "evaluate"     => StoreTest(p)
         /\ pc[p] = "status"       => StoreStatus(p)
         /\ pc[p] = "lastseq"      => StoreLastSeq(p)
         /\ pc[p] = "observe"      => Observe(p)
         /\ pc[p] = "observe_set"  => SetObserving(p)
         /\ pc[p] = "recent"       => CountRun(p)
         /\ pc[p] = "restart"      => ReadRestart(p)
         /\ pc[p] = "open"         => \/ NothingToSettle(p) \/ FindSettled(p)
                                      \/ NoOpenEvent(p) \/ FindOpenEvent(p)
         /\ pc[p] = "settle"       => Settle(p)
         /\ pc[p] = "settle_close" => SettleClose(p)
         /\ pc[p] = "create_event" => CreateEvent(p)
         /\ pc[p] = "raise"        => Raise(p)
         /\ pc[p] = "update_run"   => ExtendRun(p)
         /\ pc[p] = "degrade"      => AutoDegrade(p) \/ AutoDegradeRefused(p)
         /\ pc[p] = "set_degraded" => SetDegraded(p)
         /\ pc[p] = "done"         => Return(p)
<1> USE DEF At
<1>1. CASE IsolateStep(p)
  BY <1>1
  DEF IsolateStep, SetDegraded, SetIsolated, SetSealed, ReadBaseline, SetRecovered,
      SetBaseline, Observe, SetObserving, AutoDegrade, AutoDegradeRefused, WriteState
<1>2. CASE CorrelatorStep(p)
  BY <1>2
  DEF CorrelatorStep, CountRun, ReadRestart, NothingToSettle, FindSettled, Settle,
      SettleClose, NoOpenEvent, FindOpenEvent, CreateEvent, Raise, ExtendRun
<1>3. CASE IngestStep(p)
  BY <1>3
  DEF IngestStep, Acquire, Refuse, Admit, CreateWindow, CreateConflict, StoreTest,
      StoreStatus, StoreLastSeq, Return
<1>4. CASE ServiceStep(p)
  BY <1>4
  DEF ServiceStep, InsertedSource, DuplicateSource, InsertedRestart, SetConfirmed,
      SetClosed, SetReevaluated
<1>5. CASE SnapshotStep(p) \/ ViewStep(p)
  BY <1>5
  DEF SnapshotStep, ReadVersion, SnapshotOfNothing, ReadSource, ReadWindows, ReadTests,
      ReadEvents, InsertDraft, SetPublished, SetSuperseded, ViewStep, CountRestarts
<1> QED BY <1>1, <1>2, <1>3, <1>4, <1>5 DEF Step

-----------------------------------------------------------------------------
(* The frontier: a window that is not confirmed, not judged or not yet     *)
(* observed is the one a request inside Ingest is working on.              *)

Faultless == Faults = {}

On(p, s, q, labels) == pc[p] \in labels /\ loc[p].src = s /\ loc[p].seq = q

Frontier ==
  \A s \in Sources : \A q \in Recorded(s) :
    /\ sources[s].state # "absent"
    /\ q > sources[s].lastSeq => \E p \in Procs : On(p, s, q, {"evaluate", "status", "lastseq"})
    /\ windows[s][q].status = "new" => \E p \in Procs : On(p, s, q, {"evaluate", "status"})
    /\ sources[s].state = "enabled" =>
         \E p \in Procs : /\ pc[p] \in {"evaluate", "status", "lastseq", "observe", "observe_set"}
                          /\ loc[p].src = s
                          /\ loc[p].seen = "enabled"

\* The request that works on a window goes on with it, statement by statement.
LEMMA WorkGoesOn ==
  ASSUME Faultless, IInv, NEW p \in Procs, Accept(p) \/ Acts(p), NEW r \in Procs,
         pc[r] \in {"evaluate", "status", "lastseq", "observe", "observe_set"}
  PROVE  /\ loc'[r].src = loc[r].src /\ loc'[r].seq = loc[r].seq /\ loc'[r].seen = loc[r].seen
         /\ loc[r].src \in Sources
         /\ \/ pc'[r] = pc[r]
            \/ pc[r] = "evaluate" /\ pc'[r] = "status"
            \/ /\ pc[r] = "status" /\ pc'[r] = "lastseq"
               /\ windows'[loc[r].src][loc[r].seq].status \in FinalStatuses
            \/ /\ pc[r] = "lastseq" /\ sources'[loc[r].src].lastSeq = loc[r].seq
               /\ loc[r].seen = "enabled" => pc'[r] = "observe"
            \/ pc[r] = "observe" /\ sources[loc[r].src].state # "enabled"
            \/ pc[r] = "observe" /\ pc'[r] = "observe_set"
            \/ pc[r] = "observe_set" /\ sources'[loc[r].src].state = "observing"
<1>0. Typed /\ loc[r].src \in Sources
  BY LocalTyped DEF IInv, LocalsFit
<1>1. CASE r # p
  BY <1>0, <1>1, AloneAndGrowing DEF Moves
<1>2. CASE r = p
  <2>1. Step(p) /\ Acts(p)
    BY <1>0, <1>2, Accepted DEF Faultless, Acts, Fail
  <2>2. CASE StoreTest(p)
    <3>1. pc[p] = "evaluate" /\ pc'[p] \in {"evaluate", "status"}
      BY <1>0, <2>2, StoreTestSets DEF StoreTest, At
    <3>2. loc'[p].src = loc[p].src /\ loc'[p].seq = loc[p].seq /\ loc'[p].seen = loc[p].seen
      BY <1>0, <2>1, <2>2, <3>1, Kept DEF Admit, At
    <3> QED BY <1>0, <1>2, <3>1, <3>2
  <2>3. CASE StoreStatus(p)
    <3>1. pc[p] = "status" /\ pc'[p] = "lastseq"
      BY <1>0, <2>3, GoesTo DEF StoreStatus, At
    <3>2. loc'[p].src = loc[p].src /\ loc'[p].seq = loc[p].seq /\ loc'[p].seen = loc[p].seen
      BY <1>0, <2>1, <3>1, Kept DEF Admit, At
    <3>3. loc[p].seq \in Seqs /\ loc[p].sample \in Samples /\ loc[p] \in Local
      BY <3>1, InsideIngest DEF UnconfirmedLabels
    <3>4. ResolvedStatus(loc[p].replay, loc[p].sample) \in FinalStatuses
      BY <3>3, ResolvedTyped DEF Local
    <3>5. windows'[loc[p].src][loc[p].seq].status \in FinalStatuses
      BY <1>0, <1>2, <2>3, <3>3, <3>4, StoreStatusSets, StatusWritten
    <3> QED BY <1>0, <1>2, <3>1, <3>2, <3>5
  <2>4. CASE StoreLastSeq(p)
    <3>1. pc[p] = "lastseq" /\ pc'[p] = IF loc[p].seen = "enabled" THEN "observe" ELSE "recent"
      BY <1>0, <2>4, GoesTo DEF StoreLastSeq, At
    <3>2. sources'[loc[p].src].lastSeq = loc[p].seq /\ loc'[p] = loc[p]
      BY <1>0, <1>2, <2>4, LastSeqWritten DEF StoreLastSeq
    <3> QED BY <1>0, <1>2, <3>1, <3>2
  <2>5. CASE Observe(p)
    <3>1. pc[p] = "observe" /\ (sources[loc[p].src].state # "enabled" \/ pc'[p] = "observe_set")
      BY <1>0, <2>5, GoesTo DEF Observe, At
    <3> QED BY <1>0, <1>2, <2>5, <3>1 DEF Observe
  <2>6. CASE SetObserving(p)
    <3>1. pc[p] = "observe_set" /\ sources'[loc[p].src].state = "observing" /\ loc'[p] = loc[p]
      BY <1>0, <1>2, <2>6, StateWritten DEF SetObserving, WriteState, At
    <3> QED BY <1>0, <1>2, <3>1
  <2> QED BY <1>0, <1>2, <2>1, <2>2, <2>3, <2>4, <2>5, <2>6, Statement
<1> QED BY <1>1, <1>2

LEMMA FrontierStep ==
  ASSUME Faultless, IInv, \A r \in Procs : SeenInv(r) /\ SeenInv(r)' /\ Reevaluating(r), Frontier,
         NEW p \in Procs, Accept(p) \/ Acts(p)
  PROVE  Frontier'
<1>0. Typed /\ Grows
  BY AloneAndGrowing DEF IInv
<1> SUFFICES ASSUME NEW s \in Sources, NEW q \in Seqs, windows'[s][q].status # "none"
             PROVE  /\ sources'[s].state # "absent"
                    /\ q > sources'[s].lastSeq =>
                         \E r \in Procs : On(r, s, q, {"evaluate", "status", "lastseq"})'
                    /\ windows'[s][q].status = "new" =>
                         \E r \in Procs : On(r, s, q, {"evaluate", "status"})'
                    /\ sources'[s].state = "enabled" =>
                         \E r \in Procs :
                           /\ pc'[r] \in {"evaluate", "status", "lastseq", "observe", "observe_set"}
                           /\ loc'[r].src = s
                           /\ loc'[r].seen = "enabled"
  BY DEF Frontier, Recorded
<1>1. CASE windows[s][q].status # "none"
  <2>1. q \in Recorded(s) /\ sources[s].state # "absent"
    BY <1>1 DEF Recorded, Frontier
  <2>2. ASSUME q > sources'[s].lastSeq
        PROVE  \E r \in Procs : On(r, s, q, {"evaluate", "status", "lastseq"})'
    <3>1. sources[s].lastSeq \in Int /\ sources'[s].lastSeq \in Int /\ sources[s].lastSeq <= sources'[s].lastSeq
      BY <1>0, LastSeqGrows, TablesTyped DEF SourceRow
    <3>2. PICK r \in Procs : On(r, s, q, {"evaluate", "status", "lastseq"})
      BY <2>1, <2>2, <3>1 DEF Frontier, Seqs
    <3>3. On(r, s, q, {"evaluate", "status", "lastseq"})'
      BY <2>2, <3>1, <3>2, WorkGoesOn DEF On, Seqs
    <3> QED BY <3>3
  <2>3. ASSUME windows'[s][q].status = "new"
        PROVE  \E r \in Procs : On(r, s, q, {"evaluate", "status"})'
    <3>1. windows[s][q].status = "new"
      <4>1. windows[s][q].status \in WindowStatuses
        BY <1>0, <1>1, TablesTyped DEF WindowRow
      <4> QED BY <1>0, <2>3, <4>1 DEF Grows, FinalStatuses
    <3>2. PICK r \in Procs : On(r, s, q, {"evaluate", "status"})
      BY <2>1, <3>1 DEF Frontier
    <3>3. On(r, s, q, {"evaluate", "status"})'
      BY <2>3, <3>2, WorkGoesOn DEF On, FinalStatuses
    <3> QED BY <3>3
  <2>4. ASSUME sources'[s].state = "enabled"
        PROVE  \E r \in Procs :
                 /\ pc'[r] \in {"evaluate", "status", "lastseq", "observe", "observe_set"}
                 /\ loc'[r].src = s
                 /\ loc'[r].seen = "enabled"
    <3>1. sources[s].state = "enabled"
      BY <1>0, <2>1, <2>4, Accepted, SourceSteps DEF tables
    <3>2. PICK r \in Procs :
            /\ pc[r] \in {"evaluate", "status", "lastseq", "observe", "observe_set"}
            /\ loc[r].src = s
            /\ loc[r].seen = "enabled"
      BY <2>1, <3>1 DEF Frontier
    <3>3. pc'[r] \in {"evaluate", "status", "lastseq", "observe", "observe_set"}
      BY <2>4, <3>1, <3>2, WorkGoesOn
    <3> QED BY <3>2, <3>3, WorkGoesOn
  <2> QED BY <1>0, <2>1, <2>2, <2>3, <2>4 DEF Grows
<1>2. CASE windows[s][q].status = "none"
  <2>1. CreateWindow(p) /\ Acts(p) /\ s = loc[p].src /\ q = loc[p].seq
    BY <1>2, WindowAdded
  <2>2. pc'[p] = "evaluate" /\ loc'[p].src = s /\ loc'[p].seq = q
    BY <1>0, <2>1, GoesTo, Kept DEF CreateWindow
  <2>3. sources'[s].state # "absent"
    BY <1>0, <2>1 DEF IInv, Ahead, CreateWindow, At, UnconfirmedLabels, Grows
  <2>4. sources'[s].state = "enabled" => loc'[p].seen = "enabled"
    BY <2>2 DEF SeenInv, UnconfirmedLabels, Left
  <2>5. On(p, s, q, {"evaluate", "status"})' /\ On(p, s, q, {"evaluate", "status", "lastseq"})'
    BY <2>2 DEF On
  <2> QED BY <2>2, <2>3, <2>4, <2>5
<1> QED BY <1>1, <1>2

LEMMA FrontierInvariant ==
  ASSUME Faultless
  PROVE  Spec => []Frontier
<1> DEFINE Inv == Frontier /\ \A r \in Procs : Reevaluating(r)
           Seen == \A p \in Procs : SeenInv(p)
<1>1. Init => Inv
  <2>1. ASSUME Init, NEW s \in Sources PROVE Recorded(s) = {}
    <3>1. windows[s] = [q \in Seqs |-> NoWindow] /\ NoWindow.status = "none"
      BY <2>1 DEF Init, DatabaseInit, NoWindow
    <3> QED BY <3>1 DEF Recorded
  <2> QED BY <2>1 DEF Init, RequestsInit, Frontier, Reevaluating
<1>2. IInv /\ OnceInv /\ Seen /\ Seen' /\ Inv /\ [Next]_vars => Inv'
  <2> SUFFICES ASSUME IInv, OnceInv, Seen, Seen', Inv, [Next]_vars PROVE Inv'
    OBVIOUS
  <2>1. ASSUME NEW p \in Procs, Accept(p) \/ Acts(p) PROVE Inv'
    BY <2>1, FrontierStep, ReevaluatingStep
  <2>2. ~Crash
    BY DEF Faultless, Crash
  <2>3. CASE UNCHANGED vars
    BY <2>3 DEF vars, Frontier, Recorded, On, Reevaluating
  <2> QED BY <2>1, <2>2, <2>3 DEF Next, Acts
<1>3. Spec => []Seen
  BY SeenInvariant
<1>4. Inv => Frontier
  OBVIOUS
<1> HIDE DEF Inv, Seen
<1> QED BY <1>1, <1>2, <1>3, <1>4, IngestInvariant, OnceInvariant, PTL DEF Spec

\* While no statement fails and the process does not die, nothing is left half done when
\* the mutex of a source is free.
THEOREM NothingLeftBehind ==
  ASSUME Faultless
  PROVE  Spec => []NoOrphans
<1>1. IInv /\ Frontier => NoOrphans
  <2> SUFFICES ASSUME IInv, Frontier, NEW s \in Sources, lock[s] = None, NEW q \in Recorded(s)
               PROVE  /\ windows[s][q].status # "new"
                      /\ q <= sources[s].lastSeq
                      /\ sources[s].state # "enabled"
    BY DEF NoOrphans
  <2>1. \A r \in Procs : pc[r] \in {"evaluate", "status", "lastseq", "observe", "observe_set"}
                           => loc[r].src # s
    <3> SUFFICES ASSUME NEW r \in Procs, loc[r].src = s,
                        pc[r] \in {"evaluate", "status", "lastseq", "observe", "observe_set"}
                 PROVE  FALSE
      OBVIOUS
    <3>1. Inside(r)
      BY IngestIsInside DEF IInv, IngestLabels
    <3>2. lock[s] = r
      BY <3>1 DEF IInv, LockDiscipline
    <3> QED BY <3>2, RequestsAssumption
  <2>2. sources[s].lastSeq \in Int /\ q \in Int
    BY TablesTyped DEF IInv, SourceRow, Recorded, Seqs
  <2> QED BY <2>1, <2>2 DEF Frontier, On
<1> QED BY <1>1, IngestInvariant, FrontierInvariant, PTL

\* As long as nothing is re-evaluated, every event has as many windows as it says, starts
\* and ends with one of them, and they are anomalous: all of them while no statement fails
\* and the process does not die, and all but those left unevaluated otherwise.
THEOREM EvidenceExact ==
  ASSUME "reevaluate" \notin Ops
  PROVE  Spec => []RunEvidence
<1>1. ASSUME IInv, EventsConfirmed, EvidenceBacked, Faultless => Frontier PROVE RunEvidence
  <2>1. ASSUME NEW s \in Sources, NEW i \in DOMAIN events[s], NEW q \in Evidence(s, events[s][i])
        PROVE  Counted(s, q)
    <3>1. q \in Recorded(s) /\ q <= events[s][i].lastSeq /\ events[s][i].lastSeq \in Seqs
      BY <1>1 DEF Evidence, EvidenceBacked, Recorded
    <3>2. windows[s][q].status \in {"new", "repeat_anomaly", "stat_anomaly"}
      <4>1. q \in Seqs /\ windows[s][q].status # "none" /\ windows[s][q].status # "valid"
        BY <1>1, <3>1 DEF EvidenceBacked, Recorded
      <4>2. windows[s][q] \in WindowRow
        BY <1>1, <4>1, TablesTyped DEF IInv
      <4> QED BY <4>1, <4>2 DEF WindowRow, WindowStatuses
    <3>3. ASSUME Faultless PROVE windows[s][q].status # "new"
      <4>1. ASSUME NEW p \in Procs, On(p, s, q, {"evaluate", "status"})
            PROVE  q > sources[s].lastSeq
        BY <1>1, <4>1 DEF On, IInv, Ahead, UnconfirmedLabels
      <4>2. events[s][i].lastSeq <= sources[s].lastSeq /\ sources[s].lastSeq \in Int
        BY <1>1, TablesTyped DEF EventsConfirmed, IInv, SourceRow
      <4>3. ~(q > sources[s].lastSeq)
        BY <3>1, <4>2 DEF Recorded, Seqs
      <4> QED BY <1>1, <3>1, <3>3, <4>1, <4>3 DEF Frontier
    <3> QED BY <3>2, <3>3 DEF Counted, Faultless
  <2> QED BY <1>1, <2>1 DEF RunEvidence, EvidenceBacked
<1>2. CASE Faultless
  <2>1. Spec => []Frontier
    BY <1>2, FrontierInvariant
  <2>2. IInv /\ EventsConfirmed /\ EvidenceBacked /\ Frontier => RunEvidence
    BY <1>1
  <2> QED BY <2>1, <2>2, IngestInvariant, EvidenceInvariant, PTL
<1>3. CASE ~Faultless
  <2>1. IInv /\ EventsConfirmed /\ EvidenceBacked => RunEvidence
    BY <1>1, <1>3
  <2> QED BY <2>1, IngestInvariant, EvidenceInvariant, PTL
<1> QED BY <1>2, <1>3

-----------------------------------------------------------------------------
(* Judgement: each window is compared with the windows before it, and none *)
(* is ever added below another.                                            *)

Unevaluated == "reevaluate" \notin Ops

Earlier(s, q) ==
  {windows[s][r].sample : r \in RecentWindows(s, q - 1, 1) \cup RecentWindows(s, q - 1, Lookback)}

Replayed(s, q) == IsReplay(windows[s][q].sample, Earlier(s, q))

JudgedRight(s, q) ==
  /\ windows[s][q].status = ResolvedStatus(Replayed(s, q), windows[s][q].sample)
  /\ windows[s][q].anomaly = ResolvedAnomaly(Replayed(s, q), windows[s][q].sample)

Judged == \A s \in Sources : \A q \in Recorded(s) : windows[s][q].status # "new" => JudgedRight(s, q)

\* What a request inside Ingest knows of its window.
JudgeInv(p) ==
  /\ pc[p] \in UnconfirmedLabels => loc[p].sample \in WellSized
  /\ \A s \in Sources, q \in Seqs :
       s = loc[p].src /\ q = loc[p].seq =>
         /\ pc[p] \in {"evaluate", "status", "lastseq"} => windows[s][q].sample = loc[p].sample
         /\ pc[p] \in {"evaluate", "status"} => loc[p].replay = Replayed(s, q)

\* Every recorded window is confirmed or the one being worked on, so a window that is
\* admitted comes after all of them.
LEMMA AboveAll ==
  ASSUME IInv, Frontier, NEW p \in Procs, pc[p] = "create"
  PROVE  /\ loc[p].src \in Sources /\ loc[p].seq \in Seqs
         /\ \A k \in Recorded(loc[p].src) : k <= sources[loc[p].src].lastSeq /\ k < loc[p].seq
<1>1. /\ Inside(p) /\ loc[p].src \in Sources /\ loc[p].seq \in Seqs
      /\ loc[p].seq > sources[loc[p].src].lastSeq
  BY InsideIngest DEF UnconfirmedLabels, Ahead
<1>2. sources[loc[p].src].lastSeq \in Int
  BY <1>1, TablesTyped DEF IInv, SourceRow
<1>3. ASSUME NEW k \in Recorded(loc[p].src), k > sources[loc[p].src].lastSeq PROVE FALSE
  <2>1. PICK r \in Procs : On(r, loc[p].src, k, {"evaluate", "status", "lastseq"})
    BY <1>1, <1>3 DEF Frontier
  <2>2. r # p /\ Inside(r) /\ loc[r].src = loc[p].src
    BY <2>1, IngestIsInside DEF On, IInv, IngestLabels
  <2> QED BY <1>1, <2>2, OneInside
<1> QED BY <1>1, <1>2, <1>3 DEF Recorded, Seqs

\* What a step of p does to a recorded window below or at q, if p leaves no gap.
SameBelow(s, q) ==
  \A k \in Seqs : k < q =>
    /\ windows'[s][k].status # "none" <=> windows[s][k].status # "none"
    /\ windows'[s][k].sample = windows[s][k].sample

LEMMA EarlierSame ==
  ASSUME NEW s \in Sources, NEW q \in Seqs, SameBelow(s, q)
  PROVE  Earlier(s, q)' = Earlier(s, q)
<1> DEFINE upTo == {r \in Recorded(s) : r <= q - 1}
<1>1. \A r \in Seqs : r <= q - 1 => r < q
  BY DEF Seqs
<1>2. upTo' = upTo
  BY <1>1 DEF Recorded, SameBelow
<1>3. ASSUME NEW n PROVE RecentWindows(s, q - 1, n)' = RecentWindows(s, q - 1, n)
  BY <1>2 DEF RecentWindows
<1>4. ASSUME NEW n PROVE RecentWindows(s, q - 1, n) \subseteq {r \in Seqs : r <= q - 1}
  BY DEF RecentWindows, Recorded
<1>5. ASSUME NEW r \in {k \in Seqs : k <= q - 1} PROVE windows'[s][r].sample = windows[s][r].sample
  BY <1>1 DEF SameBelow
<1>6. RecentWindows(s, q - 1, 1)' = RecentWindows(s, q - 1, 1)
  BY <1>3
<1>7. RecentWindows(s, q - 1, Lookback)' = RecentWindows(s, q - 1, Lookback)
  BY <1>3
<1> QED BY <1>4, <1>5, <1>6, <1>7 DEF Earlier

LEMMA NothingBelow ==
  ASSUME Unevaluated, IInv, Roles, Frontier, NEW p \in Procs, Accept(p) \/ Acts(p),
         NEW s \in Sources, NEW q \in Seqs,
         windows[s][q].status # "none" \/ (CreateWindow(p) /\ s = loc[p].src /\ q = loc[p].seq)
  PROVE  SameBelow(s, q)
<1> SUFFICES ASSUME NEW k \in Seqs, k < q
             PROVE  /\ windows'[s][k].status # "none" <=> windows[s][k].status # "none"
                    /\ windows'[s][k].sample = windows[s][k].sample
  BY DEF SameBelow
<1>0. Typed
  BY DEF IInv
<1>1. CASE windows'[s][k] = windows[s][k]
  BY <1>1
<1>2. CASE s = loc[p].src /\ k = loc[p].seq /\ CreateWindow(p)
  <2>1. k # q
    BY DEF Seqs
  <2>2. q \in Recorded(s)
    BY <1>2, <2>1 DEF Recorded
  <2>3. q < k
    BY <1>2, <2>2, AboveAll DEF CreateWindow, At
  <2> QED BY <2>3 DEF Seqs
<1>3. CASE s = loc[p].src /\ k = loc[p].seq /\ StoreStatus(p)
  <2>1. windows[s][k].status # "none"
    BY <1>3, InsideIngest DEF StoreStatus, At, UnconfirmedLabels, Evaluating
  <2>2. windows'[s][k].status # "none"
    BY <2>1, AloneAndGrowing DEF Grows
  <2>3. windows'[s][k].sample = windows[s][k].sample
    BY <1>0, <1>3, StoreStatusSets, StatusWritten
  <2> QED BY <2>1, <2>2, <2>3
<1> QED BY <1>1, <1>2, <1>3, WindowSteps DEF Unevaluated

\* The newest window is the newest one up to the number admitted.
LEMMA PrevIsNewest ==
  ASSUME NEW s \in Sources, NEW q \in Seqs, \A k \in Recorded(s) : k < q
  PROVE  PrevWindow(s) = RecentWindows(s, q - 1, 1)
<1> DEFINE after(r) == {t \in Recorded(s) : t > r}
<1>1. {r \in Recorded(s) : r <= q - 1} = Recorded(s)
  BY DEF Recorded, Seqs
<1>2. RecentWindows(s, q - 1, 1) = {r \in Recorded(s) : Cardinality(after(r)) < 1}
  BY <1>1 DEF RecentWindows
<1>3. ASSUME NEW r \in Recorded(s) PROVE Cardinality(after(r)) < 1 <=> \A t \in Recorded(s) : t <= r
  <2>1. IsFiniteSet(after(r))
    BY UpToFinite, FS_Subset
  <2>2. Cardinality(after(r)) \in Nat /\ (Cardinality(after(r)) = 0 <=> after(r) = {})
    BY <2>1, FS_CardinalityType, FS_EmptySet
  <2>3. after(r) = {} <=> \A t \in Recorded(s) : t <= r
    BY DEF Recorded, Seqs
  <2> HIDE DEF after
  <2> QED BY <2>2, <2>3
<1> HIDE DEF after
<1> QED BY <1>2, <1>3 DEF PrevWindow

\* CreateWindow compares with exactly those samples, as long as no query fails.
LEMMA ComparedRight ==
  ASSUME Faultless, Unevaluated, IInv, Roles, Frontier, NEW p \in Procs, Acts(p), CreateWindow(p),
         NEW s \in Sources, NEW q \in Seqs, s = loc[p].src, q = loc[p].seq
  PROVE  windows'[s][q].sample = loc[p].sample /\ loc'[p].replay = Replayed(s, q)'
<1>0. Typed /\ pc[p] = "create"
  BY DEF IInv, CreateWindow, At
<1>2. windows'[s][q].sample = loc[p].sample
  <2>1. InsertWindow(s, q, loc[p].sample)
    BY DEF CreateWindow
  <2> QED BY <1>0, <2>1, WindowInserted
<1>3. PrevWindow(s) = RecentWindows(s, q - 1, 1)
  BY <1>0, AboveAll, PrevIsNewest
<1>4. Hashes(s, q) = {Earlier(s, q)}
  BY <1>3 DEF Hashes, Faultless, Earlier
<1>5. loc'[p].replay = IsReplay(loc[p].sample, Earlier(s, q))
  BY <1>0, <1>4, CreateWindowSets
<1>6. Earlier(s, q)' = Earlier(s, q)
  BY NothingBelow, EarlierSame
<1>7. Replayed(s, q)' = IsReplay(windows'[s][q].sample, Earlier(s, q)')
  BY DEF Replayed
<1> QED BY <1>2, <1>5, <1>6, <1>7
LEMMA AdmitsWellSized ==
  ASSUME NEW p \in Procs, Admit(p)
  PROVE  loc[p].sample \in WellSized
<1> DEFINE row == sources[loc[p].src]
<1>1. Verdict(row, loc[p].seq, loc[p].sample) = "none"
  BY DEF Admit
<1> HIDE DEF row
<1>2. ASSUME NEW q, NEW x, Verdict(row, q, x) = "none" PROVE ValidWindow(q, x)
  <2>1. row.state # "absent" /\ row.state # "sealed"
    BY <1>2 DEF Verdict
  <2>2. Verdict(row, q, x) = IF ~ValidWindow(q, x) THEN "invalid"
                             ELSE IF q <= row.lastSeq THEN "conflict" ELSE "none"
    BY <2>1 DEF Verdict
  <2> QED BY <1>2, <2>2
<1> QED BY <1>1, <1>2 DEF ValidWindow

LEMMA JudgeStep ==
  ASSUME Faultless, Unevaluated, IInv, Roles, Frontier, NEW p \in Procs, JudgeInv(p),
         Accept(p) \/ Acts(p)
  PROVE  JudgeInv(p)'
<1> SUFFICES ASSUME pc'[p] \in UnconfirmedLabels
             PROVE  JudgeInv(p)'
  BY DEF JudgeInv, UnconfirmedLabels
<1>1. Typed /\ Acts(p)
  BY Accepted DEF IInv, Starts, UnconfirmedLabels
<1>2. Admit(p) \/ CreateWindow(p) \/ StoreTest(p) \/ StoreStatus(p)
  BY <1>1, Paths DEF UnconfirmedLabels
<1>3. loc'[p].src = loc[p].src /\ loc'[p].seq = loc[p].seq /\ loc'[p].sample = loc[p].sample
  BY <1>1, Kept DEF UnconfirmedLabels
<1>4. loc'[p].sample \in WellSized
  BY <1>2, <1>3, AdmitsWellSized
  DEF JudgeInv, CreateWindow, StoreTest, StoreStatus, At, UnconfirmedLabels
<1> SUFFICES ASSUME NEW s \in Sources, NEW q \in Seqs, s = loc[p].src, q = loc[p].seq
             PROVE  /\ pc'[p] \in {"evaluate", "status", "lastseq"} =>
                         windows'[s][q].sample = loc'[p].sample
                    /\ pc'[p] \in {"evaluate", "status"} => loc'[p].replay = Replayed(s, q)'
  BY <1>3, <1>4 DEF JudgeInv
<1>5. CASE Admit(p)
  BY <1>1, <1>5, GoesTo DEF Admit
<1>6. CASE CreateWindow(p)
  BY <1>1, <1>3, <1>6, ComparedRight
<1>7. CASE StoreTest(p)
  <2>1. windows' = windows /\ pc[p] = "evaluate" /\ loc'[p].replay = loc[p].replay
    BY <1>1, <1>7, Kept DEF StoreTest, notTests, At, CreateWindow, UnconfirmedLabels
  <2>2. Replayed(s, q)' = Replayed(s, q)
    BY <2>1 DEF Replayed, Earlier, RecentWindows, Recorded
  <2> QED BY <1>3, <2>1, <2>2 DEF JudgeInv
<1>8. CASE StoreStatus(p)
  <2>1. pc[p] = "status" /\ pc'[p] = "lastseq"
    BY <1>1, <1>8, GoesTo DEF StoreStatus, At
  <2>2. windows'[s][q].sample = windows[s][q].sample
    BY <1>1, <1>8, StoreStatusSets, StatusWritten
  <2> QED BY <1>3, <2>1, <2>2 DEF JudgeInv
<1> QED BY <1>2, <1>5, <1>6, <1>7, <1>8

LEMMA JudgeUndisturbed ==
  ASSUME Unevaluated, IInv, Roles, NEW p \in Procs, NEW r \in Procs, r # p, JudgeInv(r),
         Accept(p) \/ Acts(p)
  PROVE  JudgeInv(r)'
<1>1. pc'[r] = pc[r] /\ loc'[r] = loc[r]
  BY AloneAndGrowing DEF Moves
<1>2. CASE pc[r] \in UnconfirmedLabels
  <2> SUFFICES ASSUME NEW s \in Sources, NEW q \in Seqs, s = loc[r].src, q = loc[r].seq
               PROVE  windows'[s][q] = windows[s][q] /\ Replayed(s, q)' = Replayed(s, q)
    BY <1>1 DEF JudgeInv
  <2>1. Inside(r)
    BY <1>2, InsideIngest
  <2>2. ~(s = loc[p].src /\ Inside(p))
    BY <2>1, OneInside
  <2>3. \A k \in Seqs : windows'[s][k] = windows[s][k]
    BY <2>2, WindowSteps DEF Unevaluated
  <2>4. Earlier(s, q)' = Earlier(s, q)
    BY <2>3, EarlierSame DEF SameBelow
  <2> QED BY <2>3, <2>4 DEF Replayed
<1>3. CASE pc[r] \notin UnconfirmedLabels
  BY <1>1, <1>3 DEF JudgeInv, UnconfirmedLabels
<1> QED BY <1>2, <1>3

LEMMA JudgedStep ==
  ASSUME Unevaluated, IInv, Roles, Frontier, Judged, NEW p \in Procs, JudgeInv(p),
         Accept(p) \/ Acts(p)
  PROVE  Judged'
<1>0. Typed
  BY DEF IInv
<1> SUFFICES ASSUME NEW s \in Sources, NEW q \in Seqs, windows'[s][q].status \notin {"none", "new"}
             PROVE  JudgedRight(s, q)'
  BY DEF Judged, Recorded
<1>1. CASE windows'[s][q] = windows[s][q]
  <2>1. JudgedRight(s, q)
    BY <1>1 DEF Judged, Recorded
  <2>2. Earlier(s, q)' = Earlier(s, q)
    BY <1>1, NothingBelow, EarlierSame
  <2> QED BY <1>1, <2>1, <2>2 DEF JudgedRight, Replayed
<1>2. CASE s = loc[p].src /\ q = loc[p].seq /\ CreateWindow(p)
  <2>1. windows'[s][q].status = "new"
    BY <1>0, <1>2, WindowInserted DEF CreateWindow
  <2> QED BY <2>1
<1>3. CASE s = loc[p].src /\ q = loc[p].seq /\ StoreStatus(p)
  <2>1. /\ pc[p] = "status"
        /\ windows[s][q].status # "none"
    BY <1>3, InsideIngest DEF StoreStatus, At, UnconfirmedLabels, Evaluating
  <2>2. loc[p].replay = Replayed(s, q) /\ windows[s][q].sample = loc[p].sample
    BY <1>3, <2>1 DEF JudgeInv
  <2>3. /\ windows'[s][q].sample = loc[p].sample
        /\ windows'[s][q].status = ResolvedStatus(Replayed(s, q), loc[p].sample)
        /\ windows'[s][q].anomaly = ResolvedAnomaly(Replayed(s, q), loc[p].sample)
    BY <1>0, <1>3, <2>2, StoreStatusSets, StatusWritten
  <2>4. Earlier(s, q)' = Earlier(s, q)
    BY <2>1, NothingBelow, EarlierSame
  <2> QED BY <2>2, <2>3, <2>4 DEF JudgedRight, Replayed
<1> QED BY <1>1, <1>2, <1>3, WindowSteps DEF Unevaluated

LEMMA JudgedInvariant ==
  ASSUME Faultless, Unevaluated
  PROVE  Spec => [](Judged /\ \A p \in Procs : JudgeInv(p))
<1> DEFINE Inv == Judged /\ \A p \in Procs : JudgeInv(p)
<1>1. Init => Inv
  <2>1. ASSUME Init, NEW s \in Sources PROVE Recorded(s) = {}
    <3>1. windows[s] = [q \in Seqs |-> NoWindow] /\ NoWindow.status = "none"
      BY <2>1 DEF Init, DatabaseInit, NoWindow
    <3> QED BY <3>1 DEF Recorded
  <2> QED BY <2>1 DEF Init, RequestsInit, Judged, JudgeInv, UnconfirmedLabels
<1>2. IInv /\ Roles /\ Frontier /\ Inv /\ [Next]_vars => Inv'
  <2> SUFFICES ASSUME IInv, Roles, Frontier, Inv, [Next]_vars PROVE Inv'
    OBVIOUS
  <2>1. ASSUME NEW p \in Procs, Accept(p) \/ Acts(p) PROVE Inv'
    BY <2>1, JudgedStep, JudgeStep, JudgeUndisturbed
  <2>2. ~Crash
    BY DEF Faultless, Crash
  <2>3. CASE UNCHANGED vars
    <3>1. UNCHANGED <<windows, pc, loc>>
      BY <2>3 DEF vars
    <3>2. ASSUME NEW s \in Sources, NEW q \in Seqs PROVE Replayed(s, q)' = Replayed(s, q)
      BY <3>1, EarlierSame DEF SameBelow, Replayed
    <3>3. Judged'
      BY <3>1, <3>2 DEF Judged, JudgedRight, Recorded
    <3>4. \A p \in Procs : JudgeInv(p)'
      BY <3>1, <3>2 DEF JudgeInv
    <3> QED BY <3>3, <3>4
  <2> QED BY <2>1, <2>2, <2>3 DEF Next, Acts
<1> HIDE DEF Inv
<1>3. Spec => []Inv
  BY <1>1, <1>2, IngestInvariant, RolesInvariant, FrontierInvariant, PTL DEF Spec
<1> QED BY <1>3 DEF Inv

\* While no statement fails, the process does not die and nothing is re-evaluated, a window
\* whose sample is that of one of the Lookback windows before it is a repeat anomaly, in
\* whatever order concurrent requests are let in.
THEOREM ReplaysAreFlagged ==
  ASSUME Faultless, Unevaluated
  PROVE  Spec => []ReplayFlagged
<1>1. Judged => ReplayFlagged
  <2> SUFFICES ASSUME Judged, NEW s \in Sources, NEW q \in Recorded(s),
                      windows[s][q].status # "new",
                      NEW r \in RecentWindows(s, q - 1, Lookback),
                      windows[s][r].sample = windows[s][q].sample
               PROVE  windows[s][q].status = "repeat_anomaly"
    BY DEF ReplayFlagged
  <2>1. windows[s][q].sample \in Earlier(s, q)
    BY DEF Earlier
  <2>2. Replayed(s, q)
    BY <2>1 DEF Replayed, IsReplay
  <2> QED BY <2>2 DEF Judged, JudgedRight, ResolvedStatus
<1> QED BY <1>1, JudgedInvariant, PTL

-----------------------------------------------------------------------------
(* No engineer intervenes: only registration and the request that holds    *)
(* the mutex change what Tracker shows of a source.                        *)

Engineered == {"degrade", "isolate", "seal", "recover", "confirm", "close", "reevaluate"}

Quiet == Faultless /\ Ops \cap Engineered = {}

LEMMA QuietOps ==
  ASSUME Quiet
  PROVE  Faultless /\ Unevaluated /\ Unconfirmed /\ EventsAlone /\ "degrade" \notin Ops
         /\ "isolate" \notin Ops /\ "seal" \notin Ops /\ "recover" \notin Ops
BY DEF Quiet, Engineered, Unevaluated, Unconfirmed, EventsAlone

\* SetDegraded is then a statement of Ingest.
LEMMA DegradesInside ==
  ASSUME Quiet, Typed, Roles, NEW p \in Procs, pc[p] = "set_degraded"
  PROVE  Inside(p) /\ loc[p].src \in Sources /\ Finishing(p) /\ loc[p].op = "ingest"
<1>1. loc[p].op = "ingest"
  BY QuietOps DEF Roles, Role
<1> QED BY <1>1, FinishingInside DEF Finishing

LEMMA QuietSources ==
  ASSUME Quiet, IInv, Roles, NEW p \in Procs, Accept(p) \/ Acts(p), NEW s \in Sources
  PROVE  /\ \/ sources'[s].state = sources[s].state
            \/ /\ s = loc[p].src
               /\ \/ InsertedSource(p) /\ sources[s].state = "absent" /\ sources'[s].state = "enabled"
                  \/ Inside(p) /\ SetObserving(p) /\ sources'[s].state = "observing"
                  \/ Inside(p) /\ SetDegraded(p) /\ sources'[s].state = "degraded"
         /\ \/ sources'[s].lastSeq = sources[s].lastSeq
            \/ /\ s = loc[p].src /\ Inside(p)
               /\ StoreLastSeq(p) /\ sources'[s].lastSeq = loc[p].seq
<1>0. Typed
  BY DEF IInv
<1>1. CASE Accept(p)
  BY <1>0, <1>1, Accepted DEF tables
<1>2. CASE Acts(p)
  <2>1. ~SetRecovered(p) /\ ~SetIsolated(p) /\ ~SetSealed(p)
    BY QuietOps DEF SetRecovered, SetIsolated, SetSealed, WriteState, At, Roles, Role
  <2>2. SetObserving(p) \/ StoreLastSeq(p) => Inside(p)
    BY <1>0, IngestIsInside DEF SetObserving, StoreLastSeq, WriteState, At, IngestLabels
  <2>3. SetDegraded(p) => Inside(p)
    BY <1>0, DegradesInside DEF SetDegraded, WriteState, At
  <2> QED BY <1>2, <2>1, <2>2, <2>3, SourceSteps
<1> QED BY <1>1, <1>2

LEMMA QuietEvents ==
  ASSUME Quiet, IInv, Roles, NEW p \in Procs, Accept(p) \/ Acts(p), NEW s \in Sources
  PROVE  \/ events'[s] = events[s]
         \/ /\ s = loc[p].src /\ Inside(p) /\ Acts(p)
            /\ Settle(p) \/ SettleClose(p) \/ CreateEvent(p) \/ Raise(p) \/ ExtendRun(p)
<1>0. Typed
  BY DEF IInv
<1>1. CASE Accept(p)
  BY <1>0, <1>1, Accepted DEF tables
<1>2. CASE Acts(p)
  <2>1. ~SetConfirmed(p) /\ ~SetClosed(p)
    BY QuietOps DEF Unconfirmed, SetConfirmed, SetClosed, At, Roles, Role
  <2>2. Settle(p) \/ SettleClose(p) \/ CreateEvent(p) \/ Raise(p) \/ ExtendRun(p) => Inside(p)
    BY <1>0, IngestIsInside
    DEF Settle, SettleClose, CreateEvent, Raise, ExtendRun, At, IngestLabels
  <2> QED BY <1>0, <1>2, <2>1, <2>2, Writers, OtherEvents
<1> QED BY <1>1, <1>2

Healthy(s) == sources[s].state \in {"enabled", "observing"}

KnownLabels == UnconfirmedLabels \cup CorrelatedLabels \cup {"degrade", "set_degraded"}

\* What a request inside Ingest read is still so: the state of the source, unless it is
\* this request that degrades it, what became of its window, and the event it works on.
KnownInv(p) ==
  \A s \in Sources : s = loc[p].src =>
    /\ pc[p] \in KnownLabels => (Healthy(s) <=> loc[p].seen \in {"enabled", "observing"})
    /\ pc[p] \in {"observe", "observe_set"} => loc[p].seen = "enabled"
    /\ pc[p] \in {"degrade", "set_degraded"} => ShouldDegrade(p)
    /\ pc[p] = "lastseq" \/ pc[p] \in CorrelatedLabels
         => windows[s][loc[p].seq].anomaly = loc[p].anomaly
    /\ pc[p] = "settle" => events[s][loc[p].row].state \in {"candidate", "transient"}
    /\ pc[p] = "settle_close" => events[s][loc[p].row].state = "transient"
    /\ pc[p] \in {"raise", "update_run"} => loc[p].rowState # "closed"
    /\ pc[p] = "raise" => events[s][loc[p].row].state = loc[p].rowState
    /\ pc[p] = "update_run" => events[s][loc[p].row].state = RaisedState(p)

\* The labels are reached one by one.
LEMMA KnownPaths ==
  ASSUME Quiet, IInv, Roles, NEW p \in Procs, Accept(p) \/ Acts(p), pc'[p] \in KnownLabels
  PROVE  /\ Acts(p) /\ loc[p].src \in Sources /\ Inside(p)
         /\ loc'[p].src = loc[p].src /\ loc'[p].seq = loc[p].seq
         /\ Admit(p) \/ pc[p] \in KnownLabels
<1>0. Typed
  BY DEF IInv
<1>1. Acts(p)
  BY <1>0, Accepted, QuietOps
  DEF Starts, KnownLabels, UnconfirmedLabels, CorrelatedLabels, RunLabels
<1>2. loc'[p].src = loc[p].src /\ loc'[p].seq = loc[p].seq
  BY <1>0, <1>1, Kept DEF KnownLabels, UnconfirmedLabels, CorrelatedLabels, RunLabels
<1>3. Admit(p) \/ pc[p] \in KnownLabels
  BY <1>0, <1>1, Paths
  DEF KnownLabels, UnconfirmedLabels, CorrelatedLabels, RunLabels, CreateWindow, StoreTest,
      StoreStatus, StoreLastSeq, Observe, SetObserving, CountRun, ReadRestart, FindSettled,
      Settle, NoOpenEvent, FindOpenEvent, Raise, CreateEvent, ExtendRun, AutoDegrade,
      WriteState, At
<1>4. Admit(p) => pc[p] = "get"
  BY DEF Admit, At
<1>5. pc[p] \in IngestLabels \ {"lock"} \/ pc[p] = "set_degraded"
  BY <1>3, <1>4 DEF KnownLabels, UnconfirmedLabels, CorrelatedLabels, RunLabels, IngestLabels
<1>6. Inside(p) /\ loc[p].src \in Sources
  BY <1>0, <1>5, IngestIsInside, DegradesInside
<1> QED BY <1>1, <1>2, <1>3, <1>6

LEMMA HealthKnown ==
  ASSUME Quiet, IInv, Roles, NEW p \in Procs, KnownInv(p), Accept(p) \/ Acts(p),
         pc'[p] \in KnownLabels, NEW s \in Sources, s = loc[p].src
  PROVE  /\ Healthy(s)' <=> loc'[p].seen \in {"enabled", "observing"}
         /\ pc'[p] \in {"observe", "observe_set"} => loc'[p].seen = "enabled"
<1>0. Typed
  BY DEF IInv
<1>1. Acts(p) /\ (Admit(p) \/ pc[p] \in KnownLabels)
  BY KnownPaths
<1>2. pc'[p] \notin {"idle", "lock"}
  BY DEF KnownLabels, UnconfirmedLabels, CorrelatedLabels, RunLabels
<1>3. CASE Admit(p)
  <2>1. pc'[p] = "create" /\ loc'[p].seen = sources[s].state /\ UNCHANGED sources
    BY <1>0, <1>3, GoesTo, AdmitSets DEF Admit, tables
  <2> QED BY <2>1 DEF Healthy
<1>4. CASE ~Admit(p)
  <2>1. loc'[p].seen = loc[p].seen
    BY <1>0, <1>1, <1>2, <1>4, Kept
  <2>2. Healthy(s) <=> loc[p].seen \in {"enabled", "observing"}
    BY <1>1, <1>4 DEF KnownInv
  <2>3. SetObserving(p) => Healthy(s)
    BY <1>1, <1>4, <2>2 DEF KnownInv, SetObserving, WriteState, At
  <2>4. ~SetDegraded(p)
    <3>1. SetDegraded(p) => pc'[p] \in {"idle", "done"}
      BY <1>0, AnswerGoesTo DEF SetDegraded
    <3> QED BY <3>1 DEF KnownLabels, UnconfirmedLabels, CorrelatedLabels, RunLabels
  <2>5. ~InsertedSource(p)
    BY <1>1, <1>4
    DEF InsertedSource, At, KnownLabels, UnconfirmedLabels, CorrelatedLabels, RunLabels
  <2>6. Healthy(s)' <=> Healthy(s)
    BY <2>3, <2>4, <2>5, QuietSources DEF Healthy
  <2>7. ASSUME pc'[p] \in {"observe", "observe_set"} PROVE loc[p].seen = "enabled"
    <3>1. CASE StoreLastSeq(p)
      BY <1>0, <2>7, <3>1, GoesTo DEF StoreLastSeq
    <3>2. CASE Observe(p)
      BY <3>2 DEF Observe, At, KnownInv
    <3> QED BY <1>0, <1>1, <2>7, <3>1, <3>2, Paths
  <2> QED BY <2>1, <2>2, <2>6, <2>7
<1> QED BY <1>3, <1>4

LEMMA DegradeKnown ==
  ASSUME Quiet, IInv, Roles, NEW p \in Procs, KnownInv(p), Accept(p) \/ Acts(p),
         pc'[p] \in {"degrade", "set_degraded"}
  PROVE  ShouldDegrade(p)'
<1>0. Typed /\ Acts(p) /\ loc[p].src \in Sources
  BY KnownPaths DEF IInv, KnownLabels
<1>1. CASE pc'[p] = "degrade"
  <2>1. CreateEvent(p) \/ ExtendRun(p)
    BY <1>0, <1>1, Paths
  <2>2. Correlated(p)
    BY <2>1 DEF CreateEvent, ExtendRun
  <2>3. ~Answer(p, "ok")
    BY <1>0, <1>1, AnswerGoesTo
  <2> QED BY <2>2, <2>3 DEF Correlated, ShouldDegrade, Persistent
<1>2. CASE pc'[p] = "set_degraded"
  <2>1. AutoDegrade(p)
    BY <1>0, <1>2, Paths
  <2> QED BY <1>0, <2>1 DEF AutoDegrade, At, KnownInv, ShouldDegrade, Persistent
<1> QED BY <1>1, <1>2

LEMMA AnomalyKnown ==
  ASSUME Quiet, IInv, Roles, Reports, NEW p \in Procs, KnownInv(p), Accept(p) \/ Acts(p),
         pc'[p] = "lastseq" \/ pc'[p] \in CorrelatedLabels,
         NEW s \in Sources, s = loc[p].src
  PROVE  windows'[s][loc'[p].seq].anomaly = loc'[p].anomaly
<1>0. Typed /\ Acts(p) /\ loc'[p].seq = loc[p].seq
  BY KnownPaths DEF IInv, KnownLabels, UnconfirmedLabels
<1>1. CASE pc'[p] = "lastseq"
  <2>1. StoreStatus(p)
    BY <1>0, <1>1, Paths
  <2>2. loc[p].seq \in Seqs
    BY <2>1, InsideIngest DEF StoreStatus, At, UnconfirmedLabels
  <2> QED BY <1>0, <2>1, <2>2, StoreStatusSets, StatusWritten
<1>2. CASE pc'[p] \in CorrelatedLabels
  <2>1. Correlating(p)'
    BY <1>2 DEF Correlating, Finishing, CorrelatedLabels
  <2>2. StoreLastSeq(p) \/ Correlating(p)
    BY <2>1, CorrelatingSteps
  <2>3. pc[p] = "lastseq" \/ pc[p] \in CorrelatedLabels
    BY <1>0, <1>2, Paths
    DEF CorrelatedLabels, RunLabels, StoreLastSeq, Observe, SetObserving, CountRun, ReadRestart,
        FindSettled, Settle, NoOpenEvent, FindOpenEvent, Raise, WriteState, At
  <2>4. loc[p].seq \in Seqs
    BY <2>3, InsideIngest, LocalTyped DEF UnconfirmedLabels, IInv, LocalsFit
  <2>5. ~CreateWindow(p) /\ ~StoreStatus(p)
    BY <2>3 DEF CorrelatedLabels, RunLabels, CreateWindow, StoreStatus, At
  <2>6. windows'[s][loc[p].seq] = windows[s][loc[p].seq]
    BY <2>4, <2>5, WindowSteps, QuietOps DEF Unevaluated
  <2>7. loc'[p].anomaly = loc[p].anomaly
    BY <1>0, <1>2, <2>5, Kept DEF CorrelatedLabels, RunLabels
  <2> QED BY <1>0, <2>3, <2>6, <2>7 DEF KnownInv
<1> QED BY <1>1, <1>2

LEMMA EventKnown ==
  ASSUME Quiet, IInv, Roles, RowsNamed, NEW p \in Procs, OpenInv(p), KnownInv(p),
         Accept(p) \/ Acts(p), NEW s \in Sources, s = loc[p].src
  PROVE  /\ pc'[p] = "settle" => events'[s][loc'[p].row].state \in {"candidate", "transient"}
         /\ pc'[p] = "settle_close" => events'[s][loc'[p].row].state = "transient"
         /\ pc'[p] \in {"raise", "update_run"} => loc'[p].rowState # "closed"
         /\ pc'[p] = "raise" => events'[s][loc'[p].row].state = loc'[p].rowState
         /\ pc'[p] = "update_run" => events'[s][loc'[p].row].state = RaisedState(p)'
<1>0. Typed
  BY DEF IInv
<1>1. ASSUME pc'[p] = "settle" PROVE events'[s][loc'[p].row].state \in {"candidate", "transient"}
  <2>1. Acts(p) /\ FindSettled(p)
    BY <1>0, <1>1, KnownPaths, Paths DEF KnownLabels, CorrelatedLabels, RunLabels
  <2>2. PICK i \in OpenForSource(loc[p].src) :
          /\ Settled(p, i)
          /\ loc' = [loc EXCEPT ![p].row = i]
          /\ UNCHANGED events
    BY <2>1 DEF FindSettled, tables
  <2>3. loc'[p].row = i
    BY <1>0, <2>2, LocalFields DEF Blank
  <2> QED BY <2>2, <2>3 DEF Settled
<1>2. ASSUME pc'[p] = "settle_close" PROVE events'[s][loc'[p].row].state = "transient"
  <2>1. Acts(p) /\ Settle(p) /\ pc[p] = "settle"
    BY <1>0, <1>2, KnownPaths, Paths DEF KnownLabels, CorrelatedLabels, RunLabels, Settle, At
  <2>2. loc'[p].row = loc[p].row
    BY <2>1 DEF Settle
  <2>3. loc[p].row \in DOMAIN events[s]
    BY <2>1 DEF RowsNamed, RowNamed, EventLabels
  <2>4. SetState(s, loc[p].row, "transient", FALSE, TRUE)
    BY <2>1 DEF Settle
  <2>5. events'[s][loc[p].row].state = "transient"
    BY ONLY <1>0, s \in Sources, <2>3, <2>4, StateSet, ZenonT(60)
  <2> QED BY <2>2, <2>5
<1>3. ASSUME pc'[p] = "raise"
      PROVE  events'[s][loc'[p].row].state = loc'[p].rowState /\ loc'[p].rowState # "closed"
  <2>1. Acts(p) /\ FindOpenEvent(p)
    BY <1>0, <1>3, KnownPaths, Paths DEF KnownLabels, CorrelatedLabels, RunLabels
  <2>2. /\ loc'[p].row \in OpenForSource(s)
        /\ loc'[p].rowState = events[s][loc'[p].row].state
        /\ UNCHANGED events
    BY <1>0, <2>1, FindOpenEventSets DEF FindOpenEvent, tables
  <2> QED BY <2>2 DEF OpenForSource, Open
<1>4. ASSUME pc'[p] = "update_run"
      PROVE  events'[s][loc'[p].row].state = RaisedState(p)' /\ loc'[p].rowState # "closed"
  <2>1. Acts(p) /\ Raise(p) /\ pc[p] = "raise"
    BY <1>0, <1>4, KnownPaths, Paths DEF KnownLabels, CorrelatedLabels, RunLabels, Raise, At
  <2>2. loc' = loc
    BY <2>1 DEF Raise
  <2>3. loc[p].row \in DOMAIN events[s]
    BY <2>1 DEF RowsNamed, RowNamed, EventLabels
  <2>4. events'[s][loc[p].row].state = RaisedState(p)
    BY <1>0, <2>1, <2>3, StateSet DEF Raise
  <2>5. RaisedState(p)' = RaisedState(p)
    BY <2>2 DEF RaisedState, Persistent
  <2> QED BY <2>1, <2>2, <2>4, <2>5 DEF KnownInv
<1> QED BY <1>1, <1>2, <1>3, <1>4

LEMMA KnownStep ==
  ASSUME Quiet, IInv, Roles, RowsNamed, Reports, NEW p \in Procs, OpenInv(p), KnownInv(p),
         Accept(p) \/ Acts(p)
  PROVE  KnownInv(p)'
<1> SUFFICES ASSUME pc'[p] \in KnownLabels PROVE KnownInv(p)'
  BY DEF KnownInv, KnownLabels, UnconfirmedLabels, CorrelatedLabels, RunLabels
<1> SUFFICES ASSUME NEW s \in Sources, s = loc[p].src
             PROVE
    /\ Healthy(s)' <=> loc'[p].seen \in {"enabled", "observing"}
    /\ pc'[p] \in {"observe", "observe_set"} => loc'[p].seen = "enabled"
    /\ pc'[p] \in {"degrade", "set_degraded"} => ShouldDegrade(p)'
    /\ pc'[p] = "lastseq" \/ pc'[p] \in CorrelatedLabels
         => windows'[s][loc'[p].seq].anomaly = loc'[p].anomaly
    /\ pc'[p] = "settle" => events'[s][loc'[p].row].state \in {"candidate", "transient"}
    /\ pc'[p] = "settle_close" => events'[s][loc'[p].row].state = "transient"
    /\ pc'[p] \in {"raise", "update_run"} => loc'[p].rowState # "closed"
    /\ pc'[p] = "raise" => events'[s][loc'[p].row].state = loc'[p].rowState
    /\ pc'[p] = "update_run" => events'[s][loc'[p].row].state = RaisedState(p)'
  BY KnownPaths DEF KnownInv
<1> QED BY HealthKnown, DegradeKnown, AnomalyKnown, EventKnown

LEMMA KnownUndisturbed ==
  ASSUME Quiet, IInv, Roles, Reports, NEW p \in Procs, NEW r \in Procs, r # p, SeenInv(r),
         KnownInv(r), Accept(p) \/ Acts(p)
  PROVE  KnownInv(r)'
<1>0. Typed
  BY DEF IInv
<1>1. pc'[r] = pc[r] /\ loc'[r] = loc[r]
  BY AloneAndGrowing DEF Moves
<1> SUFFICES ASSUME pc[r] \in KnownLabels PROVE KnownInv(r)'
  BY <1>1 DEF KnownInv, KnownLabels, UnconfirmedLabels, CorrelatedLabels, RunLabels
<1> SUFFICES ASSUME NEW s \in Sources, s = loc[r].src
             PROVE  /\ Healthy(s)' <=> Healthy(s)
                    /\ events'[s] = events[s]
                    /\ pc[r] = "lastseq" \/ pc[r] \in CorrelatedLabels
                         => windows'[s][loc[r].seq] = windows[s][loc[r].seq]
  BY <1>1 DEF KnownInv, RaisedState, ShouldDegrade, Persistent
<1>2. Inside(r)
  BY <1>0, IngestIsInside, DegradesInside
  DEF KnownLabels, UnconfirmedLabels, CorrelatedLabels, RunLabels, IngestLabels
<1>3. ~(s = loc[p].src /\ Inside(p))
  BY <1>2, OneInside
<1>4. sources[s].state # "absent"
  <2>1. CASE pc[r] \in UnconfirmedLabels
    BY <2>1 DEF IInv, Ahead
  <2>2. CASE pc[r] \in {"observe", "observe_set"}
    BY <2>2 DEF SeenInv
  <2>3. CASE pc[r] \in {"recent", "degrade", "set_degraded"} \cup RunLabels
    <3>1. Finishing(r)
      BY <1>0, <2>3, DegradesInside DEF Finishing
    <3> QED BY <3>1 DEF SeenInv, Left
  <2> QED BY <2>1, <2>2, <2>3 DEF KnownLabels, CorrelatedLabels
<1>5. Healthy(s)' <=> Healthy(s)
  BY <1>3, <1>4, QuietSources DEF Healthy
<1>6. events'[s] = events[s]
  BY <1>2, MutexGuardsEvents, QuietOps
<1>7. ASSUME pc[r] = "lastseq" \/ pc[r] \in CorrelatedLabels
      PROVE  windows'[s][loc[r].seq] = windows[s][loc[r].seq]
  <2>1. loc[r].seq \in Seqs
    BY <1>0, <1>7, LocalTyped DEF LocalsFit, UnconfirmedLabels
  <2> QED BY <1>3, <2>1, WindowSteps, QuietOps DEF Unevaluated
<1> QED BY <1>5, <1>6, <1>7

Knowns == \A p \in Procs : KnownInv(p)

LEMMA KnownsInvariant ==
  ASSUME Quiet
  PROVE  Spec => []Knowns
<1> DEFINE Others == /\ \A p \in Procs : SeenInv(p)
                     /\ OpenEventNewest /\ \A p \in Procs : OpenInv(p)
<1>1. Init => Knowns
  BY DEF Init, RequestsInit, Knowns, KnownInv, KnownLabels, UnconfirmedLabels, CorrelatedLabels,
         RunLabels
<1>2. IInv /\ Roles /\ RowsNamed /\ Reports /\ Others /\ Knowns /\ [Next]_vars => Knowns'
  <2> SUFFICES ASSUME IInv, Roles, RowsNamed, Reports, Others, Knowns, [Next]_vars PROVE Knowns'
    OBVIOUS
  <2>1. ASSUME NEW p \in Procs, Accept(p) \/ Acts(p) PROVE Knowns'
    BY <2>1, KnownStep, KnownUndisturbed DEF Knowns
  <2>2. ~Crash
    BY DEF Quiet, Faultless, Crash
  <2>3. CASE UNCHANGED vars
    BY <2>3 DEF vars, Knowns, KnownInv, Healthy, RaisedState, ShouldDegrade, Persistent
  <2> QED BY <2>1, <2>2, <2>3 DEF Next, Acts
<1>3. Spec => []Others
  <2>1. Spec => [](OpenEventNewest /\ \A p \in Procs : OpenInv(p))
    BY OpenInvariant, QuietOps
  <2> QED BY <2>1, SeenInvariant, PTL
<1> HIDE DEF Others
<1> QED BY <1>1, <1>2, <1>3, IngestInvariant, RolesInvariant, EventRowsExist, ReportsInvariant,
           PTL DEF Spec

-----------------------------------------------------------------------------
(* The views of Tracker's variables: what a step leaves as it is shown.    *)

SameView(s) ==
  /\ ModeView'[s] = ModeView[s]
  /\ LogView'[s] = LogView[s]
  /\ PendingView'[s] = PendingView[s]
  /\ AlarmView'[s] = AlarmView[s]
  /\ ReportsView'[s] = ReportsView[s]

LEMMA LogSame ==
  ASSUME NEW s \in Sources, sources'[s].lastSeq = sources[s].lastSeq,
         Settles(s, sources[s].lastSeq)
  PROVE  LogView'[s] = LogView[s]
<1> DEFINE upTo == {r \in Recorded(s) : r <= sources[s].lastSeq}
<1>1. upTo' = upTo
  BY DEF Settles, Recorded
<1>2. \A q \in upTo : windows'[s][q] = windows[s][q]
  BY DEF Settles, Recorded
<1>3. LogView[s] = [q \in upTo |-> windows[s][q]]
  BY DEF LogView
<1>4. LogView'[s] = [q \in upTo' |-> windows'[s][q]]
  BY DEF LogView
<1> HIDE DEF upTo
<1> QED BY <1>1, <1>2, <1>3, <1>4

LEMMA ReportsSame ==
  ASSUME NEW s \in Sources, DOMAIN events'[s] = DOMAIN events[s],
         \A i \in DOMAIN events[s] : SameRun(s, i) /\ LevelView(s, i)' = LevelView(s, i)
  PROVE  ReportsView'[s] = ReportsView[s]
BY DEF ReportsView, SameRun

\* The five variables of Tracker together.
LEMMA ViewsSame ==
  ASSUME \A s \in Sources : SameView(s)
  PROVE  UNCHANGED Abstract!trackerVars
<1>1. ModeView' = ModeView
  BY DEF SameView, ModeView
<1>2. LogView' = LogView
  <2>1. LogView = [s \in Sources |-> LogView[s]] /\ LogView' = [s \in Sources |-> LogView'[s]]
    BY DEF LogView
  <2> QED BY <2>1 DEF SameView
<1>3. PendingView' = PendingView
  BY DEF SameView, PendingView
<1>4. AlarmView' = AlarmView
  BY DEF SameView, AlarmView
<1>5. ReportsView' = ReportsView
  <2>1. /\ ReportsView = [s \in Sources |-> ReportsView[s]]
        /\ ReportsView' = [s \in Sources |-> ReportsView'[s]]
    BY DEF ReportsView
  <2> QED BY <2>1 DEF SameView
<1> QED BY <1>1, <1>2, <1>3, <1>4, <1>5 DEF Abstract!trackerVars

\* The request that holds the mutex of s stays the same, or it is p.
LEMMA HolderStays ==
  ASSUME IInv, IInv', NEW p \in Procs, Accept(p) \/ Acts(p), NEW s \in Sources
  PROVE  /\ (Inside(p) /\ s = loc[p].src) <=> lock[s] = p
         /\ (Inside(p)' /\ s = loc'[p].src) <=> lock'[s] = p
         /\ lock[s] # p /\ lock'[s] # p =>
              /\ lock'[s] = lock[s]
              /\ lock[s] # None => pc'[lock[s]] = pc[lock[s]] /\ loc'[lock[s]] = loc[lock[s]]
<1>1. lock[s] \in Procs \cup {None} /\ lock'[s] \in Procs \cup {None}
  BY DEF IInv, Typed, TypeOK, ProcsOK
<1>2. \A q \in Procs : (lock[s] = q) <=> (Inside(q) /\ loc[q].src = s)
  BY DEF IInv, LockDiscipline
<1>3. \A q \in Procs : (lock'[s] = q) <=> (Inside(q)' /\ loc'[q].src = s)
  BY DEF IInv, LockDiscipline
<1>4. \A q \in Procs : q # p => pc'[q] = pc[q] /\ loc'[q] = loc[q]
  BY AloneAndGrowing DEF Moves
<1>5. \A q \in Procs : q # p => (Inside(q)' <=> Inside(q))
  BY <1>4 DEF Inside
<1>6. ASSUME lock[s] # p, lock'[s] # p PROVE lock'[s] = lock[s]
  <2>1. \A q \in Procs : q # p => (lock'[s] = q <=> lock[s] = q)
    BY <1>2, <1>3, <1>4, <1>5
  <2> QED BY <1>1, <1>6, <2>1, RequestsAssumption
<1> QED BY <1>1, <1>2, <1>3, <1>4, <1>6

LEMMA Holder ==
  ASSUME NEW p \in Procs, NEW s \in Sources, lock[s] = p
  PROVE  \A labels : HolderAt(s, labels) <=> pc[p] \in labels
BY RequestsAssumption DEF HolderAt

LEMMA HolderNext ==
  ASSUME NEW p \in Procs, NEW s \in Sources, lock'[s] = p
  PROVE  \A labels : HolderAt(s, labels)' <=> pc'[p] \in labels
BY RequestsAssumption DEF HolderAt

Shown == Reporting \cup {"degrade", "set_degraded", "update_run"}

LEMMA AlarmShown ==
  ASSUME NEW s \in Sources
  PROVE  /\ AlarmView[s] = HolderAt(s, {"degrade", "set_degraded"})
         /\ AlarmView'[s] = HolderAt(s, {"degrade", "set_degraded"})'
         /\ \A labels : HolderAt(s, labels) \in BOOLEAN /\ HolderAt(s, labels)' \in BOOLEAN
<1>1. \A labels : HolderAt(s, labels) \in BOOLEAN /\ HolderAt(s, labels)' \in BOOLEAN
  BY DEF HolderAt
<1> QED BY <1>1, Zenon DEF AlarmView

\* Where nothing of s changes that is shown.
LEMMA Elsewhere ==
  ASSUME Quiet, IInv, IInv', Roles, NEW p \in Procs, Accept(p) \/ Acts(p), NEW s \in Sources,
         s # loc[p].src \/ ~Inside(p)
  PROVE  /\ LogView'[s] = LogView[s] /\ PendingView'[s] = PendingView[s]
         /\ AlarmView'[s] = AlarmView[s] /\ ReportsView'[s] = ReportsView[s]
         /\ s # loc[p].src \/ ~InsertedSource(p) => SameView(s)
<1>0. Typed
  BY DEF IInv
<1>1. sources'[s].lastSeq = sources[s].lastSeq
  BY QuietSources
<1>2. events'[s] = events[s]
  BY QuietEvents
<1>3. LogView'[s] = LogView[s]
  BY <1>1, LogSame, ConfirmedSettled, QuietOps DEF Unevaluated
<1>4. lock[s] # p
  BY HolderStays
<1>5. ASSUME lock'[s] = p PROVE lock[s] = None /\ pc'[p] = "get"
  <2>1. Inside(p)' /\ loc'[p].src = s
    BY <1>5, HolderStays
  <2>2. Acts(p)
    BY <1>0, <2>1, Accepted DEF Starts, Inside
  <2>3. loc'[p].src = loc[p].src /\ loc'[p].op = loc[p].op
    BY <1>0, <2>1, <2>2, SameRequest DEF Inside
  <2>4. pc[p] = "lock"
    BY <2>1, <2>2, <2>3, Busy DEF Inside
  <2>5. Acquire(p)
    <3>1. pc[p] \notin {"idle", "lock", "done"} \/ Step(p)
      BY <2>2 DEF Acts, Fail
    <3> QED BY <1>0, <2>4, <3>1, Statement
  <2> QED BY <1>0, <2>1, <2>3, <2>5, GoesTo DEF Acquire
<1>6. \A labels : labels \subseteq Shown => (HolderAt(s, labels)' <=> HolderAt(s, labels))
  <2>1. "get" \notin Shown
    BY DEF Shown, Reporting, RunLabels
  <2> QED BY <1>4, <1>5, <2>1, HolderStays, HolderNext DEF HolderAt
<1>7. \A labels : labels \subseteq Shown /\ HolderAt(s, labels) =>
        lock'[s] = lock[s] /\ loc'[lock[s]] = loc[lock[s]]
  BY <1>4, <1>5, HolderStays DEF HolderAt
<1>8. /\ Reporting \subseteq Shown /\ {"degrade", "set_degraded"} \subseteq Shown
      /\ {"update_run"} \subseteq Shown
  BY DEF Shown
<1>9. PendingView'[s] = PendingView[s]
  BY <1>6, <1>7, <1>8 DEF PendingView
<1>10. AlarmView'[s] = AlarmView[s]
  BY <1>6, <1>8, AlarmShown
<1>11. \A i : LevelView(s, i)' = LevelView(s, i)
  BY <1>2, <1>6, <1>7, <1>8 DEF LevelView
<1>12. ReportsView'[s] = ReportsView[s]
  BY <1>2, <1>11, ReportsSame DEF SameRun
<1>13. ASSUME s # loc[p].src \/ ~InsertedSource(p) PROVE ModeView'[s] = ModeView[s]
  <2>1. sources'[s].state = sources[s].state
    BY <1>13, QuietSources
  <2> QED BY <2>1 DEF ModeView
<1> QED BY <1>3, <1>9, <1>10, <1>12, <1>13 DEF SameView

-----------------------------------------------------------------------------
(* The views of the source whose mutex p holds.                            *)

Level(state) == IF state \in {"candidate", "transient"} THEN "minor" ELSE state

RowShown(p, s, i) ==
  IF pc[p] = "update_run" /\ loc[p].row = i THEN loc[p].rowState ELSE events[s][i].state

LEMMA LevelShown ==
  ASSUME NEW s \in Sources, NEW i
  PROVE  /\ LevelView(s, i) =
              Level(IF HolderAt(s, {"update_run"}) /\ loc[lock[s]].row = i
                    THEN loc[lock[s]].rowState ELSE events[s][i].state)
         /\ LevelView(s, i)' =
              Level(IF HolderAt(s, {"update_run"})' /\ loc'[lock'[s]].row = i
                    THEN loc'[lock'[s]].rowState ELSE events'[s][i].state)
BY DEF LevelView, Level

LEMMA HolderViews ==
  ASSUME IInv, IInv', NEW p \in Procs, Acts(p), Inside(p), NEW s \in Sources, s = loc[p].src
  PROVE  /\ lock[s] = p
         /\ PendingView[s] = IF pc[p] \in Reporting THEN loc[p].seq ELSE 0
         /\ PendingView'[s] = IF pc'[p] \in Reporting THEN loc'[p].seq ELSE 0
         /\ AlarmView[s] = (pc[p] \in {"degrade", "set_degraded"})
         /\ AlarmView'[s] = (pc'[p] \in {"degrade", "set_degraded"})
         /\ \A i : LevelView(s, i) = Level(RowShown(p, s, i))
         /\ \A i : LevelView(s, i)' = Level(RowShown(p, s, i)')
<1>0. Typed /\ lock[s] = p
  BY HolderStays DEF IInv
<1>1. \A labels : HolderAt(s, labels) <=> pc[p] \in labels
  BY <1>0, Holder
<1>2. /\ \A labels : labels \subseteq Shown => (HolderAt(s, labels)' <=> pc'[p] \in labels)
      /\ pc'[p] \in Shown => lock'[s] = p
  <2>1. CASE lock'[s] = p
    BY <2>1, HolderNext
  <2>2. CASE lock'[s] # p
    <3>1. pc'[p] \in {"idle", "lock"}
      BY <1>0, <2>2, HolderStays, SameRequest DEF Inside
    <3>2. pc'[p] \notin Shown
      BY <3>1 DEF Shown, Reporting, RunLabels
    <3>3. lock'[s] = None
      <4>1. \A q \in Procs : q # p => lock'[s] # q
        <5>1. \A q \in Procs : q # p => pc'[q] = pc[q] /\ loc'[q] = loc[q]
          BY AloneAndGrowing DEF Moves
        <5>2. \A q \in Procs : q # p => (Inside(q)' <=> Inside(q))
          BY <5>1 DEF Inside
        <5>3. \A q \in Procs : (lock[s] = q) <=> (Inside(q) /\ loc[q].src = s)
          BY DEF IInv, LockDiscipline
        <5>4. \A q \in Procs : (lock'[s] = q) <=> (Inside(q)' /\ loc'[q].src = s)
          BY DEF IInv, LockDiscipline
        <5> QED BY <1>0, <5>1, <5>2, <5>3, <5>4
      <4>2. lock'[s] \in Procs \cup {None}
        BY DEF IInv, Typed, TypeOK, ProcsOK
      <4> QED BY <2>2, <4>1, <4>2
    <3> QED BY <3>2, <3>3 DEF HolderAt
  <2> QED BY <2>1, <2>2
<1>3. /\ Reporting \subseteq Shown /\ {"degrade", "set_degraded"} \subseteq Shown
      /\ {"update_run"} \subseteq Shown
  BY DEF Shown
<1>4. PendingView[s] = IF pc[p] \in Reporting THEN loc[p].seq ELSE 0
  BY <1>0, <1>1 DEF PendingView
<1>5. PendingView'[s] = IF pc'[p] \in Reporting THEN loc'[p].seq ELSE 0
  <2>1. PendingView'[s] = IF HolderAt(s, Reporting)' THEN loc'[lock'[s]].seq ELSE 0
    BY DEF PendingView
  <2>2. HolderAt(s, Reporting)' <=> pc'[p] \in Reporting
    BY <1>2, <1>3
  <2>3. pc'[p] \in Reporting => lock'[s] = p
    BY <1>2, <1>3
  <2> QED BY <2>1, <2>2, <2>3
<1>6. AlarmView[s] = (pc[p] \in {"degrade", "set_degraded"})
  BY <1>1, AlarmShown
<1>7. AlarmView'[s] = (pc'[p] \in {"degrade", "set_degraded"})
  BY <1>2, <1>3, AlarmShown
<1>8. ASSUME NEW i
      PROVE  LevelView(s, i) = Level(RowShown(p, s, i))
  BY <1>0, <1>1, LevelShown DEF RowShown
<1>9. ASSUME NEW i
      PROVE  LevelView(s, i)' = Level(RowShown(p, s, i)')
  <2>1. HolderAt(s, {"update_run"})' <=> pc'[p] = "update_run"
    BY <1>2, <1>3
  <2>2. pc'[p] = "update_run" => lock'[s] = p
    BY <1>2, <1>3
  <2> QED BY <2>1, <2>2, LevelShown DEF RowShown
<1> QED BY <1>0, <1>4, <1>5, <1>6, <1>7, <1>8, <1>9

\* Where p is not between the two UPDATEs of an event, its states are shown as they are.
LEMMA LevelsShown ==
  ASSUME IInv, IInv', NEW p \in Procs, Acts(p), Inside(p), NEW s \in Sources, s = loc[p].src
  PROVE  /\ pc[p] # "update_run" => \A i : LevelView(s, i) = Level(events[s][i].state)
         /\ pc'[p] # "update_run" => \A i : LevelView(s, i)' = Level(events'[s][i].state)
<1>1. ASSUME NEW i, pc[p] # "update_run" PROVE LevelView(s, i) = Level(events[s][i].state)
  <2>1. RowShown(p, s, i) = events[s][i].state
    BY <1>1 DEF RowShown
  <2>2. LevelView(s, i) = Level(RowShown(p, s, i))
    BY HolderViews
  <2> QED BY <2>1, <2>2
<1>2. ASSUME NEW i, pc'[p] # "update_run" PROVE LevelView(s, i)' = Level(events'[s][i].state)
  <2>1. RowShown(p, s, i)' = events'[s][i].state
    BY <1>2 DEF RowShown
  <2>2. LevelView(s, i)' = Level(RowShown(p, s, i)')
    BY HolderViews
  <2> QED BY <2>1, <2>2
<1> QED BY <1>1, <1>2

LEMMA LevelsSame ==
  ASSUME IInv, IInv', NEW p \in Procs, Acts(p), Inside(p), NEW s \in Sources, s = loc[p].src,
         pc[p] # "update_run", pc'[p] # "update_run", events'[s] = events[s]
  PROVE  ReportsView'[s] = ReportsView[s]
<1>1. ASSUME NEW i PROVE LevelView(s, i)' = LevelView(s, i)
  <2>1. LevelView(s, i) = Level(events[s][i].state)
    BY LevelsShown
  <2>2. LevelView(s, i)' = Level(events'[s][i].state)
    BY LevelsShown
  <2> QED BY <2>1, <2>2
<1> QED BY <1>1, ReportsSame DEF SameRun

\* Until SetDegraded the source is shown as it was.
LEMMA ModeSame ==
  ASSUME Quiet, IInv, Roles, NEW p \in Procs, KnownInv(p), Acts(p), Inside(p), ~SetDegraded(p),
         NEW s \in Sources
  PROVE  ModeView'[s] = ModeView[s]
<1>1. ~InsertedSource(p)
  BY DEF InsertedSource, At, Roles, Role, Inside
<1>2. SetObserving(p) /\ s = loc[p].src => Healthy(s)
  BY DEF SetObserving, WriteState, At, KnownInv, KnownLabels, CorrelatedLabels
<1> QED BY <1>1, <1>2, QuietSources DEF ModeView, Healthy

\* Before StoreLastSeq, and once the request is answered, nothing is shown.
LEMMA SilentStep ==
  ASSUME Quiet, IInv, IInv', Roles, NEW p \in Procs, KnownInv(p), Acts(p), Inside(p),
         NEW s \in Sources, s = loc[p].src,
         pc[p] \in {"get", "create", "evaluate", "status", "done"}
  PROVE  SameView(s)
<1>0. Typed /\ Step(p)
  BY DEF IInv, Acts, Fail, Quiet, Faultless
<1>1. /\ Refuse(p) \/ Admit(p) \/ CreateWindow(p) \/ CreateConflict(p) \/ StoreTest(p)
         \/ StoreStatus(p) \/ Return(p)
      /\ ~SetDegraded(p) /\ ~StoreLastSeq(p)
  BY <1>0, Statement DEF SetDegraded, StoreLastSeq, WriteState, At
<1>2. pc'[p] \notin Reporting \cup {"degrade", "set_degraded", "update_run"}
  BY <1>0, <1>1, Paths
  DEF Reporting, RunLabels, Refuse, Admit, CreateWindow, CreateConflict, StoreTest, StoreStatus,
      Return, StoreLastSeq, Observe, SetObserving, CountRun, ReadRestart, FindSettled, Settle,
      NoOpenEvent, FindOpenEvent, Raise, CreateEvent, ExtendRun, AutoDegrade, WriteState, At
<1>3. pc[p] \notin Reporting \cup {"degrade", "set_degraded", "update_run"}
  BY DEF Reporting, RunLabels
<1>4. LogView'[s] = LogView[s]
  BY <1>1, QuietSources, LogSame, ConfirmedSettled, QuietOps DEF Unevaluated
<1>5. events'[s] = events[s]
  BY <1>3, QuietEvents
  DEF Reporting, RunLabels, Settle, SettleClose, CreateEvent, Raise, ExtendRun, At
<1>7. ReportsView'[s] = ReportsView[s]
  BY <1>2, <1>3, <1>5, LevelsSame
<1>8. PendingView'[s] = PendingView[s] /\ AlarmView'[s] = AlarmView[s]
  BY <1>2, <1>3, HolderViews
<1> QED BY <1>1, <1>4, <1>7, <1>8, ModeSame DEF SameView

\* From SetLastSeq to the last statement of OnWindow, no statement shows.
LEMMA ReportingStep ==
  ASSUME Quiet, IInv, IInv', Roles, RowsNamed, NEW p \in Procs, KnownInv(p), Acts(p), Inside(p),
         NEW s \in Sources, s = loc[p].src,
         pc[p] \in Reporting, pc'[p] \in Reporting
  PROVE  SameView(s)
<1>0. Typed /\ Step(p)
  BY DEF IInv, Acts, Fail, Quiet, Faultless
<1>1. \/ Observe(p) \/ SetObserving(p) \/ CountRun(p) \/ ReadRestart(p) \/ FindSettled(p)
      \/ NoOpenEvent(p) \/ FindOpenEvent(p) \/ Settle(p) \/ Raise(p)
  <2>1. pc'[p] # "done" /\ pc'[p] # "degrade" /\ pc'[p] # "idle"
    BY DEF Reporting, RunLabels
  <2>2. ~Answer(p, "ok")
    BY <1>0, <2>1, AnswerGoesTo
  <2>3. ~Correlated(p)
    BY <1>0, <2>1, <2>2, GoesTo DEF Correlated
  <2>4. ~NothingToSettle(p) /\ ~SettleClose(p) /\ ~CreateEvent(p) /\ ~ExtendRun(p)
    BY <2>2, <2>3 DEF NothingToSettle, SettleClose, CreateEvent, ExtendRun
  <2> QED BY <1>0, <2>4, Statement DEF Reporting, RunLabels
<1>2. ~SetDegraded(p) /\ ~StoreLastSeq(p)
  BY DEF SetDegraded, StoreLastSeq, WriteState, At, Reporting, RunLabels
<1>3. LogView'[s] = LogView[s]
  BY <1>2, QuietSources, LogSame, ConfirmedSettled, QuietOps DEF Unevaluated
<1>4. PendingView'[s] = PendingView[s]
  <2>1. loc'[p].seq = loc[p].seq
    BY <1>0, Kept DEF Reporting, RunLabels
  <2> QED BY <2>1, HolderViews
<1>5. AlarmView'[s] = AlarmView[s]
  <2>1. pc[p] \notin {"degrade", "set_degraded"} /\ pc'[p] \notin {"degrade", "set_degraded"}
    BY DEF Reporting, RunLabels
  <2> QED BY <2>1, HolderViews
<1>6. ReportsView'[s] = ReportsView[s]
  <2>1. CASE Settle(p)
    <3>1. pc[p] = "settle" /\ pc'[p] = "settle_close"
      BY <1>0, <2>1, GoesTo DEF Settle, At
    <3>2. DOMAIN events'[s] = DOMAIN events[s] /\ ~ExtendRun(p)
      BY <1>0, <3>1, EventSteps DEF CreateEvent, ExtendRun, At
    <3>3. ASSUME NEW i \in DOMAIN events[s]
          PROVE  SameRun(s, i) /\ LevelView(s, i)' = LevelView(s, i)
      <4>1. SameRun(s, i)
        BY <1>0, <3>2, EventSteps
      <4>2. \/ events'[s][i].state = events[s][i].state
            \/ i = loc[p].row /\ events'[s][i].state = "transient"
        <5>1. ~SettleClose(p) /\ ~Raise(p) /\ ~SetConfirmed(p) /\ ~SetClosed(p)
          BY <3>1 DEF SettleClose, Raise, SetConfirmed, SetClosed, At
        <5> QED BY <1>0, <5>1, EventSteps
      <4>3. i = loc[p].row => events[s][i].state \in {"candidate", "transient"}
        BY <3>1 DEF KnownInv
      <4>4. LevelView(s, i) = Level(events[s][i].state)
        BY <3>1, LevelsShown
      <4>5. LevelView(s, i)' = Level(events'[s][i].state)
        BY <3>1, LevelsShown
      <4> QED BY <4>1, <4>2, <4>3, <4>4, <4>5 DEF Level
    <3> QED BY <3>2, <3>3, ReportsSame
  <2>2. CASE Raise(p)
    <3>1. pc[p] = "raise" /\ pc'[p] = "update_run" /\ loc' = loc
      BY <1>0, <2>2, GoesTo DEF Raise, At
    <3>2. DOMAIN events'[s] = DOMAIN events[s] /\ ~ExtendRun(p)
      BY <1>0, <3>1, EventSteps DEF CreateEvent, ExtendRun, At
    <3>3. ASSUME NEW i \in DOMAIN events[s]
          PROVE  SameRun(s, i) /\ LevelView(s, i)' = LevelView(s, i)
      <4>1. SameRun(s, i)
        BY <1>0, <3>2, EventSteps
      <4>2. i # loc[p].row => events'[s][i].state = events[s][i].state
        BY <1>0, EventSteps
      <4>3. i = loc[p].row => events[s][i].state = loc[p].rowState
        BY <3>1 DEF KnownInv
      <4>4. LevelView(s, i) = Level(events[s][i].state)
        BY <3>1, LevelsShown
      <4>5. RowShown(p, s, i)' = events[s][i].state
        BY <3>1, <4>2, <4>3 DEF RowShown
      <4>6. LevelView(s, i)' = Level(RowShown(p, s, i)')
        BY HolderViews
      <4> QED BY <4>1, <4>4, <4>5, <4>6
    <3> QED BY <3>2, <3>3, ReportsSame
  <2>3. CASE ~Settle(p) /\ ~Raise(p)
    <3>1. pc[p] # "update_run"
      BY <1>1, <2>3
      DEF Observe, SetObserving, CountRun, ReadRestart, FindSettled, NoOpenEvent, FindOpenEvent,
          WriteState, At
    <3>2. pc'[p] # "update_run"
      BY <1>0, <2>3, Paths
    <3>3. events'[s] = events[s]
      BY <1>1, <2>3, QuietEvents
      DEF Observe, SetObserving, CountRun, ReadRestart, FindSettled, NoOpenEvent, FindOpenEvent,
          WriteState, At, SettleClose, CreateEvent, ExtendRun
    <3> QED BY <3>1, <3>2, <3>3, LevelsSame
  <2> QED BY <2>1, <2>2, <2>3
<1> QED BY <1>2, <1>3, <1>4, <1>5, <1>6, ModeSame DEF SameView

\* The state machine never refuses Ingest's own degradation, and reading the state first
\* does not show.
LEMMA AutoDegradeStep ==
  ASSUME Quiet, IInv, IInv', Roles, NEW p \in Procs, SeenInv(p), KnownInv(p), Acts(p), Inside(p),
         NEW s \in Sources, s = loc[p].src, pc[p] = "degrade"
  PROVE  SameView(s)
<1>0. Typed /\ Step(p)
  BY DEF IInv, Acts, Fail, Quiet, Faultless
<1>1. AutoDegrade(p)
  <2>1. Left(s)
    BY DEF SeenInv, Finishing
  <2>2. Healthy(s)
    BY DEF KnownInv, KnownLabels, ShouldDegrade
  <2>3. sources[s].state \in DegradableStates
    BY <2>1, <2>2 DEF Left, Healthy, DegradableStates
  <2> QED BY <1>0, <2>3, Statement DEF AutoDegradeRefused
<1>2. pc'[p] = "set_degraded"
  BY <1>0, <1>1, GoesTo DEF AutoDegrade
<1>3. ~SetDegraded(p) /\ ~StoreLastSeq(p)
  BY DEF SetDegraded, StoreLastSeq, WriteState, At
<1>4. LogView'[s] = LogView[s]
  BY <1>3, QuietSources, LogSame, ConfirmedSettled, QuietOps DEF Unevaluated
<1>5. events'[s] = events[s]
  BY QuietEvents DEF Settle, SettleClose, CreateEvent, Raise, ExtendRun, At
<1>6. ReportsView'[s] = ReportsView[s]
  BY <1>2, <1>5, LevelsSame
<1>7. AlarmView'[s] = AlarmView[s]
  BY <1>2, HolderViews
<1>8. PendingView'[s] = PendingView[s]
  <2>1. pc[p] \notin Reporting /\ pc'[p] \notin Reporting
    BY <1>2 DEF Reporting, RunLabels
  <2> QED BY <2>1, HolderViews
<1> QED BY <1>3, <1>4, <1>6, <1>7, <1>8, ModeSame DEF SameView

-----------------------------------------------------------------------------
(* The steps that show.  Tracker's vocabulary is that of the service.      *)

LEMMA SameVocabulary ==
  /\ Abstract!Seqs = Seqs
  /\ \A x, hashes : Abstract!IsReplay(x, hashes) <=> IsReplay(x, hashes)
  /\ \A replay, x : /\ Abstract!ResolvedStatus(replay, x) = ResolvedStatus(replay, x)
                    /\ Abstract!ResolvedAnomaly(replay, x) = ResolvedAnomaly(replay, x)
<1>1. Abstract!Seqs = Seqs
  BY DEF Abstract!Seqs, Seqs
<1>2. ASSUME NEW x, NEW hashes PROVE Abstract!IsReplay(x, hashes) <=> IsReplay(x, hashes)
  BY DEF Abstract!IsReplay, IsReplay
<1>3. ASSUME NEW replay, NEW x PROVE Abstract!ResolvedStatus(replay, x) = ResolvedStatus(replay, x)
  BY DEF Abstract!ResolvedStatus, ResolvedStatus, Abstract!StatStatus, StatStatus
<1>4. ASSUME NEW replay, NEW x PROVE Abstract!ResolvedAnomaly(replay, x) = ResolvedAnomaly(replay, x)
  BY DEF Abstract!ResolvedAnomaly, ResolvedAnomaly, Abstract!StatAnomaly, StatAnomaly,
         Abstract!FirstFailing, FirstFailing, Abstract!RunOrder, RunOrder
<1> QED BY <1>1, <1>2, <1>3, <1>4

\* What is shown of the other sources stays as it is: a view changes at s or not at all.
LEMMA ShownAt ==
  ASSUME NEW s \in Sources, \A t \in Sources : t # s => SameView(t)
  PROVE  /\ ModeView' = [ModeView EXCEPT ![s] = ModeView'[s]]
         /\ LogView' = [LogView EXCEPT ![s] = LogView'[s]]
         /\ PendingView' = [PendingView EXCEPT ![s] = PendingView'[s]]
         /\ AlarmView' = [AlarmView EXCEPT ![s] = AlarmView'[s]]
         /\ ReportsView' = [ReportsView EXCEPT ![s] = ReportsView'[s]]
         /\ ModeView'[s] = ModeView[s] => ModeView' = ModeView
         /\ LogView'[s] = LogView[s] => LogView' = LogView
         /\ PendingView'[s] = PendingView[s] => PendingView' = PendingView
         /\ AlarmView'[s] = AlarmView[s] => AlarmView' = AlarmView
         /\ ReportsView'[s] = ReportsView[s] => ReportsView' = ReportsView
<1>1. /\ ModeView = [t \in Sources |-> ModeView[t]]
      /\ ModeView' = [t \in Sources |-> ModeView'[t]]
  BY DEF ModeView
<1>2. /\ LogView = [t \in Sources |-> LogView[t]]
      /\ LogView' = [t \in Sources |-> LogView'[t]]
  BY DEF LogView
<1>3. /\ PendingView = [t \in Sources |-> PendingView[t]]
      /\ PendingView' = [t \in Sources |-> PendingView'[t]]
  BY DEF PendingView
<1>4. /\ AlarmView = [t \in Sources |-> AlarmView[t]]
      /\ AlarmView' = [t \in Sources |-> AlarmView'[t]]
  BY DEF AlarmView
<1>5. /\ ReportsView = [t \in Sources |-> ReportsView[t]]
      /\ ReportsView' = [t \in Sources |-> ReportsView'[t]]
  BY DEF ReportsView
<1>6. \A t \in Sources : t # s =>
        /\ ModeView'[t] = ModeView[t] /\ LogView'[t] = LogView[t]
        /\ PendingView'[t] = PendingView[t] /\ AlarmView'[t] = AlarmView[t]
        /\ ReportsView'[t] = ReportsView[t]
  BY DEF SameView
<1>7. /\ ModeView' = [ModeView EXCEPT ![s] = ModeView'[s]]
      /\ ModeView'[s] = ModeView[s] => ModeView' = ModeView
  BY ONLY s \in Sources, <1>1, <1>6
<1>8. /\ LogView' = [LogView EXCEPT ![s] = LogView'[s]]
      /\ LogView'[s] = LogView[s] => LogView' = LogView
  BY ONLY s \in Sources, <1>2, <1>6
<1>9. /\ PendingView' = [PendingView EXCEPT ![s] = PendingView'[s]]
      /\ PendingView'[s] = PendingView[s] => PendingView' = PendingView
  BY ONLY s \in Sources, <1>3, <1>6
<1>10. /\ AlarmView' = [AlarmView EXCEPT ![s] = AlarmView'[s]]
       /\ AlarmView'[s] = AlarmView[s] => AlarmView' = AlarmView
  BY ONLY s \in Sources, <1>4, <1>6
<1>11. /\ ReportsView' = [ReportsView EXCEPT ![s] = ReportsView'[s]]
       /\ ReportsView'[s] = ReportsView[s] => ReportsView' = ReportsView
  BY ONLY s \in Sources, <1>5, <1>6
<1> QED BY <1>7, <1>8, <1>9, <1>10, <1>11

\* INSERT of the source is Register.
LEMMA RegisterShown ==
  ASSUME Quiet, IInv, IInv', Roles, NEW p \in Procs, Acts(p), InsertedSource(p)
  PROVE  \E s \in Sources : Abstract!Register(s)
<1>0. Typed /\ pc[p] = "insert_source"
  BY DEF IInv, InsertedSource, At
<1>1. loc[p].src \in Sources
  BY <1>0, LocalTyped DEF LocalsFit
<1> DEFINE s == loc[p].src
<1>2. ~Inside(p)
  BY <1>0 DEF Roles, Role, Inside
<1>3. \A t \in Sources : t # s => SameView(t)
  BY Elsewhere
<1>4. /\ LogView'[s] = LogView[s] /\ PendingView'[s] = PendingView[s]
      /\ AlarmView'[s] = AlarmView[s] /\ ReportsView'[s] = ReportsView[s]
  BY <1>1, <1>2, Elsewhere
<1>5. sources[s].state = "absent"
  BY DEF InsertedSource
<1>6. sources'[s].state = "enabled"
  BY <1>0, <1>1, SourceInserted DEF InsertedSource
<1>7. ModeView[s] = "absent" /\ ModeView'[s] = "healthy"
  BY <1>1, <1>5, <1>6 DEF ModeView
<1> HIDE DEF s
<1>8. Abstract!Register(s)
  BY <1>1, <1>3, <1>4, <1>7, ShownAt DEF Abstract!Register, s
<1> QED BY <1>1, <1>8 DEF s

\* UPDATE of the state to degraded is Degrade.
LEMMA DegradeShown ==
  ASSUME Quiet, IInv, IInv', Roles, NEW p \in Procs, Acts(p), Inside(p),
         NEW s \in Sources, s = loc[p].src, pc[p] = "set_degraded"
  PROVE  Abstract!Degrade(s)
<1>0. Typed /\ Step(p)
  BY DEF IInv, Acts, Fail, Quiet, Faultless
<1>1. SetDegraded(p)
  BY <1>0, Statement
<1>2. pc'[p] = "done"
  BY <1>0, <1>1, AnswerGoesTo DEF SetDegraded, Inside
<1>3. \A t \in Sources : t # s => SameView(t)
  BY Elsewhere
<1>4. LogView'[s] = LogView[s]
  BY QuietSources, LogSame, ConfirmedSettled, QuietOps
  DEF Unevaluated, StoreLastSeq, At
<1>5. events'[s] = events[s]
  BY QuietEvents DEF Settle, SettleClose, CreateEvent, Raise, ExtendRun, At
<1>6. ReportsView'[s] = ReportsView[s]
  BY <1>2, <1>5, LevelsSame
<1>7. PendingView'[s] = PendingView[s]
  <2>1. pc[p] \notin Reporting /\ pc'[p] \notin Reporting
    BY <1>2 DEF Reporting, RunLabels
  <2> QED BY <2>1, HolderViews
<1>8. AlarmView[s] = TRUE /\ AlarmView'[s] = FALSE
  <2>1. pc[p] \in {"degrade", "set_degraded"} /\ pc'[p] \notin {"degrade", "set_degraded"}
    BY <1>2
  <2>2. AlarmView[s] = (pc[p] \in {"degrade", "set_degraded"})
    BY HolderViews
  <2>3. AlarmView'[s] = (pc'[p] \in {"degrade", "set_degraded"})
    BY HolderViews
  <2>4. (pc[p] \in {"degrade", "set_degraded"}) = TRUE
    BY <2>1
  <2>5. (pc'[p] \in {"degrade", "set_degraded"}) = FALSE
    BY <2>1
  <2> QED BY <2>2, <2>3, <2>4, <2>5, Zenon
<1>9. sources'[s].state = "degraded"
  BY <1>0, <1>1, StateWritten DEF SetDegraded, WriteState
<1>10. ModeView'[s] = "degraded"
  BY <1>9 DEF ModeView
<1> QED BY <1>3, <1>4, <1>6, <1>7, <1>8, <1>10, ShownAt DEF Abstract!Degrade

LEMMA SameCardinality == \A S : Abstract!Cardinality(S) = Cardinality(S)
BY DEF Abstract!Cardinality, Cardinality

LogDomain(s) == {r \in Recorded(s) : r <= sources[s].lastSeq}

LEMMA LogShown ==
  ASSUME NEW s \in Sources
  PROVE  /\ LogView[s] = [q \in LogDomain(s) |-> windows[s][q]]
         /\ LogView'[s] = [q \in LogDomain(s)' |-> windows'[s][q]]
BY DEF LogView, LogDomain

\* What Tracker takes for the newest windows are those RecentWindows would read, from any
\* number with the same windows up to it.
LEMMA NewestShown ==
  ASSUME NEW s \in Sources, NEW q, {r \in Recorded(s) : r <= q} = LogDomain(s), NEW n
  PROVE  Abstract!Newest(s, n) = RecentWindows(s, q, n)
<1>1. DOMAIN LogView[s] = LogDomain(s)
  BY LogShown
<1>2. Abstract!Newest(s, n) = {r \in LogDomain(s) : Cardinality({t \in LogDomain(s) : t > r}) < n}
  <2>1. Abstract!Newest(s, n) =
          {r \in LogDomain(s) : Abstract!Cardinality({t \in LogDomain(s) : t > r}) < n}
    BY <1>1 DEF Abstract!Newest
  <2> QED BY <2>1, SameCardinality
<1>3. RecentWindows(s, q, n) = {r \in LogDomain(s) : Cardinality({t \in LogDomain(s) : t > r}) < n}
  BY DEF RecentWindows
<1> QED BY <1>2, <1>3

\* The log before SetLastSeq holds all recorded windows but the one that is judged.
LEMMA LogBefore ==
  ASSUME IInv, Frontier, NEW p \in Procs, pc[p] = "lastseq", NEW s \in Sources, s = loc[p].src,
         NEW q \in Seqs, q = loc[p].seq
  PROVE  /\ {r \in Recorded(s) : r <= q - 1} = LogDomain(s)
         /\ {r \in Recorded(s) : r <= q} = LogDomain(s) \cup {q}
         /\ q \in Recorded(s) /\ q \notin LogDomain(s)
<1>1. /\ Inside(p) /\ q > sources[s].lastSeq
      /\ windows[s][q].status # "none"
  BY InsideIngest DEF UnconfirmedLabels, Ahead, Evaluating, FinalStatuses, WindowStatuses
<1>2. sources[s].lastSeq \in Int
  BY TablesTyped DEF IInv, SourceRow
<1>3. ASSUME NEW k \in Recorded(s), k > sources[s].lastSeq PROVE k = q
  <2>1. PICK r \in Procs : On(r, s, k, {"evaluate", "status", "lastseq"})
    BY <1>3 DEF Frontier
  <2>2. Inside(r) /\ loc[r].src = s /\ loc[r].seq = k
    BY <2>1, IngestIsInside DEF On, IInv, IngestLabels
  <2>3. r = p
    BY <1>1, <2>2, OneInside
  <2> QED BY <2>2, <2>3
<1>4. \A k \in Recorded(s) : k \in Int
  BY DEF Recorded, Seqs
<1>5. q \in Recorded(s) /\ q \in Int
  BY <1>1 DEF Recorded, Seqs
<1>6. ASSUME NEW k \in Recorded(s)
      PROVE  /\ (k <= q - 1) <=> (k <= sources[s].lastSeq)
             /\ (k <= q) <=> (k <= sources[s].lastSeq \/ k = q)
  <2>1. k > sources[s].lastSeq => k = q
    BY <1>3
  <2>2. k \in Int /\ q \in Int /\ q > sources[s].lastSeq
    BY <1>1, <1>4, <1>5
  <2> QED BY ONLY <1>2, <2>1, <2>2
<1>7. {r \in Recorded(s) : r <= q - 1} = LogDomain(s)
  BY <1>6 DEF LogDomain
<1>8. {r \in Recorded(s) : r <= q} = LogDomain(s) \cup {q}
  BY <1>5, <1>6 DEF LogDomain
<1>9. q \notin LogDomain(s)
  BY <1>1, <1>2, <1>5 DEF LogDomain
<1> QED BY <1>5, <1>7, <1>8, <1>9

\* UPDATE of last_seq is Judge.
LEMMA JudgeShown ==
  ASSUME Quiet, IInv, IInv', Roles, Frontier, Judged, NEW p \in Procs, JudgeInv(p), KnownInv(p),
         Acts(p), Inside(p), NEW s \in Sources, s = loc[p].src, pc[p] = "lastseq"
  PROVE  \E q \in Seqs, x \in Samples : Abstract!Judge(s, q, x)
<1> DEFINE q == loc[p].seq
           x == loc[p].sample
<1>0. Typed /\ Step(p)
  BY DEF IInv, Acts, Fail, Quiet, Faultless
<1>1. StoreLastSeq(p)
  BY <1>0, Statement
<1>2. /\ q \in Seqs /\ x \in Samples /\ q > sources[s].lastSeq
      /\ sources[s].state # "absent"
      /\ windows[s][q].status \in FinalStatuses
  BY InsideIngest DEF UnconfirmedLabels, Ahead, Evaluating
<1>3. x \in WellSized /\ windows[s][q].sample = x
  BY <1>2 DEF JudgeInv, UnconfirmedLabels
<1> HIDE DEF q, x
<1>4. /\ {r \in Recorded(s) : r <= q - 1} = LogDomain(s)
      /\ {r \in Recorded(s) : r <= q} = LogDomain(s) \cup {q}
      /\ q \in Recorded(s) /\ q \notin LogDomain(s)
  BY <1>2, LogBefore DEF q
<1>5. \A t \in Sources : t # s => SameView(t)
  BY Elsewhere
<1>6. UNCHANGED windows /\ sources'[s].lastSeq = q /\ loc' = loc
  BY <1>0, <1>1, LastSeqWritten DEF StoreLastSeq, notSources, q
<1>7. pc'[p] \in {"observe", "recent"}
  BY <1>0, <1>1, GoesTo DEF StoreLastSeq
<1>8. ModeView'[s] = ModeView[s] /\ ModeView[s] # "absent"
  <2>1. ModeView'[s] = ModeView[s]
    BY ModeSame DEF SetDegraded, WriteState, At
  <2> QED BY <1>2, <2>1 DEF ModeView
<1>9. PendingView[s] = 0 /\ PendingView'[s] = q
  <2>1. pc[p] \notin Reporting /\ pc'[p] \in Reporting
    BY <1>7 DEF Reporting, RunLabels
  <2> QED BY <1>6, <2>1, HolderViews DEF q
<1>10. AlarmView[s] = FALSE /\ AlarmView'[s] = FALSE
  <2>1. AlarmView[s] = (pc[p] \in {"degrade", "set_degraded"})
    BY HolderViews
  <2>2. AlarmView'[s] = (pc'[p] \in {"degrade", "set_degraded"})
    BY HolderViews
  <2>3. (pc[p] \in {"degrade", "set_degraded"}) = FALSE
    OBVIOUS
  <2>4. (pc'[p] \in {"degrade", "set_degraded"}) = FALSE
    BY <1>7
  <2> QED BY <2>1, <2>2, <2>3, <2>4, Zenon
<1>11. ReportsView'[s] = ReportsView[s]
  <2>1. events'[s] = events[s]
    BY QuietEvents DEF Settle, SettleClose, CreateEvent, Raise, ExtendRun, At
  <2> QED BY <1>7, <2>1, LevelsSame
<1> DEFINE earlier == {LogView[s][r].sample : r \in Abstract!Newest(s, 1) \cup Abstract!Newest(s, Lookback)}
           replay == IsReplay(x, earlier)
           entry == [status |-> ResolvedStatus(replay, x),
                     anomaly |-> ResolvedAnomaly(replay, x), sample |-> x]
<1>12. earlier = Earlier(s, q)
  <2>1. \A n : Abstract!Newest(s, n) = RecentWindows(s, q - 1, n)
    BY <1>4, NewestShown
  <2>2. \A n : RecentWindows(s, q - 1, n) \subseteq LogDomain(s)
    BY <1>4 DEF RecentWindows
  <2>3. \A r \in LogDomain(s) : LogView[s][r] = windows[s][r]
    BY LogShown
  <2>4. \A r \in RecentWindows(s, q - 1, 1) \cup RecentWindows(s, q - 1, Lookback) :
          LogView[s][r].sample = windows[s][r].sample
    BY <2>2, <2>3
  <2> QED BY <2>1, <2>4 DEF Earlier
<1>13. windows[s][q] = entry
  <2>1. replay = Replayed(s, q)
    BY <1>3, <1>12 DEF Replayed
  <2>2. /\ windows[s][q].status = ResolvedStatus(replay, x)
        /\ windows[s][q].anomaly = ResolvedAnomaly(replay, x)
    BY <1>2, <1>3, <1>4, <2>1 DEF Judged, JudgedRight, FinalStatuses
  <2>3. windows[s][q] \in WindowRow
    BY <1>0, <1>2, TablesTyped
  <2> HIDE DEF replay
  <2> QED BY <1>3, <2>2, <2>3 DEF WindowRow
<1> HIDE DEF earlier, replay, entry
<1>14. LogView'[s] = [r \in DOMAIN LogView[s] \cup {q} |-> IF r = q THEN entry ELSE LogView[s][r]]
  <2>1. LogDomain(s)' = LogDomain(s) \cup {q}
    BY <1>4, <1>6 DEF LogDomain, Recorded
  <2>2. DOMAIN LogView[s] = LogDomain(s)
    BY LogShown
  <2>3. LogView'[s] = [r \in LogDomain(s) \cup {q} |-> windows[s][r]]
    BY <1>6, <2>1, LogShown
  <2>4. \A r \in LogDomain(s) \cup {q} :
          windows[s][r] = IF r = q THEN entry ELSE LogView[s][r]
    BY <1>13, LogShown, ZenonT(60)
  <2> QED BY <2>2, <2>3, <2>4
<1>15. \A r \in DOMAIN LogView[s] : r < q
  <2>1. DOMAIN LogView[s] = {r \in Recorded(s) : r <= q - 1}
    BY <1>4, LogShown
  <2> QED BY <1>2, <2>1 DEF Recorded, Seqs
<1>16. LogView' = [LogView EXCEPT ![s] =
                     [r \in DOMAIN @ \cup {q} |-> IF r = q THEN entry ELSE @[r]]]
  <2>1. LogView' = [LogView EXCEPT ![s] = LogView'[s]]
    BY <1>5, ShownAt
  <2> QED BY <1>14, <2>1
<1>17. /\ PendingView' = [PendingView EXCEPT ![s] = q]
       /\ UNCHANGED <<ModeView, AlarmView, ReportsView>>
  BY <1>5, <1>8, <1>9, <1>10, <1>11, ShownAt
<1>18. Abstract!Judge(s, q, x)
  BY <1>3, <1>8, <1>9, <1>10, <1>15, <1>16, <1>17, SameVocabulary
  DEF Abstract!Judge, entry, replay, earlier
<1> QED BY <1>2, <1>18

ReportAt(s, i) ==
  [level |-> LevelView(s, i), anomaly |-> events[s][i].anomaly,
   first |-> events[s][i].firstSeq, last |-> events[s][i].lastSeq,
   count |-> events[s][i].windowCount]

LEMMA ReportsShown ==
  ASSUME NEW s \in Sources
  PROVE  /\ ReportsView[s] = [i \in DOMAIN events[s] |-> ReportAt(s, i)]
         /\ ReportsView'[s] = [i \in DOMAIN events'[s] |-> ReportAt(s, i)']
BY DEF ReportsView, ReportAt

LEMMA ReportSame ==
  ASSUME NEW s \in Sources, NEW i, SameRun(s, i), LevelView(s, i)' = LevelView(s, i)
  PROVE  ReportAt(s, i)' = ReportAt(s, i)
BY DEF ReportAt, SameRun

\* The window p reports is the newest of the log.
LEMMA PendingWindow ==
  ASSUME IInv, IInv', Reports, NEW p \in Procs, RunInv(p), KnownInv(p), Acts(p), Inside(p),
         NEW s \in Sources, s = loc[p].src, pc[p] \in RunLabels
  PROVE  /\ PendingView[s] = loc[p].seq /\ loc[p].seq \in Seqs
         /\ loc[p].seq = sources[s].lastSeq /\ loc[p].seq \in Recorded(s)
         /\ LogView[s][loc[p].seq].status = loc[p].status
         /\ LogView[s][loc[p].seq].anomaly = loc[p].anomaly
         /\ \A q \in LogDomain(s) : LogView[s][q] = windows[s][q]
         /\ LogDomain(s) = {r \in Recorded(s) : r <= loc[p].seq}
         /\ AlarmView[s] = FALSE
<1>1. Correlating(p)
  BY DEF Correlating, Finishing
<1>2. loc[p].seq = sources[s].lastSeq /\ loc[p].seq \in Recorded(s)
  BY <1>1, CorrelatedWindow
<1>3. PendingView[s] = loc[p].seq
  BY HolderViews DEF Reporting
<1>4. loc[p].seq \in Seqs /\ loc[p].seq \in LogDomain(s)
  BY <1>2 DEF LogDomain, Recorded, Seqs
<1>5. \A q \in LogDomain(s) : LogView[s][q] = windows[s][q]
  BY LogShown
<1>6. windows[s][loc[p].seq].status = loc[p].status
  BY <1>1 DEF RunInv
<1>7. windows[s][loc[p].seq].anomaly = loc[p].anomaly
  BY DEF KnownInv, CorrelatedLabels
<1>8. AlarmView[s] = FALSE
  <2>1. AlarmView[s] = (pc[p] \in {"degrade", "set_degraded"})
    BY HolderViews
  <2>2. (pc[p] \in {"degrade", "set_degraded"}) = FALSE
    BY DEF RunLabels
  <2> QED BY <2>1, <2>2, Zenon
<1>9. LogDomain(s) = {r \in Recorded(s) : r <= loc[p].seq}
  BY <1>2 DEF LogDomain
<1> QED BY <1>2, <1>3, <1>4, <1>5, <1>6, <1>7, <1>8, <1>9

\* What ReportWindow leaves alone.
LEMMA ReportFrame ==
  ASSUME Quiet, IInv, IInv', Roles, NEW p \in Procs, KnownInv(p), Acts(p), Inside(p),
         NEW s \in Sources, s = loc[p].src,
         pc[p] \in RunLabels, pc'[p] \in {"done", "degrade"}
  PROVE  /\ PendingView' = [PendingView EXCEPT ![s] = 0]
         /\ UNCHANGED <<ModeView, LogView>>
         /\ \A t \in Sources : t # s => SameView(t)
<1>1. \A t \in Sources : t # s => SameView(t)
  BY Elsewhere
<1>2. LogView'[s] = LogView[s]
  BY QuietSources, LogSame, ConfirmedSettled, QuietOps
  DEF Unevaluated, StoreLastSeq, At, RunLabels
<1>3. ModeView'[s] = ModeView[s]
  BY ModeSame DEF SetDegraded, WriteState, At, RunLabels
<1>4. PendingView'[s] = 0
  <2>1. pc'[p] \notin Reporting
    BY DEF Reporting, RunLabels
  <2> QED BY <2>1, HolderViews
<1> QED BY <1>1, <1>2, <1>3, <1>4, ShownAt

\* A minor report stands for an event that OpenForSource finds.
LEMMA MinorIsOpen ==
  ASSUME Typed, OpenEventNewest, NEW s \in Sources, NEW i \in DOMAIN events[s],
         Level(events[s][i].state) = "minor"
  PROVE  /\ events[s][i].state \in {"candidate", "transient"}
         /\ i \in OpenForSource(s) /\ i = Len(events[s])
<1>1. events[s][i].state \in EventStates
  <2>1. events[s] \in Seq(EventRow)
    BY TablesTyped
  <2>2. events[s][i] \in EventRow
    BY <2>1, SeqElement
  <2> QED BY <2>2 DEF EventRow
<1>2. events[s][i].state \in {"candidate", "transient"}
  BY <1>1 DEF Level, EventStates
<1>3. Open(s, i) /\ i = Len(events[s])
  BY <1>2 DEF Open, OpenEventNewest
<1>4. \A j \in DOMAIN events[s] : Open(s, j) => j = i
  BY <1>3 DEF OpenEventNewest
<1>5. \A j \in DOMAIN events[s] : j > i => ~Open(s, j)
  <2>1. i \in Int
    <3>1. DOMAIN events[s] = 1..Len(events[s])
      BY TablesTyped
    <3> QED BY <3>1
  <2> QED BY <1>4, <2>1
<1> QED BY <1>2, <1>3, <1>5 DEF OpenForSource

Settling(r) == IF r.level = "minor" THEN [r EXCEPT !.level = "closed"] ELSE r

\* A row at a time, or all of them.
LEMMA SettledReports ==
  ASSUME NEW s \in Sources, DOMAIN events'[s] = DOMAIN events[s],
         \A i \in DOMAIN events[s] : ReportAt(s, i)' = Settling(ReportAt(s, i))
  PROVE  ReportsView'[s] = [i \in DOMAIN ReportsView[s] |-> Settling(ReportsView[s][i])]
<1>1. /\ ReportsView[s] = [i \in DOMAIN events[s] |-> ReportAt(s, i)]
      /\ ReportsView'[s] = [i \in DOMAIN events[s] |-> ReportAt(s, i)']
  BY ReportsShown
<1>2. /\ DOMAIN ReportsView[s] = DOMAIN events[s]
      /\ \A i \in DOMAIN events[s] : ReportsView[s][i] = ReportAt(s, i)
  BY ONLY <1>1
<1>3. [i \in DOMAIN events[s] |-> ReportAt(s, i)'] = [i \in DOMAIN events[s] |-> Settling(ReportsView[s][i])]
  BY ONLY <1>2, \A i \in DOMAIN events[s] : ReportAt(s, i)' = Settling(ReportAt(s, i))
<1> QED BY ONLY <1>1, <1>2, <1>3

\* A valid window: nothing to settle, or the second UPDATE of the event, is Settle.
LEMMA SettleShown ==
  ASSUME Quiet, IInv, IInv', Roles, RowsNamed, Reports, OpenEventNewest, NEW p \in Procs,
         OpenInv(p), RunInv(p), KnownInv(p), Acts(p), Inside(p), NEW s \in Sources, s = loc[p].src,
         NothingToSettle(p) \/ SettleClose(p)
  PROVE  Abstract!ReportWindow(s)
<1>0. Typed
  BY DEF IInv
<1>1. pc[p] \in RunLabels /\ pc[p] \in {"open", "settle_close"} /\ pc'[p] = "done"
  <2>1. pc'[p] = "done"
    BY <1>0, AnswerGoesTo DEF NothingToSettle, SettleClose, Inside
  <2> QED BY <2>1 DEF NothingToSettle, SettleClose, At, RunLabels
<1>2. /\ PendingView[s] = loc[p].seq /\ loc[p].seq # 0
      /\ LogView[s][loc[p].seq].status = loc[p].status
      /\ AlarmView[s] = FALSE
  <2>1. /\ PendingView[s] = loc[p].seq /\ loc[p].seq \in Seqs
        /\ LogView[s][loc[p].seq].status = loc[p].status
        /\ AlarmView[s] = FALSE
    BY <1>1, PendingWindow
  <2> QED BY <2>1 DEF Seqs
<1>3. /\ PendingView' = [PendingView EXCEPT ![s] = 0]
      /\ UNCHANGED <<ModeView, LogView>>
      /\ \A t \in Sources : t # s => SameView(t)
  BY <1>1, ReportFrame
<1>4. loc[p].status = "valid"
  BY DEF NothingToSettle, SettleClose, At, Reports, ReportInv, Anomalous
<1>5. UNCHANGED AlarmView
  <2>1. AlarmView'[s] = (pc'[p] \in {"degrade", "set_degraded"})
    BY HolderViews
  <2>2. (pc'[p] \in {"degrade", "set_degraded"}) = FALSE
    BY <1>1
  <2>3. AlarmView'[s] = AlarmView[s]
    BY <1>2, <2>1, <2>2, Zenon
  <2> QED BY <1>3, <2>3, ShownAt
<1>6. /\ \A i : LevelView(s, i) = Level(events[s][i].state)
      /\ \A i : LevelView(s, i)' = Level(events'[s][i].state)
  BY <1>1, LevelsShown
<1>7. DOMAIN events'[s] = DOMAIN events[s] /\ ~ExtendRun(p)
  BY <1>0, <1>1, EventSteps DEF CreateEvent, ExtendRun, At
<1>8. ASSUME NEW i \in DOMAIN events[s] PROVE ReportAt(s, i)' = Settling(ReportAt(s, i))
  <2>1. SameRun(s, i)
    BY <1>0, <1>7, EventSteps
  <2>2. ReportAt(s, i).level = Level(events[s][i].state)
    BY <1>6 DEF ReportAt
  <2>3. CASE NothingToSettle(p)
    <3>1. ReportAt(s, i).level # "minor"
      <4>1. \A j \in OpenForSource(s) : events[s][j].state \notin {"candidate", "transient"}
        BY <2>3 DEF NothingToSettle, Settled, Quiet, Faultless
      <4> QED BY <1>0, <2>2, <4>1, MinorIsOpen
    <3>2. events' = events
      BY <2>3 DEF NothingToSettle, tables
    <3>3. LevelView(s, i)' = LevelView(s, i)
      BY <1>6, <3>2
    <3> QED BY <2>1, <3>1, <3>3, ReportSame DEF Settling
  <2>4. CASE SettleClose(p)
    <3>1. pc[p] = "settle_close" /\ loc[p].row \in DOMAIN events[s]
      BY <2>4 DEF SettleClose, At, RowsNamed, RowNamed, EventLabels
    <3>2. SetState(s, loc[p].row, "closed", FALSE, TRUE)
      BY <2>4 DEF SettleClose
    <3>3. events[s][loc[p].row].state = "transient"
      BY <3>1 DEF KnownInv
    <3>4. CASE i = loc[p].row
      <4>0. loc[p].row \in DOMAIN events[s]
        BY <3>1
      <4>1. events'[s][loc[p].row].state = "closed"
        BY ONLY <1>0, s \in Sources, <3>2, <4>0, StateSet, ZenonT(60)
      <4>2. LevelView(s, i) = "minor" /\ LevelView(s, i)' = "closed"
        BY <1>6, <3>3, <3>4, <4>1 DEF Level
      <4> QED BY <2>1, <4>2 DEF ReportAt, SameRun, Settling
    <3>5. CASE i # loc[p].row
      <4>1. events'[s][i].state = events[s][i].state
        BY <1>0, <3>5, EventSteps
      <4>2. LevelView(s, i)' = LevelView(s, i)
        BY <1>6, <4>1
      <4>3. ReportAt(s, i).level # "minor"
        <5>1. SUFFICES ASSUME Level(events[s][i].state) = "minor" PROVE FALSE
          BY <2>2
        <5>2. i = Len(events[s])
          BY <1>0, <5>1, MinorIsOpen
        <5>3. loc[p].row = Len(events[s])
          BY <3>1, <3>3 DEF OpenEventNewest, Open
        <5> QED BY <3>5, <5>2, <5>3
      <4> QED BY <2>1, <4>2, <4>3, ReportSame DEF Settling
    <3> QED BY <3>4, <3>5
  <2> QED BY <2>3, <2>4
<1>9. ReportsView'[s] = [i \in DOMAIN ReportsView[s] |-> Settling(ReportsView[s][i])]
  BY <1>7, <1>8, SettledReports
<1>10. ReportsView' = [ReportsView EXCEPT ![s] =
                         [i \in DOMAIN @ |-> IF @[i].level = "minor"
                                             THEN [@[i] EXCEPT !.level = "closed"] ELSE @[i]]]
  <2>1. ReportsView' = [ReportsView EXCEPT ![s] = ReportsView'[s]]
    BY <1>3, ShownAt
  <2> QED BY <1>9, <2>1 DEF Settling
<1>11. Abstract!Settle(s)
  BY <1>2, <1>4, <1>5, <1>10 DEF Abstract!Settle
<1> QED BY <1>2, <1>3, <1>11 DEF Abstract!ReportWindow

\* The run Tracker finds at the end of the log is the one CountRun counted.
LEMMA RunShown ==
  ASSUME IInv, IInv', Reports, NEW p \in Procs, RunInv(p), KnownInv(p), Acts(p), Inside(p),
         NEW s \in Sources, s = loc[p].src, pc[p] \in {"create_event", "update_run"}
  PROVE  /\ Abstract!AnomalousTail(s) = TailRun(s, loc[p].seq)
         /\ Abstract!Cardinality(TailRun(s, loc[p].seq)) = loc[p].runLen
         /\ (CHOOSE q \in TailRun(s, loc[p].seq) : \A r \in TailRun(s, loc[p].seq) : q <= r)
              = loc[p].firstSeq
<1>1. pc[p] \in RunLabels
  BY DEF RunLabels
<1> DEFINE q == loc[p].seq
           run == TailRun(s, q)
           recent == RecentWindows(s, q, PersistentThreshold + 2)
<1>2. /\ q \in Recorded(s) /\ {r \in Recorded(s) : r <= q} = LogDomain(s)
      /\ \A r \in LogDomain(s) : LogView[s][r] = windows[s][r]
  BY <1>1, PendingWindow
<1>3. /\ loc[p].runLen = Cardinality(run)
      /\ run # {} => loc[p].firstSeq \in run /\ \A r \in run : loc[p].firstSeq <= r
      /\ windows[s][q].status # "valid"
  BY <1>1 DEF RunInv, Correlating, Finishing, Anomalous
<1> HIDE DEF q
<1>4. run \subseteq recent /\ recent \subseteq LogDomain(s) /\ LogDomain(s) \subseteq Int
  <2>1. recent \subseteq LogDomain(s)
    BY <1>2 DEF RecentWindows
  <2> QED BY <2>1 DEF TailRun, LogDomain, Recorded, Seqs
<1>5. Abstract!Newest(s, PersistentThreshold + 2) = recent
  BY <1>2, NewestShown
<1>6. Abstract!AnomalousTail(s) = run
  <2>1. Abstract!AnomalousTail(s) =
          {k \in recent : \A r \in recent : r >= k => LogView[s][r].status # "valid"}
    BY <1>5 DEF Abstract!AnomalousTail
  <2>2. \A r \in recent : LogView[s][r] = windows[s][r]
    BY <1>2, <1>4
  <2>3. run = {k \in recent : \A r \in recent : r >= k => windows[s][r].status # "valid"}
    BY DEF TailRun
  <2> HIDE DEF run, recent
  <2> QED BY <2>1, <2>2, <2>3
<1>7. q \in run
  BY <1>2, <1>3, TailIsInterval
<1> HIDE DEF run, recent
<1>8. (CHOOSE k \in run : \A r \in run : k <= r) = loc[p].firstSeq
  <2>1. loc[p].firstSeq \in run /\ \A r \in run : loc[p].firstSeq <= r
    BY <1>3, <1>7
  <2>2. \A k \in run : (\A r \in run : k <= r) => k = loc[p].firstSeq
    BY <1>4, <2>1
  <2> QED BY <2>1, <2>2
<1>9. Abstract!Cardinality(run) = loc[p].runLen
  BY <1>3, SameCardinality
<1> QED BY <1>6, <1>8, <1>9 DEF run, q

\* What OnWindow makes of an event it opens or extends.
Reported(p, level) ==
  [level |-> IF Persistent(p) THEN "persistent" ELSE level, anomaly |-> loc[p].anomaly,
   first |-> loc[p].firstSeq, last |-> loc[p].seq, count |-> loc[p].runLen]

LEMMA CreatedShown ==
  ASSUME IInv, IInv', NEW p \in Procs, Acts(p), Inside(p), CreateEvent(p),
         pc'[p] # "update_run", NEW s \in Sources, s = loc[p].src
  PROVE  ReportsView'[s] = Append(ReportsView[s], Reported(p, "minor"))
<1>0. Typed /\ pc[p] = "create_event"
  BY DEF IInv, CreateEvent, At
<1>1. Len(events[s]) \in Nat
  BY <1>0, TablesTyped, LenProperties
<1>2. PICK n \in Nat : n = Len(events[s]) + 1
  BY <1>1
<1>3. /\ Len(events[s]) \in Nat /\ DOMAIN events[s] = 1..Len(events[s])
      /\ DOMAIN events'[s] = 1..n
      /\ events'[s][n].state = RunState(p) /\ RunOf(p, s, n)
      /\ \A i \in DOMAIN events[s] : SameRun(s, i) /\ events'[s][i].state = events[s][i].state
  <2>1. DOMAIN events'[s] # DOMAIN events[s] \/ Len(events'[s]) # Len(events[s])
    <3>1. events[s] \in Seq(EventRow)
      BY <1>0, TablesTyped
    <3>2. \E row : InsertEvent(s, row)
      BY DEF CreateEvent
    <3>3. Len(events'[s]) = Len(events[s]) + 1 /\ Len(events[s]) \in Nat
      BY <1>0, <3>2, EventInserted
    <3> QED BY ONLY <3>3
  <2>2. ~ExtendRun(p) /\ ~Settle(p) /\ ~SettleClose(p) /\ ~Raise(p) /\ ~SetConfirmed(p) /\ ~SetClosed(p)
    BY <1>0 DEF ExtendRun, Settle, SettleClose, Raise, SetConfirmed, SetClosed, At
  <2> QED BY <1>0, <1>2, <2>1, <2>2, EventSteps
<1>4. /\ \A i : LevelView(s, i) = Level(events[s][i].state)
      /\ \A i : LevelView(s, i)' = Level(events'[s][i].state)
  BY <1>0, LevelsShown
<1>5. \A i \in DOMAIN events[s] : ReportAt(s, i)' = ReportAt(s, i)
  BY <1>3, <1>4, ReportSame
<1>6. ReportAt(s, n)' = Reported(p, "minor")
  <2>1. Level(RunState(p)) = IF Persistent(p) THEN "persistent" ELSE "minor"
    BY DEF Level, RunState
  <2>2. LevelView(s, n)' = IF Persistent(p) THEN "persistent" ELSE "minor"
    BY <1>3, <1>4, <2>1
  <2> QED BY <1>3, <2>2 DEF ReportAt, Reported, RunOf
<1>7. /\ ReportsView[s] = [i \in 1..Len(events[s]) |-> ReportAt(s, i)]
      /\ ReportsView'[s] = [i \in 1..n |-> ReportAt(s, i)']
  BY <1>3, ReportsShown
<1> DEFINE new == Reported(p, "minor")
<1> HIDE DEF new
<1>8. /\ Len(ReportsView[s]) = Len(events[s])
      /\ \A i \in 1..Len(events[s]) : ReportsView[s][i] = ReportAt(s, i)
  BY <1>3, <1>7
<1>9. Append(ReportsView[s], new) =
        [i \in 1..n |-> IF i = n THEN new ELSE ReportsView[s][i]]
  BY <1>3, <1>2, <1>7, <1>8
<1>10. \A i \in 1..n : ReportAt(s, i)' = IF i = n THEN new ELSE ReportsView[s][i]
  <2>1. \A i \in 1..n : i # n => i \in 1..Len(events[s])
    BY <1>3, <1>2
  <2>2. \A i \in DOMAIN events[s] : ReportAt(s, i)' = ReportsView[s][i]
    BY <1>3, <1>5, <1>8
  <2>3. ReportAt(s, n)' = new
    BY <1>6 DEF new
  <2> QED BY <1>3, <2>1, <2>2, <2>3
<1>11. ReportsView'[s] = [i \in 1..n |-> IF i = n THEN new ELSE ReportsView[s][i]]
  BY <1>7, <1>10
<1> QED BY <1>9, <1>11 DEF new

LEMMA ExtendedShown ==
  ASSUME IInv, IInv', NEW p \in Procs, RowNamed(p), KnownInv(p), Acts(p), Inside(p), ExtendRun(p),
         pc'[p] # "update_run", NEW s \in Sources, s = loc[p].src, NEW i, i = loc[p].row
  PROVE  /\ i \in DOMAIN ReportsView[s] /\ ReportsView[s][i].level # "closed"
         /\ ReportsView'[s] = [ReportsView[s] EXCEPT ![i] = Reported(p, ReportsView[s][i].level)]
<1>0. Typed /\ pc[p] = "update_run"
  BY DEF IInv, ExtendRun, At
<1>1. /\ i \in DOMAIN events[s]
      /\ events[s][i].state = RaisedState(p) /\ loc[p].rowState # "closed"
  BY <1>0 DEF RowNamed, EventLabels, KnownInv
<1>2. /\ DOMAIN events'[s] = DOMAIN events[s]
      /\ \A j \in DOMAIN events[s] : events'[s][j].state = events[s][j].state
      /\ \A j \in DOMAIN events[s] : j # i => SameRun(s, j)
      /\ RunOf(p, s, i)
  <2>1. ~CreateEvent(p) /\ ~Settle(p) /\ ~SettleClose(p) /\ ~Raise(p) /\ ~SetConfirmed(p) /\ ~SetClosed(p)
    BY <1>0 DEF CreateEvent, Settle, SettleClose, Raise, SetConfirmed, SetClosed, At
  <2>2. UpdateRun(s, i, loc[p].firstSeq, loc[p].seq, loc[p].runLen, loc[p].anomaly, loc[p].after)
    BY DEF ExtendRun
  <2>3. RunOf(p, s, i)
    BY <1>0, <1>1, <2>2, RunUpdated DEF RunOf
  <2> QED BY <1>0, <2>1, <2>3, EventSteps
<1>3. /\ LevelView(s, i) = Level(loc[p].rowState)
      /\ \A j : j # i => LevelView(s, j) = Level(events[s][j].state)
  <2>1. \A j : LevelView(s, j) = Level(RowShown(p, s, j))
    BY HolderViews
  <2>2. /\ RowShown(p, s, i) = loc[p].rowState
        /\ \A j : j # i => RowShown(p, s, j) = events[s][j].state
    BY <1>0 DEF RowShown
  <2> QED BY <2>1, <2>2
<1>4. \A j : LevelView(s, j)' = Level(events'[s][j].state)
  BY LevelsShown
<1>5. \A j \in DOMAIN events[s] : j # i => ReportAt(s, j)' = ReportAt(s, j)
  <2>1. \A j \in DOMAIN events[s] : j # i => LevelView(s, j)' = LevelView(s, j)
    BY <1>2, <1>3, <1>4
  <2> QED BY <1>2, <2>1, ReportSame
<1>6. LevelView(s, i)' = IF Persistent(p) THEN "persistent" ELSE LevelView(s, i)
  <2>1. LevelView(s, i)' = Level(RaisedState(p))
    BY <1>1, <1>2, <1>4
  <2> QED BY <1>3, <2>1 DEF RaisedState, Level
<1>7. ReportAt(s, i)' = Reported(p, ReportAt(s, i).level)
  <2>1. ReportAt(s, i).level = LevelView(s, i)
    BY DEF ReportAt
  <2> QED BY <1>2, <1>6, <2>1 DEF ReportAt, Reported, RunOf
<1>8. /\ ReportsView[s] = [j \in DOMAIN events[s] |-> ReportAt(s, j)]
      /\ ReportsView'[s] = [j \in DOMAIN events[s] |-> ReportAt(s, j)']
  BY <1>2, ReportsShown
<1>9. /\ DOMAIN ReportsView[s] = DOMAIN events[s]
      /\ \A j \in DOMAIN events[s] : ReportsView[s][j] = ReportAt(s, j)
  BY ONLY <1>8
<1>10. ReportsView[s][i].level # "closed"
  <2>1. ReportsView[s][i].level = Level(loc[p].rowState)
    <3>1. ReportAt(s, i).level = LevelView(s, i)
      BY DEF ReportAt
    <3> QED BY <1>1, <1>3, <1>9, <3>1
  <2> QED BY <1>1, <2>1 DEF Level
<1> DEFINE new == Reported(p, ReportsView[s][i].level)
<1>11. ReportAt(s, i)' = new
  BY <1>1, <1>7, <1>9
<1> HIDE DEF new
<1>12. \A j \in DOMAIN events[s] : ReportAt(s, j)' = IF j = i THEN new ELSE ReportsView[s][j]
  BY <1>5, <1>9, <1>11
<1>13. ReportsView'[s] = [j \in DOMAIN events[s] |-> IF j = i THEN new ELSE ReportsView[s][j]]
  BY ONLY <1>8, <1>12
<1>14. ReportsView'[s] = [ReportsView[s] EXCEPT ![i] = new]
  BY <1>8, <1>9, <1>13
<1> QED BY <1>1, <1>9, <1>10, <1>14 DEF new

\* OnWindow asks for the source to be degraded: the alarm sounds.
LEMMA AlarmSounded ==
  ASSUME IInv, IInv', NEW p \in Procs, KnownInv(p), Acts(p), Inside(p), NEW s \in Sources,
         s = loc[p].src, pc[p] \in {"create_event", "update_run"}, Correlated(p)
  PROVE  /\ pc'[p] \in {"done", "degrade"}
         /\ AlarmView'[s] = (Persistent(p) /\ ModeView[s] = "healthy")
<1>0. Typed
  BY DEF IInv
<1>1. Healthy(s) <=> loc[p].seen \in {"enabled", "observing"}
  BY DEF KnownInv, KnownLabels, CorrelatedLabels, RunLabels
<1>2. Healthy(s) <=> ModeView[s] = "healthy"
  BY DEF Healthy, ModeView
<1>3. ShouldDegrade(p) <=> Persistent(p) /\ ModeView[s] = "healthy"
  BY <1>1, <1>2 DEF ShouldDegrade
<1>4. \/ ShouldDegrade(p) /\ pc'[p] = "degrade"
      \/ ~ShouldDegrade(p) /\ pc'[p] = "done"
  BY <1>0, GoesTo, AnswerGoesTo DEF Correlated, Inside
<1>5. pc'[p] \in {"degrade", "set_degraded"} <=> Persistent(p) /\ ModeView[s] = "healthy"
  BY <1>3, <1>4
<1>6. AlarmView'[s] = (pc'[p] \in {"degrade", "set_degraded"})
  BY HolderViews
<1>7. (pc'[p] \in {"degrade", "set_degraded"}) = (Persistent(p) /\ ModeView[s] = "healthy")
  <2>1. CASE pc'[p] \in {"degrade", "set_degraded"}
    <3>1. (pc'[p] \in {"degrade", "set_degraded"}) = TRUE
      BY <2>1
    <3>2. (Persistent(p) /\ ModeView[s] = "healthy") = TRUE
      BY <1>5, <2>1
    <3> QED BY <3>1, <3>2, Zenon
  <2>2. CASE pc'[p] \notin {"degrade", "set_degraded"}
    <3>1. (pc'[p] \in {"degrade", "set_degraded"}) = FALSE
      BY <2>2
    <3>2. (Persistent(p) /\ ModeView[s] = "healthy") = FALSE
      BY <1>5, <2>2
    <3> QED BY <3>1, <3>2, Zenon
  <2> QED BY <2>1, <2>2
<1> QED BY <1>4, <1>6, <1>7, Zenon

\* An anomalous window: INSERT of the event, or the second UPDATE of it, is Extend.
LEMMA ExtendShown ==
  ASSUME Quiet, IInv, IInv', Roles, Reports, NEW p \in Procs, RowNamed(p), OpenInv(p), RunInv(p),
         KnownInv(p), Acts(p), Inside(p), NEW s \in Sources, s = loc[p].src,
         CreateEvent(p) \/ ExtendRun(p)
  PROVE  Abstract!ReportWindow(s)
<1>1. pc[p] \in {"create_event", "update_run"} /\ pc[p] \in RunLabels /\ Correlated(p)
  BY DEF CreateEvent, ExtendRun, At, RunLabels
<1>2. /\ pc'[p] \in {"done", "degrade"}
      /\ AlarmView'[s] = (Persistent(p) /\ ModeView[s] = "healthy")
  BY <1>1, AlarmSounded
<1>3. /\ PendingView' = [PendingView EXCEPT ![s] = 0]
      /\ UNCHANGED <<ModeView, LogView>>
      /\ \A t \in Sources : t # s => SameView(t)
  BY <1>1, <1>2, ReportFrame
<1>4. /\ PendingView[s] = loc[p].seq /\ loc[p].seq # 0
      /\ LogView[s][PendingView[s]].status # "valid"
      /\ LogView[s][PendingView[s]].anomaly = loc[p].anomaly
  <2>1. /\ PendingView[s] = loc[p].seq /\ loc[p].seq \in Seqs
        /\ LogView[s][loc[p].seq].status = loc[p].status
        /\ LogView[s][loc[p].seq].anomaly = loc[p].anomaly
    BY <1>1, PendingWindow
  <2> QED BY <1>1, <2>1 DEF Seqs, RunInv, Anomalous
<1> DEFINE run == Abstract!AnomalousTail(s)
           n == Abstract!Cardinality(run)
           first == CHOOSE q \in run : \A r \in run : q <= r
           event(level) ==
             [level |-> IF n >= PersistentThreshold THEN "persistent" ELSE level,
              anomaly |-> LogView[s][PendingView[s]].anomaly,
              first |-> first, last |-> PendingView[s], count |-> n]
<1>5. n = loc[p].runLen /\ first = loc[p].firstSeq
  BY <1>1, RunShown
<1>6. (n >= PersistentThreshold) <=> Persistent(p)
  BY <1>5 DEF Persistent
<1> HIDE DEF run, n, first
<1>7. \A level : event(level) = Reported(p, level)
  BY <1>4, <1>5, <1>6 DEF Reported
<1>8. AlarmView' = [AlarmView EXCEPT ![s] = (n >= PersistentThreshold) /\ ModeView[s] = "healthy"]
  <2>1. AlarmView' = [AlarmView EXCEPT ![s] = AlarmView'[s]]
    BY <1>3, ShownAt
  <2>2. (n >= PersistentThreshold) = Persistent(p)
    BY <1>5 DEF Persistent
  <2> QED BY <1>2, <2>1, <2>2
<1>9. ReportsView' = [ReportsView EXCEPT ![s] = ReportsView'[s]]
  BY <1>3, ShownAt
<1> HIDE DEF event
<1>10. \/ \E i \in Abstract!OpenReports(s) :
            ReportsView' = [ReportsView EXCEPT ![s][i] = event(@.level)]
       \/ /\ Abstract!OpenReports(s) = {}
          /\ ReportsView' = [ReportsView EXCEPT ![s] = Append(@, event("minor"))]
  <2>1. CASE CreateEvent(p)
    <3>1. ReportsView'[s] = Append(ReportsView[s], event("minor"))
      BY <1>2, <1>7, <2>1, CreatedShown
    <3>2. pc[p] = "create_event"
      BY <2>1 DEF CreateEvent, At
    <3>3. \A i \in DOMAIN events[s] : events[s][i].state = "closed"
      BY <3>2 DEF OpenInv, Open
    <3>4. \A i : LevelView(s, i) = Level(events[s][i].state)
      BY <3>2, LevelsShown
    <3>5. ReportsView[s] = [i \in DOMAIN events[s] |-> ReportAt(s, i)]
      BY ReportsShown
    <3>6. \A i \in DOMAIN events[s] : ReportAt(s, i).level = "closed"
      BY <3>3, <3>4 DEF ReportAt, Level
    <3>7. Abstract!OpenReports(s) = {}
      BY <3>5, <3>6 DEF Abstract!OpenReports
    <3> QED BY <1>9, <3>1, <3>7
  <2>2. CASE ExtendRun(p)
    <3>1. PICK i : i = loc[p].row
      OBVIOUS
    <3>2. /\ i \in DOMAIN ReportsView[s] /\ ReportsView[s][i].level # "closed"
          /\ ReportsView'[s] = [ReportsView[s] EXCEPT ![i] = event(ReportsView[s][i].level)]
      <4>1. pc'[p] # "update_run"
        BY <1>2
      <4>2. /\ i \in DOMAIN ReportsView[s] /\ ReportsView[s][i].level # "closed"
            /\ ReportsView'[s] = [ReportsView[s] EXCEPT ![i] = Reported(p, ReportsView[s][i].level)]
        BY <2>2, <3>1, <4>1, ExtendedShown
      <4> QED BY <1>7, <4>2
    <3>3. i \in Abstract!OpenReports(s)
      BY <3>2 DEF Abstract!OpenReports
    <3>4. ReportsView' = [ReportsView EXCEPT ![s][i] = event(@.level)]
      BY <1>9, <3>2
    <3> QED BY <3>3, <3>4
  <2> QED BY <2>1, <2>2
<1>11. Abstract!Extend(s)
  BY <1>4, <1>8, <1>10 DEF Abstract!Extend, event, n, first, run
<1> QED BY <1>3, <1>4, <1>11 DEF Abstract!ReportWindow

-----------------------------------------------------------------------------
(* Every statement is a step of Tracker, or none.                          *)

\* A statement of the request inside Ingest, at whatever label.
LEMMA InsideShown ==
  ASSUME Quiet, IInv, IInv', Roles, RowsNamed, Reports, Frontier, Judged, OpenEventNewest,
         NEW p \in Procs, JudgeInv(p), SeenInv(p), OpenInv(p), RunInv(p), KnownInv(p),
         Acts(p), Inside(p), NEW s \in Sources, s = loc[p].src
  PROVE  \/ SameView(s)
         \/ \E q \in Seqs, x \in Samples : Abstract!Judge(s, q, x)
         \/ Abstract!ReportWindow(s) \/ Abstract!Degrade(s)
<1>0. Typed /\ Step(p)
  BY DEF IInv, Acts, Fail, Quiet, Faultless
<1>1. CASE pc[p] \in {"get", "create", "evaluate", "status", "done"}
  BY <1>1, SilentStep
<1>2. CASE pc[p] = "lastseq"
  BY <1>2, JudgeShown
<1>3. CASE pc[p] = "degrade"
  BY <1>3, AutoDegradeStep
<1>4. CASE pc[p] = "set_degraded"
  BY <1>4, DegradeShown
<1>5. CASE pc[p] \in Reporting
  <2>1. \/ NothingToSettle(p) \/ SettleClose(p) \/ CreateEvent(p) \/ ExtendRun(p)
        \/ pc'[p] \in Reporting
    <3>1. CASE Observe(p) \/ SetObserving(p) \/ CountRun(p) \/ ReadRestart(p)
      BY <1>0, <3>1, GoesTo DEF Observe, SetObserving, CountRun, ReadRestart, Reporting, RunLabels
    <3>2. CASE FindSettled(p) \/ NoOpenEvent(p) \/ FindOpenEvent(p) \/ Settle(p) \/ Raise(p)
      BY <1>0, <3>2, GoesTo DEF FindSettled, NoOpenEvent, FindOpenEvent, Settle, Raise, Reporting, RunLabels
    <3> QED BY <1>0, <1>5, <3>1, <3>2, Statement DEF Reporting, RunLabels
  <2>2. CASE pc'[p] \in Reporting
    BY <1>5, <2>2, ReportingStep
  <2>3. CASE NothingToSettle(p) \/ SettleClose(p)
    BY <2>3, SettleShown
  <2>4. CASE CreateEvent(p) \/ ExtendRun(p)
    BY <2>4, ExtendShown DEF RowsNamed
  <2> QED BY <2>1, <2>2, <2>3, <2>4
<1>6. pc[p] \in {"get", "create", "evaluate", "status", "done", "lastseq", "degrade", "set_degraded"}
                \cup Reporting
  BY <1>0, LocalTyped DEF Inside, Roles, Role, Reporting, RunLabels, Labels
<1> QED BY <1>1, <1>2, <1>3, <1>4, <1>5, <1>6

\* A statement of any request.
LEMMA ActionShown ==
  ASSUME Quiet, IInv, IInv', Roles, RowsNamed, Reports, Frontier, Judged, OpenEventNewest,
         NEW p \in Procs, JudgeInv(p), SeenInv(p), OpenInv(p), RunInv(p), KnownInv(p),
         Accept(p) \/ Acts(p)
  PROVE  [Abstract!Next]_(Abstract!trackerVars)
<1>0. Typed
  BY DEF IInv
<1>1. CASE Accept(p)
  <2>1. pc[p] = "idle"
    BY <1>0, <1>1, Accepted
  <2>2. ~Inside(p) /\ ~InsertedSource(p)
    BY <2>1 DEF Inside, InsertedSource, At
  <2>3. \A s \in Sources : SameView(s)
    BY <1>1, <2>2, Elsewhere
  <2> QED BY <2>3, ViewsSame
<1>2. CASE Acts(p) /\ InsertedSource(p)
  BY <1>2, RegisterShown DEF Abstract!Next
<1>3. CASE Acts(p) /\ ~InsertedSource(p) /\ ~Inside(p)
  <2>1. \A s \in Sources : SameView(s)
    BY <1>3, Elsewhere
  <2> QED BY <2>1, ViewsSame
<1>4. CASE Acts(p) /\ Inside(p)
  <2>1. PICK s \in Sources : s = loc[p].src
    BY <1>0, <1>4, LocalTyped DEF LocalsFit, Inside
  <2>2. \/ SameView(s)
        \/ \E q \in Seqs, x \in Samples : Abstract!Judge(s, q, x)
        \/ Abstract!ReportWindow(s) \/ Abstract!Degrade(s)
    BY <1>4, <2>1, InsideShown
  <2>3. CASE SameView(s)
    <3>1. \A t \in Sources : t # s => SameView(t)
      BY <1>4, <2>1, Elsewhere
    <3> QED BY <2>3, <3>1, ViewsSame
  <2>4. CASE ~SameView(s)
    BY <2>2, <2>4, SameVocabulary DEF Abstract!Next
  <2> QED BY <2>3, <2>4
<1> QED BY <1>1, <1>2, <1>3, <1>4

\* At the start Tracker has seen nothing.
LEMMA NothingShown ==
  ASSUME Init
  PROVE  Abstract!Init
<1>1. ASSUME NEW s \in Sources
      PROVE  /\ sources[s].state = "absent" /\ Recorded(s) = {}
             /\ events[s] = <<>> /\ lock[s] = None
  <2>1. windows[s] = [q \in Seqs |-> NoWindow] /\ NoWindow.status = "none"
    BY DEF Init, DatabaseInit, NoWindow
  <2> QED BY <2>1 DEF Init, DatabaseInit, RequestsInit, NoSource, Recorded
<1>2. ModeView = [s \in Sources |-> "absent"]
  BY <1>1 DEF ModeView
<1>3. LogView = [s \in Sources |-> <<>>]
  <2>1. ASSUME NEW s \in Sources PROVE LogView[s] = <<>>
    <3>1. LogDomain(s) = {}
      BY <1>1 DEF LogDomain
    <3>2. LogView[s] = [q \in LogDomain(s) |-> windows[s][q]]
      BY LogShown
    <3>3. DOMAIN LogView[s] = {} /\ LogView[s] = [q \in {} |-> windows[s][q]]
      BY <3>1, <3>2
    <3> QED BY <3>3
  <2>2. LogView = [s \in Sources |-> LogView[s]]
    BY DEF LogView
  <2> QED BY <2>1, <2>2
<1>4. PendingView = [s \in Sources |-> 0]
  BY <1>1 DEF PendingView, HolderAt
<1>5. AlarmView = [s \in Sources |-> FALSE]
  <2>1. ASSUME NEW s \in Sources PROVE HolderAt(s, {"degrade", "set_degraded"}) = FALSE
    BY <1>1 DEF HolderAt
  <2> QED BY <2>1, Zenon DEF AlarmView
<1>6. ReportsView = [s \in Sources |-> <<>>]
  <2>1. ASSUME NEW s \in Sources PROVE ReportsView[s] = <<>>
    <3>1. ReportsView[s] = [i \in DOMAIN events[s] |-> ReportAt(s, i)]
      BY ReportsShown
    <3>2. ReportsView[s] = [i \in {} |-> ReportAt(s, i)]
      BY <1>1, <3>1
    <3> QED BY <3>2
  <2>2. ReportsView = [s \in Sources |-> ReportsView[s]]
    BY DEF ReportsView
  <2> QED BY <2>1, <2>2
<1> QED BY <1>2, <1>3, <1>4, <1>5, <1>6 DEF Abstract!Init

\* What the proof of a step rests on.
Support ==
  /\ Roles /\ RowsNamed /\ Reports /\ Runs /\ Frontier /\ Judged /\ Knowns /\ OpenEventNewest
  /\ \A p \in Procs : JudgeInv(p) /\ SeenInv(p) /\ OpenInv(p)

LEMMA SupportInvariant ==
  ASSUME Quiet
  PROVE  Spec => []Support
<1> DEFINE Judges == \A p \in Procs : JudgeInv(p)
           Sees == \A p \in Procs : SeenInv(p)
           Opens == \A p \in Procs : OpenInv(p)
<1>1. Faultless /\ Unevaluated /\ EventsAlone /\ "reevaluate" \notin Ops
  BY QuietOps DEF Unevaluated
<1>2. Spec => [](Judged /\ Judges)
  BY <1>1, JudgedInvariant
<1>3. Spec => [](OpenEventNewest /\ Opens)
  BY <1>1, OpenInvariant
<1>4. Spec => []Frontier
  BY <1>1, FrontierInvariant
<1>5. Spec => []Runs
  BY <1>1, RunsInvariant
<1>6. Spec => []Knowns
  BY KnownsInvariant
<1>7. Spec => []Sees
  BY SeenInvariant
<1>8. /\ Roles /\ RowsNamed /\ Reports /\ Runs /\ Frontier /\ Judged /\ Knowns /\ OpenEventNewest
      /\ Judges /\ Sees /\ Opens
      => Support
  BY DEF Support
<1> HIDE DEF Judges, Sees, Opens
<1> QED BY <1>2, <1>3, <1>4, <1>5, <1>6, <1>7, <1>8, RolesInvariant, EventRowsExist,
           ReportsInvariant, PTL

LEMMA StepShown ==
  ASSUME Quiet, IInv, IInv', Support, [Next]_vars
  PROVE  [Abstract!Next]_(Abstract!trackerVars)
<1>1. ~Crash
  BY DEF Quiet, Faultless, Crash
<1>2. ASSUME NEW p \in Procs, Accept(p) \/ Acts(p) PROVE [Abstract!Next]_(Abstract!trackerVars)
  BY <1>2, ActionShown DEF Support, Runs, Knowns
<1>3. CASE UNCHANGED vars
  <2>1. \A s \in Sources : SameView(s)
    BY <1>3 DEF vars, tables, SameView, ModeView, LogView, PendingView, AlarmView, ReportsView,
                LevelView, HolderAt, Recorded
  <2> QED BY <2>1, ViewsSame
<1> QED BY <1>1, <1>2, <1>3 DEF Next, Acts

\* While no statement fails and no engineer intervenes, the nine statements and more of
\* every window, its mutex and the requests around it behave like Tracker: windows judged,
\* reported and followed by their consequence one at a time, as clients are promised.
THEOREM IngestImplementsTracker ==
  ASSUME Quiet
  PROVE  Spec => ImplementsTracker
<1>1. Init => Abstract!Init
  BY NothingShown
<1>2. IInv /\ IInv' /\ Support /\ [Next]_vars => [Abstract!Next]_(Abstract!trackerVars)
  BY StepShown
<1>3. Spec => []Support
  BY SupportInvariant
<1> QED BY <1>1, <1>2, <1>3, IngestInvariant, PTL DEF Spec, ImplementsTracker, Abstract!Spec
=============================================================================
