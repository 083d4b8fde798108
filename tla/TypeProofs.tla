----------------------------- MODULE TypeProofs -----------------------------
(***************************************************************************)
(* The service is typed: every reachable state satisfies TypeOK, for any   *)
(* number of sources, samples, windows, requests and snapshots.  TypeOK is *)
(* not inductive: that a statement writes a typed row depends on the       *)
(* locals its handler has set before, which LocalsFit records label by     *)
(* label.  Typed, the conjunction of both, is.                             *)
(***************************************************************************)
EXTENDS RngHealth, FiniteSetTheorems, SequenceTheorems, TLAPS

(* Data *)

\* Replacing an element of a sequence by one of its type keeps the type.
LEMMA SeqExcept ==
  ASSUME NEW S, NEW seq \in Seq(S), NEW i, NEW x, i \in DOMAIN seq => x \in S
  PROVE  [seq EXCEPT ![i] = x] \in Seq(S)
<1>1. DOMAIN seq = 1..Len(seq)
  BY LenProperties
<1>2. CASE i \in DOMAIN seq
  BY <1>1, <1>2, ExceptSeq
<1>3. CASE i \notin DOMAIN seq
  <2>1. seq = [j \in DOMAIN seq |-> seq[j]]
    BY <1>1
  <2>2. [seq EXCEPT ![i] = x] = [j \in DOMAIN seq |-> seq[j]]
    BY <1>3
  <2> QED BY <2>1, <2>2
<1> QED BY <1>2, <1>3

\* A sequence's elements at its indices have its type.
LEMMA SeqElement ==
  ASSUME NEW S, NEW seq \in Seq(S), NEW i \in DOMAIN seq
  PROVE  seq[i] \in S
BY ElementOfSeq, LenProperties

\* A set of sequence numbers is finite, so that its size is a number.
LEMMA SeqsFinite ==
  ASSUME NEW T \in SUBSET Seqs
  PROVE  Cardinality(T) \in Nat
<1>1. IsFiniteSet(Seqs)
  BY FS_Interval, DomainAssumption DEF Seqs
<1> QED BY <1>1, FS_Subset, FS_CardinalityType

\* So is a set of row ids.
LEMMA RowsFinite ==
  ASSUME NEW S, NEW seq \in Seq(S), NEW T \in SUBSET DOMAIN seq
  PROVE  Cardinality(T) \in Nat
<1>1. IsFiniteSet(DOMAIN seq)
  BY FS_Interval, LenProperties
<1> QED BY <1>1, FS_Subset, FS_CardinalityType

\* FirstFailing names a category, in either order.
LEMMA FirstFailingTyped ==
  ASSUME NEW failed \in SUBSET Categories, failed # {},
         NEW order \in {RunOrder, AlphaOrder}
  PROVE  FirstFailing(order, failed) \in Categories
<1>1. \E i \in 1..Len(order) : order[i] \in failed /\ \A j \in 1..(i - 1) : order[j] \notin failed
  <2>1. Len(order) = 4 /\ \A i \in 1..4 : order[i] \in Categories
    BY DEF RunOrder, AlphaOrder, Categories
  <2>2. \A c \in Categories : c \in {order[1], order[2], order[3], order[4]}
    BY DEF RunOrder, AlphaOrder, Categories
  <2>3. CASE order[1] \in failed
    BY <2>1, <2>3
  <2>4. CASE order[1] \notin failed /\ order[2] \in failed
    BY <2>1, <2>4
  <2>5. CASE order[1] \notin failed /\ order[2] \notin failed /\ order[3] \in failed
    BY <2>1, <2>5
  <2>6. CASE order[1] \notin failed /\ order[2] \notin failed /\ order[3] \notin failed
    <3>1. order[4] \in failed
      BY <2>2, <2>6
    <3> QED BY <2>1, <2>6, <3>1
  <2> QED BY <2>3, <2>4, <2>5, <2>6
<1> QED BY <1>1 DEF FirstFailing

\* The status and the anomaly of a set of failures, and those Ingest resolves.
LEMMA StatTyped ==
  ASSUME NEW failed \in SUBSET Categories, NEW order \in {RunOrder, AlphaOrder}
  PROVE  /\ StatStatus(failed) \in FinalStatuses
         /\ StatAnomaly(order, failed) \in Anomalies \cup {""}
BY FirstFailingTyped DEF StatStatus, StatAnomaly, FinalStatuses, WindowStatuses, Anomalies

LEMMA ResolvedTyped ==
  ASSUME NEW replay \in BOOLEAN, NEW x \in Samples
  PROVE  /\ ResolvedStatus(replay, x) \in FinalStatuses
         /\ ResolvedAnomaly(replay, x) \in Anomalies \cup {""}
<1>1. FailedBy[x] \in SUBSET Categories
  BY DomainAssumption
<1> QED
  BY <1>1, StatTyped
  DEF ResolvedStatus, ResolvedAnomaly, FinalStatuses, WindowStatuses, Anomalies

LEMMA NoPayloadTyped == NoPayload \in Payload
BY DomainAssumption DEF NoPayload, Payload, NULL, Categories

LEMMA RowsTyped == NoSource \in SourceRow /\ NoWindow \in WindowRow
<1>1. NULL \in NULL..MaxSeq /\ 0 \in 0..MaxSeq
  BY DomainAssumption DEF NULL
<1>2. NoSource \in SourceRow
  BY <1>1 DEF NoSource, SourceRow
<1>3. NoWindow \in WindowRow
  BY DEF NoWindow, WindowRow
<1> QED BY <1>2, <1>3

LEMMA BlankTyped == Blank \in Local
<1>1. <<>> \in Seq(Item)
  BY EmptySeq
<1>2. NULL \in NULL..MaxSeq /\ 0 \in 0..MaxSeq
  BY DomainAssumption DEF NULL
<1> QED BY <1>1, <1>2, NoPayloadTyped DEF Blank, Local, Replies

LEMMA RequestTyped ==
  ASSUME NEW op \in AllOps, NEW s \in Sources
  PROVE  /\ Request(op, s) \in Local
         /\ Request(op, s).op = op /\ Request(op, s).src = s
<1>1. /\ Blank \in Local
      /\ DOMAIN Blank = DOMAIN Request(op, s)
  BY BlankTyped DEF Request
<1> QED BY <1>1, ZenonT(60) DEF Request, Local

-----------------------------------------------------------------------------
(* Statements keep the tables typed. *)

LEMMA UnchangedTyped ==
  ASSUME TablesOK, UNCHANGED tables
  PROVE  TablesOK'
BY DEF TablesOK, tables

LEMMA SourcesTyped ==
  ASSUME TablesOK, NEW s \in Sources, NEW row \in SourceRow,
         sources' = [sources EXCEPT ![s] = row], UNCHANGED notSources
  PROVE  TablesOK'
BY DEF TablesOK, notSources

LEMMA UpdateStateTyped ==
  ASSUME TablesOK, NEW s \in Sources, NEW st \in SourceStates, NEW b \in BOOLEAN,
         UpdateState(s, st, b), UNCHANGED notSources
  PROVE  TablesOK'
BY DEF TablesOK, UpdateState, notSources, SourceRow

LEMMA UpdateStatusTyped ==
  ASSUME TablesOK, NEW s \in Sources, NEW q \in Seqs, NEW st \in WindowStatuses,
         NEW a \in Anomalies \cup {""}, UpdateStatus(s, q, st, a), UNCHANGED notWindows
  PROVE  TablesOK'
<1>1. windows[s] \in [Seqs -> WindowRow] /\ windows[s][q] \in WindowRow
  BY DEF TablesOK
<1>2. [windows[s][q] EXCEPT !.status = st, !.anomaly = a] \in WindowRow
  BY <1>1 DEF WindowRow
<1>3. [windows[s] EXCEPT ![q] = [windows[s][q] EXCEPT !.status = st, !.anomaly = a]]
        \in [Seqs -> WindowRow]
  BY <1>1, <1>2
<1> QED
  BY <1>3 DEF TablesOK, UpdateStatus, notWindows

LEMMA InsertTestTyped ==
  ASSUME TablesOK, NEW s \in Sources, NEW q \in Seqs, NEW c \in Categories, NEW b \in BOOLEAN,
         InsertTest(s, q, c, b), UNCHANGED notTests
  PROVE  TablesOK'
<1>1. [seq |-> q, category |-> c, passed |-> b] \in StoredTest
  BY DEF StoredTest
<1> QED
  BY <1>1, AppendProperties DEF TablesOK, InsertTest, notTests

LEMMA InsertEventTyped ==
  ASSUME TablesOK, NEW s \in Sources, NEW row \in EventRow,
         InsertEvent(s, row), UNCHANGED notEvents
  PROVE  TablesOK'
BY AppendProperties DEF TablesOK, InsertEvent, notEvents

LEMMA SetStateTyped ==
  ASSUME TablesOK, NEW s \in Sources, NEW i, NEW st \in EventStates,
         NEW a \in BOOLEAN, NEW b \in BOOLEAN,
         SetState(s, i, st, a, b), UNCHANGED notEvents
  PROVE  TablesOK'
<1>1. events[s] \in Seq(EventRow)
  BY DEF TablesOK
<1> DEFINE row == [events[s][i] EXCEPT !.state = st, !.confirmedAt = a, !.closedAt = b]
<1>2. ASSUME i \in DOMAIN events[s] PROVE row \in EventRow
  <2>1. events[s][i] \in EventRow
    BY <1>1, <1>2, SeqElement
  <2> QED BY <2>1 DEF EventRow
<1>3. [events[s] EXCEPT ![i] = row] \in Seq(EventRow)
  BY <1>1, <1>2, SeqExcept
<1> QED
  BY <1>3 DEF TablesOK, SetState, notEvents

LEMMA UpdateRunTyped ==
  ASSUME TablesOK, NEW s \in Sources, NEW i, NEW first \in Seqs, NEW last \in Seqs,
         NEW n \in Nat, NEW a \in Anomalies \cup {""}, NEW b \in BOOLEAN,
         UpdateRun(s, i, first, last, n, a, b), UNCHANGED notEvents
  PROVE  TablesOK'
<1>1. events[s] \in Seq(EventRow)
  BY DEF TablesOK
<1> DEFINE row == [events[s][i] EXCEPT !.firstSeq = first, !.lastSeq = last,
                                       !.windowCount = n, !.anomaly = a, !.afterRestart = b]
<1>2. ASSUME i \in DOMAIN events[s] PROVE row \in EventRow
  <2>1. events[s][i] \in EventRow
    BY <1>1, <1>2, SeqElement
  <2> QED BY <2>1 DEF EventRow
<1>3. [events[s] EXCEPT ![i] = row] \in Seq(EventRow)
  BY <1>1, <1>2, SeqExcept
<1> QED
  BY <1>3 DEF TablesOK, UpdateRun, notEvents

LEMMA InsertSnapshotTyped ==
  ASSUME TablesOK, NEW s \in Sources, NEW v \in Nat, NEW payload \in Payload,
         InsertSnapshot(s, v, payload), UNCHANGED notSnaps
  PROVE  TablesOK'
<1>1. [version |-> v, state |-> "draft", payload |-> payload, supersededBy |-> 0] \in SnapRow
  BY DEF SnapRow, SnapshotStates
<1> QED
  BY <1>1, AppendProperties DEF TablesOK, InsertSnapshot, notSnaps

LEMMA PublishSnapshotTyped ==
  ASSUME TablesOK, NEW s \in Sources, NEW i, PublishSnapshot(s, i), UNCHANGED notSnaps
  PROVE  TablesOK'
<1>1. snaps[s] \in Seq(SnapRow)
  BY DEF TablesOK
<1> DEFINE row == [snaps[s][i] EXCEPT !.state = "published"]
<1>2. ASSUME i \in DOMAIN snaps[s] PROVE row \in SnapRow
  <2>1. snaps[s][i] \in SnapRow
    BY <1>1, <1>2, SeqElement
  <2> QED BY <2>1 DEF SnapRow, SnapshotStates
<1>3. [snaps[s] EXCEPT ![i] = row] \in Seq(SnapRow)
  BY <1>1, <1>2, SeqExcept
<1> QED
  BY <1>3 DEF TablesOK, PublishSnapshot, notSnaps

LEMMA SupersedeSnapshotTyped ==
  ASSUME TablesOK, NEW s \in Sources, NEW i, NEW n \in Nat,
         SupersedeSnapshot(s, i, n), UNCHANGED notSnaps
  PROVE  TablesOK'
<1>1. snaps[s] \in Seq(SnapRow)
  BY DEF TablesOK
<1> DEFINE row == [snaps[s][i] EXCEPT !.state = "superseded", !.supersededBy = n]
<1>2. ASSUME i \in DOMAIN snaps[s] PROVE row \in SnapRow
  <2>1. snaps[s][i] \in SnapRow
    BY <1>1, <1>2, SeqElement
  <2> QED BY <2>1 DEF SnapRow, SnapshotStates
<1>3. [snaps[s] EXCEPT ![i] = row] \in Seq(SnapRow)
  BY <1>1, <1>2, SeqExcept
<1> QED
  BY <1>3 DEF TablesOK, SupersedeSnapshot, notSnaps

-----------------------------------------------------------------------------
(* A step of one request disturbs only that request's label and locals.    *)

LEMMA StepTyped ==
  ASSUME Typed, TablesOK', lock' \in [Sources -> Procs \cup {None}], NEW p \in Procs,
         NEW label \in Labels, pc' = [pc EXCEPT ![p] = label],
         NEW l \in Local, loc' = [loc EXCEPT ![p] = l],
         LocalsFit(label, l)
  PROVE  Typed'
<1>1. /\ pc \in [Procs -> Labels]
      /\ loc \in [Procs -> Local]
      /\ \A q \in Procs : LocalsFit(pc[q], loc[q])
  BY DEF Typed, TypeOK, ProcsOK
<1>2. /\ pc' \in [Procs -> Labels]
      /\ loc' \in [Procs -> Local]
  BY <1>1
<1>3. ASSUME NEW q \in Procs PROVE LocalsFit(pc'[q], loc'[q])
  <2>1. CASE q = p
    BY <1>1, <2>1
  <2>2. CASE q # p
    <3>1. pc'[q] = pc[q] /\ loc'[q] = loc[q]
      BY <1>1, <2>2
    <3> QED BY <1>1, <3>1
  <2> QED BY <2>1, <2>2
<1> QED BY <1>2, <1>3 DEF Typed, TypeOK, ProcsOK

\* The same when the locals do not change.
LEMMA GotoTyped ==
  ASSUME Typed, TablesOK', UNCHANGED lock, NEW p \in Procs,
         NEW label \in Labels, Goto(p, label), UNCHANGED loc,
         LocalsFit(label, loc[p])
  PROVE  Typed'
<1>1. loc \in [Procs -> Local] /\ lock \in [Sources -> Procs \cup {None}]
  BY DEF Typed, TypeOK, ProcsOK
<1>2. loc' = [loc EXCEPT ![p] = loc[p]]
  BY <1>1
<1> QED BY <1>1, <1>2, StepTyped DEF Goto

\* What typing says of the locals of a request in flight.
LEMMA LocalTyped ==
  ASSUME Typed, NEW p \in Procs
  PROVE  /\ loc[p] \in Local /\ pc[p] \in Labels /\ LocalsFit(pc[p], loc[p])
         /\ TablesOK
         /\ loc \in [Procs -> Local] /\ pc \in [Procs -> Labels]
         /\ lock \in [Sources -> Procs \cup {None}]
BY DEF Typed, TypeOK, ProcsOK

LEMMA AnswerTyped ==
  ASSUME Typed, TablesOK', UNCHANGED lock, NEW p \in Procs, pc[p] # "idle",
         NEW reply \in Replies, Answer(p, reply)
  PROVE  Typed'
<1>1. loc[p] \in Local /\ LocalsFit(pc[p], loc[p]) /\ lock \in [Sources -> Procs \cup {None}]
  BY LocalTyped
<1>2. CASE loc[p].op = "ingest" /\ Goto(p, "done") /\ loc' = [loc EXCEPT ![p].reply = reply]
  <2> DEFINE l == [loc[p] EXCEPT !.reply = reply]
  <2>1. l \in Local /\ l.src = loc[p].src /\ l.op = loc[p].op /\ l.sample = loc[p].sample
    BY <1>1, ZenonT(60) DEF Local
  <2>2. LocalsFit("done", l)
    BY <1>1, <1>2, <2>1
    DEF LocalsFit, IngestLabels, UnconfirmedLabels, CorrelatedLabels, RunLabels
  <2>3. loc' = [loc EXCEPT ![p] = l]
    BY <1>2
  <2> HIDE DEF l
  <2> QED BY <1>1, <1>2, <2>1, <2>2, <2>3, StepTyped DEF Goto, Labels
<1>3. CASE Goto(p, "idle") /\ loc' = [loc EXCEPT ![p] = Blank]
  <2>1. LocalsFit("idle", Blank)
    BY DEF LocalsFit, IngestLabels, UnconfirmedLabels, CorrelatedLabels, RunLabels
  <2> QED BY <1>1, <1>3, <2>1, BlankTyped, StepTyped DEF Goto, Labels
<1> QED BY <1>2, <1>3 DEF Answer

LEMMA ArriveTyped ==
  ASSUME Typed, UNCHANGED <<tables, lock>>, NEW p \in Procs,
         NEW op \in AllOps, NEW s \in Sources, NEW label \in Labels, NEW l \in Local,
         Arrive(p, op, s, label, l), LocalsFit(label, l)
  PROVE  Typed'
BY LocalTyped, UnchangedTyped, StepTyped DEF Arrive, Goto

-----------------------------------------------------------------------------
(* Isolate *)

LEMMA IsolateRequestTyped ==
  ASSUME Typed, NEW p \in Procs, NEW s \in Sources, IsolateRequest(p, s)
  PROVE  Typed'
<1>1. ASSUME NEW op \in {"degrade", "isolate", "seal", "recover"},
             NEW label \in {"set_degraded", "set_isolated", "set_sealed", "baseline"},
             NEW states, Admitted(p, op, s, states, label)
      PROVE  Typed'
  <2>1. op \in AllOps /\ label \in Labels
    BY DEF AllOps, Labels
  <2>2. LocalsFit(label, Request(op, s))
    BY <2>1, RequestTyped
    DEF LocalsFit, IngestLabels, UnconfirmedLabels, CorrelatedLabels, RunLabels
  <2> QED BY <1>1, <2>1, <2>2, RequestTyped, ArriveTyped DEF Admitted
<1> QED BY <1>1 DEF IsolateRequest, Degrade, Isolate, Seal, Recover

LEMMA WriteStateTyped ==
  ASSUME Typed, NEW p \in Procs, NEW label, label # "idle", NEW st \in SourceStates,
         WriteState(p, label, st)
  PROVE  TablesOK'
<1>1. TablesOK /\ loc[p].src \in Sources
  BY LocalTyped DEF WriteState, At, LocalsFit
<1> QED BY <1>1, UpdateStateTyped DEF WriteState

LEMMA IsolateStepTyped ==
  ASSUME Typed, NEW p \in Procs, IsolateStep(p)
  PROVE  Typed'
<1> USE DEF At
<1>0. /\ loc[p] \in Local /\ LocalsFit(pc[p], loc[p]) /\ TablesOK
      /\ lock \in [Sources -> Procs \cup {None}]
  BY LocalTyped
<1>1. ASSUME NEW l \in {"set_degraded", "set_isolated", "set_sealed"},
             NEW st \in SourceStates, WriteState(p, l, st), Answer(p, "ok")
      PROVE  Typed'
  BY <1>1, WriteStateTyped, AnswerTyped DEF WriteState, Replies
<1>2. CASE ReadBaseline(p)
  <2>1. PICK b \in LatestValidSeq(loc[p].src) : loc' = [loc EXCEPT ![p].baseline = b]
    BY <1>2 DEF ReadBaseline
  <2> DEFINE l == [loc[p] EXCEPT !.baseline = b]
  <2>2. b \in NULL..MaxSeq
    BY <2>1, DomainAssumption DEF LatestValidSeq, ValidSeqs, Seqs, NULL
  <2>3. l \in Local /\ l.src = loc[p].src /\ l.op = loc[p].op /\ l.sample = loc[p].sample
    BY <1>0, <2>2, ZenonT(60) DEF Local
  <2>4. LocalsFit("set_observing", l)
    BY <1>0, <1>2, <2>3
    DEF ReadBaseline, LocalsFit, IngestLabels, UnconfirmedLabels, CorrelatedLabels, RunLabels
  <2>5. loc' = [loc EXCEPT ![p] = l]
    BY <2>1
  <2> HIDE DEF l
  <2> QED BY <1>0, <1>2, <2>3, <2>4, <2>5, UnchangedTyped, StepTyped DEF ReadBaseline, Goto, Labels
<1>3. CASE SetRecovered(p)
  <2>1. TablesOK' /\ UNCHANGED lock
    BY <1>3, WriteStateTyped DEF SetRecovered, WriteState, SourceStates
  <2>2. LocalsFit("set_baseline", loc[p])
    BY <1>0, <1>3
    DEF SetRecovered, WriteState, LocalsFit, IngestLabels, UnconfirmedLabels, CorrelatedLabels, RunLabels
  <2> QED BY <1>3, <2>1, <2>2, GotoTyped DEF SetRecovered, Labels
<1>4. CASE SetBaseline(p)
  <2>1. loc[p].src \in Sources /\ loc[p].baseline \in NULL..MaxSeq
    BY <1>0, <1>4 DEF SetBaseline, LocalsFit, Local
  <2>2. [sources[loc[p].src] EXCEPT !.baseline = loc[p].baseline] \in SourceRow
    <3>1. ASSUME NEW row \in SourceRow, NEW b \in NULL..MaxSeq
          PROVE  [row EXCEPT !.baseline = b] \in SourceRow
      BY DEF SourceRow
    <3>2. sources[loc[p].src] \in SourceRow
      BY <1>0, <2>1 DEF TablesOK
    <3> QED BY <2>1, <3>1, <3>2
  <2>3. TablesOK'
    BY <1>0, <1>4, <2>1, <2>2, SourcesTyped DEF SetBaseline, SetRecoveryBaseline
  <2> QED BY <1>4, <2>3, AnswerTyped DEF SetBaseline, Replies
<1>5. CASE Observe(p)
  <2>1. \A label \in {"observe_set", "recent"} : LocalsFit(label, loc[p])
    BY <1>0, <1>5
    DEF Observe, LocalsFit, IngestLabels, UnconfirmedLabels, CorrelatedLabels, RunLabels
  <2> QED BY <1>0, <1>5, <2>1, UnchangedTyped, GotoTyped DEF Observe, Labels
<1>6. CASE SetObserving(p)
  <2>1. TablesOK' /\ UNCHANGED lock
    BY <1>6, WriteStateTyped DEF SetObserving, WriteState, SourceStates
  <2>2. LocalsFit("recent", loc[p])
    BY <1>0, <1>6
    DEF SetObserving, WriteState, LocalsFit, IngestLabels, UnconfirmedLabels, CorrelatedLabels, RunLabels
  <2> QED BY <1>6, <2>1, <2>2, GotoTyped DEF SetObserving, Labels
<1>7. CASE AutoDegrade(p)
  <2>1. LocalsFit("set_degraded", loc[p])
    BY <1>0, <1>7
    DEF AutoDegrade, LocalsFit, IngestLabels, UnconfirmedLabels, CorrelatedLabels, RunLabels
  <2> QED BY <1>0, <1>7, <2>1, UnchangedTyped, GotoTyped DEF AutoDegrade, Labels
<1>8. CASE AutoDegradeRefused(p)
  BY <1>0, <1>8, UnchangedTyped, AnswerTyped DEF AutoDegradeRefused, Replies
<1> QED
  BY <1>1, <1>2, <1>3, <1>4, <1>5, <1>6, <1>7, <1>8
  DEF IsolateStep, SetDegraded, SetIsolated, SetSealed, SourceStates

-----------------------------------------------------------------------------
(* Correlator *)

LEMMA TailRunTyped ==
  ASSUME NEW s \in Sources, NEW q \in Seqs
  PROVE  TailRun(s, q) \in SUBSET Seqs
BY DEF TailRun, RecentWindows, Recorded

LEMMA CountRunTyped ==
  ASSUME Typed, NEW p \in Procs, CountRun(p)
  PROVE  Typed'
<1> USE DEF At
<1>0. /\ loc[p] \in Local /\ LocalsFit(pc[p], loc[p]) /\ TablesOK
      /\ lock \in [Sources -> Procs \cup {None}]
  BY LocalTyped
<1>1. loc[p].src \in Sources /\ loc[p].seq \in Seqs /\ loc[p].op = "ingest" /\ loc[p].sample \in Samples
  BY <1>0 DEF CountRun, LocalsFit, IngestLabels, CorrelatedLabels
<1> DEFINE run == TailRun(loc[p].src, loc[p].seq)
<1>2. ASSUME NEW n \in Nat, NEW first \in Seqs, NEW label \in {"open", "restart"},
             loc' = [loc EXCEPT ![p] = [@ EXCEPT !.runLen = n, !.firstSeq = first]], Goto(p, label)
      PROVE  Typed'
  <2> DEFINE l == [loc[p] EXCEPT !.runLen = n, !.firstSeq = first]
  <2>1. first \in 0..MaxSeq
    BY DomainAssumption DEF Seqs
  <2>2. /\ l \in Local /\ l.src = loc[p].src /\ l.op = loc[p].op /\ l.sample = loc[p].sample
        /\ l.seq = loc[p].seq /\ l.firstSeq = first
    BY <1>0, <2>1, ZenonT(60) DEF Local
  <2>3. LocalsFit(label, l)
    BY <1>1, <2>2 DEF LocalsFit
  <2>4. loc' = [loc EXCEPT ![p] = l]
    BY <1>2, LocalTyped
  <2>5. TablesOK' /\ UNCHANGED lock
    BY <1>0, UnchangedTyped DEF CountRun
  <2>6. label \in Labels /\ pc' = [pc EXCEPT ![p] = label]
    BY <1>2 DEF Goto, Labels
  <2> HIDE DEF l
  <2> QED BY <1>0, <2>2, <2>3, <2>4, <2>5, <2>6, StepTyped
<1>3. CASE /\ loc' = [loc EXCEPT ![p] = [@ EXCEPT !.runLen = 0, !.firstSeq = loc[p].seq]]
           /\ Goto(p, "open")
  BY <1>1, <1>2, <1>3
<1>4. CASE \E first \in run :
             /\ loc' = [loc EXCEPT ![p] = [@ EXCEPT !.runLen = Cardinality(run), !.firstSeq = first]]
             /\ Goto(p, "restart")
  <2>1. run \in SUBSET Seqs
    BY <1>1, TailRunTyped
  <2>2. Cardinality(run) \in Nat
    BY <2>1, SeqsFinite
  <2> HIDE DEF run
  <2> QED BY <1>2, <1>4, <2>1, <2>2
<1> QED BY <1>3, <1>4 DEF CountRun

LEMMA ReadRestartTyped ==
  ASSUME Typed, NEW p \in Procs, ReadRestart(p)
  PROVE  Typed'
<1> USE DEF At
<1>0. /\ loc[p] \in Local /\ LocalsFit(pc[p], loc[p]) /\ TablesOK
      /\ lock \in [Sources -> Procs \cup {None}]
  BY LocalTyped
<1>1. PICK after \in BOOLEAN : loc' = [loc EXCEPT ![p].after = after]
  BY DEF ReadRestart
<1> DEFINE l == [loc[p] EXCEPT !.after = after]
<1>2. /\ l \in Local /\ l.src = loc[p].src /\ l.op = loc[p].op /\ l.sample = loc[p].sample
      /\ l.seq = loc[p].seq /\ l.firstSeq = loc[p].firstSeq
  BY <1>0, ZenonT(60) DEF Local
<1>3. LocalsFit("open", l)
  BY <1>0, <1>2
  DEF ReadRestart, LocalsFit, IngestLabels, UnconfirmedLabels, CorrelatedLabels, RunLabels
<1>4. loc' = [loc EXCEPT ![p] = l]
  BY <1>1
<1> HIDE DEF l
<1> QED BY <1>0, <1>2, <1>3, <1>4, UnchangedTyped, StepTyped DEF ReadRestart, Goto, Labels

LEMMA FindSettledTyped ==
  ASSUME Typed, NEW p \in Procs, FindSettled(p)
  PROVE  Typed'
<1> USE DEF At
<1>0. /\ loc[p] \in Local /\ LocalsFit(pc[p], loc[p]) /\ TablesOK
      /\ lock \in [Sources -> Procs \cup {None}]
  BY LocalTyped
<1>1. loc[p].src \in Sources
  BY <1>0 DEF FindSettled, LocalsFit
<1>2. PICK i \in OpenForSource(loc[p].src) : loc' = [loc EXCEPT ![p].row = i]
  BY DEF FindSettled
<1>3. i \in Nat
  BY <1>0, <1>1, <1>2, LenProperties DEF OpenForSource, TablesOK
<1> DEFINE l == [loc[p] EXCEPT !.row = i]
<1>4. /\ l \in Local /\ l.src = loc[p].src /\ l.op = loc[p].op /\ l.sample = loc[p].sample
      /\ l.seq = loc[p].seq /\ l.firstSeq = loc[p].firstSeq
  BY <1>0, <1>3, ZenonT(60) DEF Local
<1>5. LocalsFit("settle", l)
  BY <1>0, <1>4
  DEF FindSettled, LocalsFit, IngestLabels, UnconfirmedLabels, CorrelatedLabels, RunLabels
<1>6. loc' = [loc EXCEPT ![p] = l]
  BY <1>2
<1> HIDE DEF l
<1> QED BY <1>0, <1>4, <1>5, <1>6, UnchangedTyped, StepTyped DEF FindSettled, Goto, Labels

LEMMA FindOpenEventTyped ==
  ASSUME Typed, NEW p \in Procs, FindOpenEvent(p)
  PROVE  Typed'
<1> USE DEF At
<1>0. /\ loc[p] \in Local /\ LocalsFit(pc[p], loc[p]) /\ TablesOK
      /\ lock \in [Sources -> Procs \cup {None}]
  BY LocalTyped
<1>1. ASSUME NEW i \in Nat, NEW st \in EventStates, NEW a \in BOOLEAN, NEW b \in BOOLEAN,
             loc' = [loc EXCEPT ![p] =
                       [@ EXCEPT !.row = i, !.rowState = st, !.confirmed = a, !.closed = b]]
      PROVE  Typed'
  <2> DEFINE l == [loc[p] EXCEPT !.row = i, !.rowState = st, !.confirmed = a, !.closed = b]
  <2>1. l \in Local
    BY <1>0, ZenonT(60) DEF Local
  <2>2. l.src = loc[p].src /\ l.op = loc[p].op /\ l.sample = loc[p].sample
    BY <1>0 DEF Local
  <2>3. l.seq = loc[p].seq /\ l.firstSeq = loc[p].firstSeq /\ l.rowState = st
    BY <1>0 DEF Local
  <2>4. loc' = [loc EXCEPT ![p] = l]
    BY <1>1, Zenon
  <2> HIDE DEF l
  <2>5. LocalsFit("raise", l)
    BY <1>0, <2>2, <2>3
    DEF FindOpenEvent, LocalsFit, IngestLabels, UnconfirmedLabels, CorrelatedLabels, RunLabels
  <2> QED BY <1>0, <2>1, <2>4, <2>5, UnchangedTyped, StepTyped DEF FindOpenEvent, Goto, Labels
<1>2. loc[p].src \in Sources
  BY <1>0 DEF FindOpenEvent, LocalsFit
<1>3. PICK i \in OpenForSource(loc[p].src) :
        LET ev == events[loc[p].src][i]
        IN  loc' = [loc EXCEPT ![p] = [@ EXCEPT !.row = i, !.rowState = ev.state,
                                                !.confirmed = ReadTime(ev.confirmedAt),
                                                !.closed = ReadTime(ev.closedAt)]]
  BY DEF FindOpenEvent
<1> DEFINE ev == events[loc[p].src][i]
<1>4. i \in Nat /\ i \in DOMAIN events[loc[p].src]
  BY <1>0, <1>2, <1>3, LenProperties DEF OpenForSource, TablesOK
<1>5. ev \in EventRow
  BY <1>0, <1>2, <1>4, SeqElement DEF TablesOK
<1>6. ev.state \in EventStates /\ ReadTime(ev.confirmedAt) \in BOOLEAN
      /\ ReadTime(ev.closedAt) \in BOOLEAN
  BY <1>5 DEF EventRow, ReadTime
<1> QED BY <1>1, <1>3, <1>4, <1>6, Zenon

\* What the last step of OnWindow leaves behind, once the tables are known typed.
LEMMA CorrelatedTyped ==
  ASSUME Typed, TablesOK', UNCHANGED lock, NEW p \in Procs, pc[p] \in RunLabels, Correlated(p)
  PROVE  Typed'
<1>0. /\ loc[p] \in Local /\ LocalsFit(pc[p], loc[p]) /\ pc[p] # "idle"
  BY LocalTyped DEF RunLabels
<1>1. LocalsFit("degrade", loc[p])
  BY <1>0
  DEF LocalsFit, IngestLabels, UnconfirmedLabels, CorrelatedLabels, RunLabels
<1> QED BY <1>0, <1>1, GotoTyped, AnswerTyped DEF Correlated, Labels, Replies

LEMMA CorrelatorStepTyped ==
  ASSUME Typed, NEW p \in Procs, CorrelatorStep(p)
  PROVE  Typed'
<1> USE DEF At
<1>0. /\ loc[p] \in Local /\ LocalsFit(pc[p], loc[p]) /\ TablesOK
      /\ lock \in [Sources -> Procs \cup {None}]
  BY LocalTyped
<1>1. ASSUME pc[p] \in RunLabels
      PROVE  /\ loc[p].src \in Sources /\ loc[p].op = "ingest"
             /\ loc[p].seq \in Seqs /\ loc[p].firstSeq \in Seqs
  BY <1>0, <1>1 DEF LocalsFit, CorrelatedLabels, RunLabels, IngestLabels
<1>2. CASE NothingToSettle(p)
  BY <1>0, <1>2, UnchangedTyped, AnswerTyped DEF NothingToSettle, Replies
<1>3. CASE Settle(p)
  <2>1. TablesOK'
    BY <1>0, <1>1, <1>3, SetStateTyped DEF Settle, RunLabels, EventStates
  <2>2. LocalsFit("settle_close", loc[p])
    BY <1>0, <1>3 DEF Settle, LocalsFit, IngestLabels, UnconfirmedLabels, CorrelatedLabels, RunLabels
  <2> QED BY <1>3, <2>1, <2>2, GotoTyped DEF Settle, Labels
<1>4. CASE SettleClose(p)
  <2>1. TablesOK'
    BY <1>0, <1>1, <1>4, SetStateTyped DEF SettleClose, RunLabels, EventStates
  <2> QED BY <1>4, <2>1, AnswerTyped DEF SettleClose, Replies
<1>5. CASE NoOpenEvent(p)
  <2>1. LocalsFit("create_event", loc[p])
    BY <1>0, <1>5
    DEF NoOpenEvent, LocalsFit, IngestLabels, UnconfirmedLabels, CorrelatedLabels, RunLabels
  <2> QED BY <1>0, <1>5, <2>1, UnchangedTyped, GotoTyped DEF NoOpenEvent, Labels
<1>6. CASE CreateEvent(p)
  <2> DEFINE row == [state |-> RunState(p), anomaly |-> loc[p].anomaly,
                     firstSeq |-> loc[p].firstSeq, lastSeq |-> loc[p].seq,
                     windowCount |-> loc[p].runLen, afterRestart |-> loc[p].after,
                     confirmedAt |-> FALSE, closedAt |-> FALSE]
  <2>1. pc[p] \in RunLabels
    BY <1>6 DEF CreateEvent, RunLabels
  <2>2. loc[p].anomaly \in Anomalies \cup {""} /\ loc[p].runLen \in Nat /\ loc[p].after \in BOOLEAN
    BY <1>0 DEF Local
  <2>3. RunState(p) \in EventStates
    BY DEF RunState, EventStates
  <2>4. row \in EventRow
    BY <1>1, <2>1, <2>2, <2>3 DEF EventRow
  <2>5. InsertEvent(loc[p].src, row)
    BY <1>6 DEF CreateEvent
  <2> HIDE DEF row
  <2>6. TablesOK'
    BY <1>0, <1>1, <1>6, <2>1, <2>4, <2>5, InsertEventTyped DEF CreateEvent
  <2> QED BY <1>6, <2>1, <2>6, CorrelatedTyped DEF CreateEvent
<1>7. CASE Raise(p)
  <2>1. RaisedState(p) \in EventStates
    BY <1>0, <1>7 DEF Raise, RaisedState, LocalsFit, EventStates
  <2>2. loc[p].confirmed \in BOOLEAN /\ loc[p].closed \in BOOLEAN
    BY <1>0 DEF Local
  <2>3. TablesOK'
    BY <1>0, <1>1, <1>7, <2>1, <2>2, SetStateTyped DEF Raise, RunLabels
  <2>4. LocalsFit("update_run", loc[p])
    BY <1>0, <1>7 DEF Raise, LocalsFit, IngestLabels, UnconfirmedLabels, CorrelatedLabels, RunLabels
  <2> QED BY <1>7, <2>3, <2>4, GotoTyped DEF Raise, Labels
<1>8. CASE ExtendRun(p)
  <2>1. pc[p] \in RunLabels
    BY <1>8 DEF ExtendRun, RunLabels
  <2>2. loc[p].anomaly \in Anomalies \cup {""} /\ loc[p].runLen \in Nat /\ loc[p].after \in BOOLEAN
    BY <1>0 DEF Local
  <2>3. TablesOK'
    BY <1>0, <1>1, <1>8, <2>1, <2>2, UpdateRunTyped DEF ExtendRun
  <2> QED BY <1>8, <2>1, <2>3, CorrelatedTyped DEF ExtendRun
<1> QED
  BY <1>2, <1>3, <1>4, <1>5, <1>6, <1>7, <1>8,
     CountRunTyped, ReadRestartTyped, FindSettledTyped, FindOpenEventTyped
  DEF CorrelatorStep

-----------------------------------------------------------------------------
(* Ingest *)

\* A batch is a non-empty sequence of items.
LEMMA BatchTyped ==
  ASSUME NEW batch \in Batches
  PROVE  batch \in Seq(Item) /\ batch # <<>> /\ batch[1] \in Item /\ Tail(batch) \in Seq(Item)
<1>1. PICK n \in 1..MaxBatch : batch \in [1..n -> Item]
  BY DEF Batches
<1>2. n \in Nat /\ n >= 1
  BY <1>1, RequestsAssumption
<1>3. batch \in Seq(Item) /\ Len(batch) = n
  BY <1>1, <1>2, IsASeq, LenProperties
<1>4. batch # <<>>
  BY <1>2, <1>3, EmptySeq
<1> QED BY <1>1, <1>2, <1>3, <1>4, HeadTailProperties

\* The locals of a request that is about to process an item.
LEMMA ItemTyped ==
  ASSUME NEW s \in Sources, NEW q \in 0..MaxSeq, NEW x \in Samples, NEW rest \in Seq(Item)
  PROVE  LET l == [Request("ingest", s) EXCEPT !.seq = q, !.sample = x, !.rest = rest]
         IN  l \in Local /\ LocalsFit("lock", l)
<1> DEFINE r == Request("ingest", s)
           l == [r EXCEPT !.seq = q, !.sample = x, !.rest = rest]
<1>1. r \in Local /\ r.op = "ingest" /\ r.src = s
  BY RequestTyped DEF AllOps
<1> HIDE DEF r
<1>2. l \in Local
  BY <1>1 DEF Local
<1>3. l.op = "ingest" /\ l.src = s /\ l.sample = x
  BY <1>1 DEF Local
<1> HIDE DEF l
<1>4. LocalsFit("lock", l)
  BY <1>3 DEF LocalsFit, IngestLabels, UnconfirmedLabels, CorrelatedLabels, RunLabels
<1> QED BY <1>2, <1>4 DEF l, r

LEMMA SubmitTyped ==
  ASSUME Typed, NEW p \in Procs, NEW s \in Sources, Submit(p, s)
  PROVE  Typed'
<1>1. PICK batch \in Batches :
        /\ Arrive(p, "ingest", s, "lock",
                  [Request("ingest", s) EXCEPT !.seq = batch[1].seq,
                                               !.sample = batch[1].sample,
                                               !.rest = Tail(batch)])
        /\ UNCHANGED <<tables, lock>>
  BY DEF Submit
<1>2. batch[1].seq \in 0..MaxSeq /\ batch[1].sample \in Samples /\ Tail(batch) \in Seq(Item)
  BY <1>1, BatchTyped DEF Item
<1> DEFINE l == [Request("ingest", s) EXCEPT !.seq = batch[1].seq,
                                             !.sample = batch[1].sample,
                                             !.rest = Tail(batch)]
<1>3. l \in Local /\ LocalsFit("lock", l)
  BY <1>2, ItemTyped
<1>4. Arrive(p, "ingest", s, "lock", l)
  BY <1>1
<1> HIDE DEF l
<1> QED BY <1>1, <1>3, <1>4, ArriveTyped DEF Labels, AllOps

LEMMA InsertWindowTyped ==
  ASSUME TablesOK, NEW s \in Sources, NEW q \in Seqs, NEW x \in Samples,
         InsertWindow(s, q, x), UNCHANGED notWindows
  PROVE  TablesOK'
<1>1. [status |-> "new", anomaly |-> "", sample |-> x] \in WindowRow
  BY DEF WindowRow, WindowStatuses
<1>2. windows[s] \in [Seqs -> WindowRow]
  BY DEF TablesOK
<1>3. [windows[s] EXCEPT ![q] = [status |-> "new", anomaly |-> "", sample |-> x]]
        \in [Seqs -> WindowRow]
  BY <1>1, <1>2
<1> QED BY <1>3 DEF TablesOK, InsertWindow, notWindows

\* A window that Ingest lets through has a number.
LEMMA VerdictAdmits ==
  ASSUME NEW row, NEW q \in 0..MaxSeq, NEW x, Verdict(row, q, x) = "none"
  PROVE  q \in Seqs /\ row.state # "absent" /\ row.state # "sealed" /\ ~(q <= row.lastSeq)
<1>1. row.state # "absent" /\ row.state # "sealed"
  BY DEF Verdict
<1>2. Verdict(row, q, x) = IF ~ValidWindow(q, x) THEN "invalid"
                           ELSE IF q <= row.lastSeq THEN "conflict" ELSE "none"
  BY <1>1 DEF Verdict
<1>3. ValidWindow(q, x) /\ ~(q <= row.lastSeq)
  BY <1>2
<1> QED BY <1>1, <1>3, DomainAssumption DEF ValidWindow, Seqs

LEMMA IngestStepTyped ==
  ASSUME Typed, NEW p \in Procs, IngestStep(p)
  PROVE  Typed'
<1> USE DEF At
<1>0. /\ loc[p] \in Local /\ LocalsFit(pc[p], loc[p]) /\ TablesOK
      /\ lock \in [Sources -> Procs \cup {None}]
      /\ pc \in [Procs -> Labels] /\ loc \in [Procs -> Local]
  BY LocalTyped
<1>1. ASSUME pc[p] \in IngestLabels
      PROVE  loc[p].src \in Sources /\ loc[p].op = "ingest" /\ loc[p].sample \in Samples
  BY <1>0, <1>1 DEF LocalsFit, IngestLabels
<1>2. ASSUME pc[p] \in UnconfirmedLabels PROVE loc[p].seq \in Seqs
  BY <1>0, <1>2 DEF LocalsFit
<1>3. CASE Acquire(p)
  <2>1. LocalsFit("get", loc[p])
    BY <1>0, <1>3 DEF Acquire, LocalsFit, IngestLabels, UnconfirmedLabels, CorrelatedLabels, RunLabels
  <2>2. lock' \in [Sources -> Procs \cup {None}] /\ loc' = [loc EXCEPT ![p] = loc[p]]
    BY <1>0, <1>3 DEF Acquire
  <2> QED BY <1>0, <1>3, <2>1, <2>2, UnchangedTyped, StepTyped DEF Acquire, Goto, Labels
<1>4. CASE Refuse(p)
  <2> DEFINE verdict == Verdict(sources[loc[p].src], loc[p].seq, loc[p].sample)
  <2>1. verdict \in Replies
    BY DEF Verdict, Replies
  <2>2. Answer(p, verdict) /\ pc[p] # "idle" /\ UNCHANGED <<tables, lock>>
    BY <1>4 DEF Refuse
  <2> HIDE DEF verdict
  <2> QED BY <1>0, <2>1, <2>2, UnchangedTyped, AnswerTyped
<1>5. CASE Admit(p)
  <2> DEFINE l == [loc[p] EXCEPT !.seen = sources[loc[p].src].state]
  <2>1. sources[loc[p].src] \in SourceRow
    BY <1>0, <1>1, <1>5 DEF Admit, IngestLabels, TablesOK
  <2>2. sources[loc[p].src].state \in SourceStates \cup {"absent"}
    BY <2>1 DEF SourceRow
  <2>3. l \in Local /\ l.src = loc[p].src /\ l.op = loc[p].op /\ l.sample = loc[p].sample
        /\ l.seq = loc[p].seq
    BY <1>0, <2>2, ZenonT(60) DEF Local
  <2>4. loc[p].seq \in Seqs
    <3>1. loc[p].seq \in 0..MaxSeq
      BY <1>0 DEF Local
    <3>2. Verdict(sources[loc[p].src], loc[p].seq, loc[p].sample) = "none"
      BY <1>5 DEF Admit
    <3> HIDE DEF l
    <3> QED BY <3>1, <3>2, VerdictAdmits, Zenon
  <2>5. loc' = [loc EXCEPT ![p] = l]
    BY <1>5 DEF Admit
  <2> HIDE DEF l
  <2>6. LocalsFit("create", l)
    BY <1>1, <1>5, <2>3, <2>4
    DEF Admit, LocalsFit, IngestLabels, UnconfirmedLabels, CorrelatedLabels, RunLabels
  <2> QED BY <1>0, <1>5, <2>3, <2>5, <2>6, UnchangedTyped, StepTyped DEF Admit, Goto, Labels
<1>6. CASE CreateWindow(p)
  <2>1. PICK hashes : loc' = [loc EXCEPT ![p] = [@ EXCEPT
                                !.replay = IsReplay(loc[p].sample, hashes), !.test = 1]]
    BY <1>6 DEF CreateWindow
  <2> DEFINE replay == IsReplay(loc[p].sample, hashes)
             first  == 1
             l == [loc[p] EXCEPT !.replay = replay, !.test = first]
  <2>6. replay \in BOOLEAN /\ first \in 1..4
    BY DEF IsReplay
  <2>3. loc' = [loc EXCEPT ![p] = l]
    BY <2>1
  <2> HIDE DEF replay, first
  <2>2. l \in Local /\ l.src = loc[p].src /\ l.op = loc[p].op /\ l.sample = loc[p].sample
        /\ l.seq = loc[p].seq
    BY <1>0, <2>6, ZenonT(60) DEF Local
  <2> HIDE DEF l
  <2>4. LocalsFit("evaluate", l)
    BY <1>1, <1>2, <1>6, <2>2
    DEF CreateWindow, LocalsFit, IngestLabels, UnconfirmedLabels, CorrelatedLabels, RunLabels
  <2>5. TablesOK' /\ UNCHANGED lock
    BY <1>0, <1>1, <1>2, <1>6, InsertWindowTyped
    DEF CreateWindow, IngestLabels, UnconfirmedLabels
  <2> QED BY <1>0, <1>6, <2>2, <2>3, <2>4, <2>5, StepTyped DEF CreateWindow, Goto, Labels
<1>7. CASE CreateConflict(p)
  BY <1>0, <1>7, UnchangedTyped, AnswerTyped DEF CreateConflict, Replies
<1>8. CASE StoreTest(p)
  <2>1. loc[p].src \in Sources /\ loc[p].sample \in Samples /\ loc[p].seq \in Seqs
    BY <1>1, <1>2, <1>8 DEF StoreTest, IngestLabels, UnconfirmedLabels
  <2>2. loc[p].test \in 1..4 /\ RunOrder[loc[p].test] \in Categories /\ Len(RunOrder) = 4
    <3>1. loc[p].test \in 1..4
      BY <1>0 DEF Local
    <3>2. Len(RunOrder) = 4 /\ \A k \in 1..4 : RunOrder[k] \in Categories
      BY DEF RunOrder, Categories
    <3> QED BY <3>1, <3>2
  <2>3. TablesOK' /\ UNCHANGED lock
    BY <1>0, <1>8, <2>1, <2>2, InsertTestTyped DEF StoreTest
  <2>4. CASE loc[p].test < 4 /\ loc' = [loc EXCEPT ![p].test = @ + 1] /\ UNCHANGED pc
    <3> DEFINE l == [loc[p] EXCEPT !.test = loc[p].test + 1]
    <3>1. loc[p].test + 1 \in 1..4
      BY <2>2, <2>4
    <3>2. l \in Local /\ l.src = loc[p].src /\ l.op = loc[p].op /\ l.sample = loc[p].sample
          /\ l.seq = loc[p].seq
      BY <1>0, <3>1, ZenonT(60) DEF Local
    <3>3. loc' = [loc EXCEPT ![p] = l] /\ pc' = [pc EXCEPT ![p] = "evaluate"]
      BY <1>0, <1>8, <2>4 DEF StoreTest
    <3> HIDE DEF l
    <3>4. LocalsFit("evaluate", l)
      BY <1>1, <1>8, <2>1, <3>2
      DEF StoreTest, LocalsFit, IngestLabels, UnconfirmedLabels, CorrelatedLabels, RunLabels
    <3> QED BY <1>0, <2>3, <3>2, <3>3, <3>4, StepTyped DEF Labels
  <2>5. CASE UNCHANGED loc /\ Goto(p, "status")
    <3>1. LocalsFit("status", loc[p])
      BY <1>1, <1>8, <2>1
      DEF StoreTest, LocalsFit, IngestLabels, UnconfirmedLabels, CorrelatedLabels, RunLabels
    <3> QED BY <2>3, <2>5, <3>1, GotoTyped DEF Labels
  <2> QED BY <1>8, <2>2, <2>4, <2>5 DEF StoreTest
<1>9. CASE StoreStatus(p)
  <2> DEFINE status  == ResolvedStatus(loc[p].replay, loc[p].sample)
             anomaly == ResolvedAnomaly(loc[p].replay, loc[p].sample)
             l == [loc[p] EXCEPT !.status = status, !.anomaly = anomaly]
  <2>1. loc[p].src \in Sources /\ loc[p].sample \in Samples /\ loc[p].seq \in Seqs
    BY <1>1, <1>2, <1>9 DEF StoreStatus, IngestLabels, UnconfirmedLabels
  <2>2. loc[p].replay \in BOOLEAN
    BY <1>0 DEF Local
  <2>3. status \in FinalStatuses /\ anomaly \in Anomalies \cup {""}
    BY <2>1, <2>2, ResolvedTyped
  <2>4. UpdateStatus(loc[p].src, loc[p].seq, status, anomaly) /\ UNCHANGED <<notWindows, lock>>
        /\ loc' = [loc EXCEPT ![p] = l]
    BY <1>9 DEF StoreStatus
  <2> HIDE DEF status, anomaly
  <2>5. l \in Local /\ l.src = loc[p].src /\ l.op = loc[p].op /\ l.sample = loc[p].sample
        /\ l.seq = loc[p].seq
    BY <1>0, <2>3, ZenonT(60) DEF Local, FinalStatuses
  <2>6. TablesOK'
    BY <1>0, <2>1, <2>3, <2>4, UpdateStatusTyped DEF FinalStatuses
  <2> HIDE DEF l
  <2>7. LocalsFit("lastseq", l)
    BY <1>1, <1>9, <2>1, <2>5
    DEF StoreStatus, LocalsFit, IngestLabels, UnconfirmedLabels, CorrelatedLabels, RunLabels
  <2> QED BY <1>0, <1>9, <2>4, <2>5, <2>6, <2>7, StepTyped DEF StoreStatus, Goto, Labels
<1>10. CASE StoreLastSeq(p)
  <2>1. loc[p].src \in Sources /\ loc[p].seq \in Seqs
    BY <1>1, <1>2, <1>10 DEF StoreLastSeq, IngestLabels, UnconfirmedLabels
  <2>2. [sources[loc[p].src] EXCEPT !.lastSeq = loc[p].seq] \in SourceRow
    <3>1. ASSUME NEW row \in SourceRow, NEW q \in Seqs
          PROVE  [row EXCEPT !.lastSeq = q] \in SourceRow
      BY DomainAssumption DEF SourceRow, Seqs
    <3>2. sources[loc[p].src] \in SourceRow
      BY <1>0, <2>1 DEF TablesOK
    <3> QED BY <2>1, <3>1, <3>2
  <2>3. TablesOK'
    BY <1>0, <1>10, <2>1, <2>2, SourcesTyped DEF StoreLastSeq, SetLastSeq
  <2>4. \A label \in {"observe", "recent"} : LocalsFit(label, loc[p])
    BY <1>1, <1>10, <2>1
    DEF StoreLastSeq, LocalsFit, IngestLabels, UnconfirmedLabels, CorrelatedLabels, RunLabels
  <2> QED BY <1>10, <2>3, <2>4, GotoTyped DEF StoreLastSeq, Labels
<1>11. CASE Return(p)
  <2>1. TablesOK'
    BY <1>0, <1>11, UnchangedTyped DEF Return
  <2>2. loc[p].src \in Sources /\ lock' \in [Sources -> Procs \cup {None}]
    BY <1>0, <1>1, <1>11 DEF Return, IngestLabels
  <2>3. CASE loc' = [loc EXCEPT ![p] = Blank] /\ Goto(p, "idle")
    <3>1. LocalsFit("idle", Blank)
      BY DEF LocalsFit, IngestLabels, UnconfirmedLabels, CorrelatedLabels, RunLabels
    <3> QED BY <2>1, <2>2, <2>3, <3>1, BlankTyped, StepTyped DEF Goto, Labels
  <2>4. CASE /\ loc[p].rest # <<>>
             /\ loc' = [loc EXCEPT ![p] =
                          [Request("ingest", loc[p].src) EXCEPT
                             !.seq = Head(loc[p].rest).seq,
                             !.sample = Head(loc[p].rest).sample,
                             !.rest = Tail(loc[p].rest)]]
             /\ Goto(p, "lock")
    <3> DEFINE l == [Request("ingest", loc[p].src) EXCEPT
                       !.seq = Head(loc[p].rest).seq,
                       !.sample = Head(loc[p].rest).sample,
                       !.rest = Tail(loc[p].rest)]
    <3>1. loc[p].rest \in Seq(Item)
      BY <1>0 DEF Local
    <3>2. Head(loc[p].rest) \in Item /\ Tail(loc[p].rest) \in Seq(Item)
      BY <2>4, <3>1, HeadTailProperties
    <3>3. Head(loc[p].rest).seq \in 0..MaxSeq /\ Head(loc[p].rest).sample \in Samples
      BY <3>2 DEF Item
    <3>4. l \in Local /\ LocalsFit("lock", l)
      BY <2>2, <3>2, <3>3, ItemTyped
    <3>5. loc' = [loc EXCEPT ![p] = l]
      BY <2>4
    <3> HIDE DEF l
    <3> QED BY <2>1, <2>2, <2>4, <3>4, <3>5, StepTyped DEF Goto, Labels
  <2> QED BY <1>11, <2>3, <2>4 DEF Return
<1> QED
  BY <1>3, <1>4, <1>5, <1>6, <1>7, <1>8, <1>9, <1>10, <1>11 DEF IngestStep

-----------------------------------------------------------------------------
(* Service *)

LEMMA ServiceRequestTyped ==
  ASSUME Typed, NEW p \in Procs, NEW s \in Sources, ServiceRequest(p, s)
  PROVE  Typed'
<1>0. TablesOK
  BY LocalTyped
<1>1. CASE Register(p, s)
  <2>1. LocalsFit("insert_source", Request("register", s))
    BY RequestTyped
    DEF LocalsFit, IngestLabels, UnconfirmedLabels, CorrelatedLabels, RunLabels, AllOps
  <2> QED BY <1>1, <2>1, RequestTyped, ArriveTyped DEF Register, Labels, AllOps
<1>2. CASE Restart(p, s)
  <2>1. PICK at \in Seqs :
          Arrive(p, "restart", s, "restart_insert", [Request("restart", s) EXCEPT !.seq = at])
    BY <1>2 DEF Restart
  <2> DEFINE r == Request("restart", s)
             l == [r EXCEPT !.seq = at]
  <2>2. r \in Local /\ r.op = "restart" /\ r.src = s
    BY RequestTyped DEF AllOps
  <2>3. at \in 0..MaxSeq
    BY DomainAssumption DEF Seqs
  <2>4. Arrive(p, "restart", s, "restart_insert", l)
    BY <2>1
  <2> HIDE DEF r
  <2>5. l \in Local
    BY <2>2, <2>3 DEF Local
  <2>6. l.op = "restart" /\ l.src = s /\ l.seq = at
    BY <2>2 DEF Local
  <2> HIDE DEF l
  <2>7. LocalsFit("restart_insert", l)
    BY <2>6 DEF LocalsFit, IngestLabels, UnconfirmedLabels, CorrelatedLabels, RunLabels
  <2> QED BY <1>2, <2>4, <2>5, <2>7, ArriveTyped DEF Restart, Labels, AllOps
<1>3. CASE Confirm(p, s)
  <2>1. PICK i \in DOMAIN events[s] :
          Arrive(p, "confirm", s, "confirm", [Request("confirm", s) EXCEPT !.row = i])
    BY <1>3 DEF Confirm
  <2> DEFINE r == Request("confirm", s)
             l == [r EXCEPT !.row = i]
  <2>2. r \in Local /\ r.op = "confirm" /\ r.src = s
    BY RequestTyped DEF AllOps
  <2>3. i \in Nat
    BY <1>0, LenProperties DEF TablesOK
  <2>4. Arrive(p, "confirm", s, "confirm", l)
    BY <2>1
  <2> HIDE DEF r
  <2>5. l \in Local /\ l.op = "confirm" /\ l.src = s
    BY <2>2, <2>3 DEF Local
  <2> HIDE DEF l
  <2>6. LocalsFit("confirm", l)
    BY <2>5 DEF LocalsFit, IngestLabels, UnconfirmedLabels, CorrelatedLabels, RunLabels
  <2> QED BY <1>3, <2>4, <2>5, <2>6, ArriveTyped DEF Confirm, Labels, AllOps
<1>4. CASE Close(p, s)
  <2>1. PICK i \in DOMAIN events[s] :
          Arrive(p, "close", s, "close",
                 [Request("close", s) EXCEPT !.row = i,
                                             !.confirmed = ReadTime(events[s][i].confirmedAt)])
    BY <1>4 DEF Close
  <2> DEFINE r == Request("close", s)
             c == ReadTime(events[s][i].confirmedAt)
             l == [r EXCEPT !.row = i, !.confirmed = c]
  <2>2. r \in Local /\ r.op = "close" /\ r.src = s
    BY RequestTyped DEF AllOps
  <2>3. i \in Nat /\ events[s][i] \in EventRow
    BY <1>0, SeqElement, LenProperties DEF TablesOK
  <2>4. c \in BOOLEAN
    BY <2>3 DEF ReadTime, EventRow
  <2>5. Arrive(p, "close", s, "close", l)
    BY <2>1
  <2> HIDE DEF r, c
  <2>6. l \in Local /\ l.op = "close" /\ l.src = s
    BY <2>2, <2>3, <2>4, ZenonT(60) DEF Local
  <2> HIDE DEF l
  <2>7. LocalsFit("close", l)
    BY <2>6 DEF LocalsFit, IngestLabels, UnconfirmedLabels, CorrelatedLabels, RunLabels
  <2> QED BY <1>4, <2>5, <2>6, <2>7, ArriveTyped DEF Close, Labels, AllOps
<1>5. CASE Reevaluate(p, s)
  <2>1. PICK q \in Seqs :
          LET failed == {t.category : t \in {u \in ListByWindow(s, q) : ~u.passed}}
          IN  Arrive(p, "reevaluate", s, "reevaluate",
                     [Request("reevaluate", s) EXCEPT
                        !.seq = q, !.status = StatStatus(failed),
                        !.anomaly = StatAnomaly(AlphaOrder, failed)])
    BY <1>5 DEF Reevaluate
  <2> DEFINE failed == {t.category : t \in {u \in ListByWindow(s, q) : ~u.passed}}
             r == Request("reevaluate", s)
             st == StatStatus(failed)
             an == StatAnomaly(AlphaOrder, failed)
             l == [r EXCEPT !.seq = q, !.status = st, !.anomaly = an]
  <2>2. ListByWindow(s, q) \in SUBSET StoredTest
    BY <1>0, SeqElement DEF TablesOK, ListByWindow
  <2>3. failed \in SUBSET Categories
    BY <2>2 DEF StoredTest
  <2>4. st \in FinalStatuses /\ an \in Anomalies \cup {""}
    <3> HIDE DEF failed
    <3> QED BY <2>3, StatTyped
  <2>5. Arrive(p, "reevaluate", s, "reevaluate", l)
    BY <2>1
  <2>6. r \in Local /\ r.op = "reevaluate" /\ r.src = s /\ q \in 0..MaxSeq
    BY RequestTyped, DomainAssumption DEF AllOps, Seqs
  <2> HIDE DEF failed, r, st, an
  <2>7. l \in Local
    BY <2>4, <2>6 DEF Local, FinalStatuses
  <2>8. l.op = "reevaluate" /\ l.src = s /\ l.seq = q /\ l.status = st
    BY <2>6 DEF Local
  <2> HIDE DEF l
  <2>9. LocalsFit("reevaluate", l)
    BY <2>4, <2>8 DEF LocalsFit, IngestLabels, UnconfirmedLabels, CorrelatedLabels, RunLabels
  <2> QED BY <1>5, <2>5, <2>7, <2>9, ArriveTyped DEF Reevaluate, Labels, AllOps
<1> QED BY <1>1, <1>2, <1>3, <1>4, <1>5 DEF ServiceRequest

LEMMA ServiceStepTyped ==
  ASSUME Typed, NEW p \in Procs, ServiceStep(p)
  PROVE  Typed'
<1> USE DEF At
<1>0. /\ loc[p] \in Local /\ LocalsFit(pc[p], loc[p]) /\ TablesOK
  BY LocalTyped
<1>1. pc[p] # "idle" /\ loc[p].src \in Sources /\ loc[p].confirmed \in BOOLEAN
  <2>1. pc[p] # "idle"
    BY DEF ServiceStep, InsertedSource, DuplicateSource, InsertedRestart, SetConfirmed,
           SetClosed, SetReevaluated
  <2> QED BY <1>0, <2>1 DEF LocalsFit, Local
<1>2. CASE InsertedSource(p)
  <2>1. [NoSource EXCEPT !.state = "enabled"] \in SourceRow
    BY RowsTyped DEF SourceRow, SourceStates
  <2>2. TablesOK'
    BY <1>0, <1>1, <1>2, <2>1, SourcesTyped DEF InsertedSource, InsertSource
  <2> QED BY <1>1, <1>2, <2>2, AnswerTyped DEF InsertedSource, Replies
<1>3. CASE DuplicateSource(p)
  BY <1>0, <1>1, <1>3, UnchangedTyped, AnswerTyped DEF DuplicateSource, Replies
<1>4. CASE InsertedRestart(p)
  <2>1. loc[p].seq \in Seqs
    BY <1>0, <1>4 DEF InsertedRestart, LocalsFit
  <2>2. [atSeq |-> loc[p].seq] \in RestartRow
    BY <2>1 DEF RestartRow
  <2>3. restarts' \in [Sources -> SUBSET RestartRow]
    BY <1>0, <1>1, <1>4, <2>2 DEF TablesOK, InsertedRestart, InsertRestart
  <2>4. TablesOK'
    BY <1>0, <1>4, <2>3 DEF TablesOK, InsertedRestart, notRestarts
  <2> QED BY <1>1, <1>4, <2>4, AnswerTyped DEF InsertedRestart, Replies
<1>5. CASE SetConfirmed(p)
  <2>1. TablesOK'
    BY <1>0, <1>1, <1>5, SetStateTyped DEF SetConfirmed, EventStates
  <2> QED BY <1>1, <1>5, <2>1, AnswerTyped DEF SetConfirmed, Replies
<1>6. CASE SetClosed(p)
  <2>1. TablesOK'
    BY <1>0, <1>1, <1>6, SetStateTyped DEF SetClosed, EventStates
  <2> QED BY <1>1, <1>6, <2>1, AnswerTyped DEF SetClosed, Replies
<1>7. CASE SetReevaluated(p)
  <2>1. loc[p].seq \in Seqs /\ loc[p].status \in WindowStatuses /\ loc[p].anomaly \in Anomalies \cup {""}
    <3>1. loc[p].seq \in Seqs /\ loc[p].status \in FinalStatuses
      BY <1>0, <1>7 DEF SetReevaluated, LocalsFit
    <3>2. loc[p].anomaly \in Anomalies \cup {""}
      BY <1>0 DEF Local
    <3> QED BY <3>1, <3>2 DEF FinalStatuses
  <2>2. TablesOK'
    BY <1>0, <1>1, <1>7, <2>1, UpdateStatusTyped DEF SetReevaluated
  <2> QED BY <1>1, <1>7, <2>2, AnswerTyped DEF SetReevaluated, Replies
<1> QED BY <1>2, <1>3, <1>4, <1>5, <1>6, <1>7 DEF ServiceStep

-----------------------------------------------------------------------------
(* Snapshot *)

LEMMA SnapshotRequestTyped ==
  ASSUME Typed, NEW p \in Procs, NEW s \in Sources, SnapshotRequest(p, s)
  PROVE  Typed'
<1>0. TablesOK
  BY LocalTyped
<1>1. CASE Draft(p, s)
  <2>1. LocalsFit("snap_version", Request("draft", s))
    BY RequestTyped
    DEF LocalsFit, IngestLabels, UnconfirmedLabels, CorrelatedLabels, RunLabels, AllOps
  <2> QED BY <1>1, <2>1, RequestTyped, ArriveTyped DEF Draft, Labels, AllOps
<1>2. CASE Publish(p, s)
  <2>1. PICK i \in DOMAIN snaps[s] :
          Arrive(p, "publish", s, "snap_publish", [Request("publish", s) EXCEPT !.snap = i])
    BY <1>2 DEF Publish
  <2> DEFINE r == Request("publish", s)
             l == [r EXCEPT !.snap = i]
  <2>2. r \in Local /\ r.op = "publish" /\ r.src = s
    BY RequestTyped DEF AllOps
  <2>3. i \in Nat
    BY <1>0, LenProperties DEF TablesOK
  <2>4. Arrive(p, "publish", s, "snap_publish", l)
    BY <2>1
  <2> HIDE DEF r
  <2>5. l \in Local /\ l.op = "publish" /\ l.src = s
    BY <2>2, <2>3 DEF Local
  <2> HIDE DEF l
  <2>6. LocalsFit("snap_publish", l)
    BY <2>5 DEF LocalsFit, IngestLabels, UnconfirmedLabels, CorrelatedLabels, RunLabels
  <2> QED BY <1>2, <2>4, <2>5, <2>6, ArriveTyped DEF Publish, Labels, AllOps
<1>3. CASE Supersede(p, s)
  <2>1. PICK i \in DOMAIN snaps[s] :
          Arrive(p, "supersede", s, "snap_version", [Request("supersede", s) EXCEPT !.row = i])
    BY <1>3 DEF Supersede
  <2> DEFINE r == Request("supersede", s)
             l == [r EXCEPT !.row = i]
  <2>2. r \in Local /\ r.op = "supersede" /\ r.src = s
    BY RequestTyped DEF AllOps
  <2>3. i \in Nat
    BY <1>0, LenProperties DEF TablesOK
  <2>4. Arrive(p, "supersede", s, "snap_version", l)
    BY <2>1
  <2> HIDE DEF r
  <2>5. l \in Local /\ l.op = "supersede" /\ l.src = s
    BY <2>2, <2>3 DEF Local
  <2> HIDE DEF l
  <2>6. LocalsFit("snap_version", l)
    BY <2>5 DEF LocalsFit, IngestLabels, UnconfirmedLabels, CorrelatedLabels, RunLabels
  <2> QED BY <1>3, <2>4, <2>5, <2>6, ArriveTyped DEF Supersede, Labels, AllOps
<1> QED BY <1>1, <1>2, <1>3 DEF SnapshotRequest

\* A query of Draft freezes a typed payload and goes on to the next one.
LEMMA FreezeTyped ==
  ASSUME Typed, UNCHANGED <<tables, lock>>, NEW p \in Procs,
         pc[p] \in {"snap_source", "snap_windows", "snap_tests", "snap_events"},
         NEW label \in {"snap_windows", "snap_tests", "snap_events", "snap_insert", "view_restarts"},
         Goto(p, label), NEW evidence \in Payload, FreezeIn(p, evidence)
  PROVE  Typed'
<1>0. /\ loc[p] \in Local /\ LocalsFit(pc[p], loc[p]) /\ TablesOK
      /\ lock \in [Sources -> Procs \cup {None}]
  BY LocalTyped
<1> DEFINE l == [loc[p] EXCEPT !.payload = evidence]
<1>1. l \in Local /\ l.src = loc[p].src /\ l.op = loc[p].op /\ l.sample = loc[p].sample
  BY <1>0, ZenonT(60) DEF Local
<1>2. loc' = [loc EXCEPT ![p] = l]
  BY DEF FreezeIn
<1> HIDE DEF l
<1>3. LocalsFit(label, l)
  BY <1>0, <1>1 DEF LocalsFit, IngestLabels, UnconfirmedLabels, CorrelatedLabels, RunLabels
<1>4. TablesOK' /\ UNCHANGED lock
  BY <1>0, UnchangedTyped
<1>5. label \in Labels /\ pc' = [pc EXCEPT ![p] = label]
  BY DEF Goto, Labels
<1> QED BY <1>0, <1>1, <1>2, <1>3, <1>4, <1>5, StepTyped

LEMMA SnapshotStepTyped ==
  ASSUME Typed, NEW p \in Procs, SnapshotStep(p)
  PROVE  Typed'
<1> USE DEF At
<1>0. /\ loc[p] \in Local /\ LocalsFit(pc[p], loc[p]) /\ TablesOK
      /\ lock \in [Sources -> Procs \cup {None}]
  BY LocalTyped
<1>1. pc[p] # "idle"
  BY DEF SnapshotStep, ReadVersion, SnapshotOfNothing, ReadSource, ReadWindows, ReadTests,
         ReadEvents, InsertDraft, SetPublished, SetSuperseded
<1>2. loc[p].src \in Sources /\ loc[p].payload \in Payload /\ loc[p].version \in Nat
      /\ loc[p].row \in Nat /\ loc[p].snap \in Nat
  BY <1>0, <1>1 DEF LocalsFit, Local
<1>3. CASE ReadVersion(p)
  <2>1. PICK v \in NextVersion(loc[p].src) : loc' = [loc EXCEPT ![p].version = v]
    BY <1>3 DEF ReadVersion
  <2>2. v \in Nat
    BY DEF NextVersion
  <2> DEFINE l == [loc[p] EXCEPT !.version = v]
  <2>3. l \in Local /\ l.src = loc[p].src /\ l.op = loc[p].op /\ l.sample = loc[p].sample
    BY <1>0, <2>2, ZenonT(60) DEF Local
  <2>4. loc' = [loc EXCEPT ![p] = l]
    BY <2>1
  <2> HIDE DEF l
  <2>5. LocalsFit("snap_source", l)
    BY <1>0, <1>3, <2>3
    DEF ReadVersion, LocalsFit, IngestLabels, UnconfirmedLabels, CorrelatedLabels, RunLabels
  <2> QED BY <1>0, <1>3, <2>3, <2>4, <2>5, UnchangedTyped, StepTyped DEF ReadVersion, Goto, Labels
<1>4. CASE SnapshotOfNothing(p)
  BY <1>0, <1>1, <1>4, UnchangedTyped, AnswerTyped DEF SnapshotOfNothing, Replies
<1>5. CASE ReadSource(p)
  <2>1. sources[loc[p].src] \in SourceRow
    BY <1>0, <1>2 DEF TablesOK
  <2>2. ASSUME NEW row \in SourceRow
        PROVE  [loc[p].payload EXCEPT !.state = row.state, !.baseline = row.baseline] \in Payload
    BY <1>2 DEF SourceRow, Payload
  <2>3. [loc[p].payload EXCEPT !.state = sources[loc[p].src].state,
                               !.baseline = sources[loc[p].src].baseline] \in Payload
    BY <2>1, <2>2
  <2> QED BY <1>5, <2>3, FreezeTyped DEF ReadSource
<1>6. CASE ReadWindows(p)
  <2> DEFINE total == Cardinality(Recorded(loc[p].src))
             valid == Cardinality(ValidSeqs(loc[p].src))
             missing == loc[p].payload.baseline = NULL /\ total > 0
             evidence == [loc[p].payload EXCEPT !.total = total, !.valid = valid,
                                                !.baselineMissing = missing]
  <2>1. Recorded(loc[p].src) \in SUBSET Seqs /\ ValidSeqs(loc[p].src) \in SUBSET Seqs
    BY DEF Recorded, ValidSeqs
  <2>2. total \in Nat /\ valid \in Nat
    BY <2>1, SeqsFinite
  <2>3. missing \in BOOLEAN
    OBVIOUS
  <2>4. FreezeIn(p, evidence)
    BY <1>6 DEF ReadWindows
  <2> HIDE DEF total, valid, missing
  <2>5. evidence \in Payload
    BY <1>2, <2>2, <2>3 DEF Payload
  <2> HIDE DEF evidence
  <2> QED BY <1>6, <2>4, <2>5, FreezeTyped DEF ReadWindows
<1>7. CASE ReadTests(p)
  <2> DEFINE failures == SummaryForSource(loc[p].src)
             evidence == [loc[p].payload EXCEPT !.testFailures = failures]
  <2>1. failures \in [Categories -> Nat]
    BY <1>0, <1>2, RowsFinite DEF SummaryForSource, TablesOK
  <2>2. FreezeIn(p, evidence)
    BY <1>7 DEF ReadTests
  <2> HIDE DEF failures
  <2>3. evidence \in Payload
    BY <1>2, <2>1 DEF Payload
  <2> HIDE DEF evidence
  <2> QED BY <1>7, <2>2, <2>3, FreezeTyped DEF ReadTests
<1>8. CASE ReadEvents(p)
  <2> DEFINE open == {i \in ListEvents(loc[p].src) : Open(loc[p].src, i)}
             evidence == [loc[p].payload EXCEPT !.openEvents = open]
  <2>1. DOMAIN events[loc[p].src] \in SUBSET Nat
    BY <1>0, <1>2, LenProperties DEF TablesOK
  <2>2. open \in SUBSET Nat
    BY <2>1 DEF ListEvents
  <2>3. FreezeIn(p, evidence)
    BY <1>8 DEF ReadEvents
  <2> HIDE DEF open
  <2>4. evidence \in Payload
    BY <1>2, <2>2 DEF Payload
  <2>5. Goto(p, "view_restarts") \/ Goto(p, "snap_insert")
    BY <1>8 DEF ReadEvents
  <2> HIDE DEF evidence
  <2> QED BY <1>8, <2>3, <2>4, <2>5, FreezeTyped DEF ReadEvents
<1>9. CASE InsertDraft(p)
  <2>1. TablesOK' /\ UNCHANGED lock
    BY <1>0, <1>2, <1>9, InsertSnapshotTyped DEF InsertDraft
  <2>2. CASE Answer(p, "ok")
    BY <1>1, <2>1, <2>2, AnswerTyped DEF Replies
  <2>3. CASE /\ loc' = [loc EXCEPT ![p].snap = Len(snaps[loc[p].src]) + 1]
             /\ Goto(p, "snap_publish")
    <3> DEFINE n == Len(snaps[loc[p].src]) + 1
               l == [loc[p] EXCEPT !.snap = n]
    <3>1. n \in Nat
      BY <1>0, <1>2, LenProperties DEF TablesOK
    <3>2. loc' = [loc EXCEPT ![p] = l]
      BY <2>3
    <3> HIDE DEF n
    <3>3. l \in Local /\ l.src = loc[p].src /\ l.op = loc[p].op /\ l.sample = loc[p].sample
      BY <1>0, <3>1, ZenonT(60) DEF Local
    <3> HIDE DEF l
    <3>4. LocalsFit("snap_publish", l)
      BY <1>0, <1>9, <3>3
      DEF InsertDraft, LocalsFit, IngestLabels, UnconfirmedLabels, CorrelatedLabels, RunLabels
    <3> QED BY <1>0, <2>1, <2>3, <3>2, <3>3, <3>4, StepTyped DEF Goto, Labels
  <2> QED BY <1>9, <2>2, <2>3 DEF InsertDraft
<1>10. CASE SetPublished(p)
  <2>1. TablesOK' /\ UNCHANGED lock
    BY <1>0, <1>2, <1>10, PublishSnapshotTyped DEF SetPublished
  <2>2. LocalsFit("snap_supersede", loc[p])
    BY <1>0, <1>10
    DEF SetPublished, LocalsFit, IngestLabels, UnconfirmedLabels, CorrelatedLabels, RunLabels
  <2> QED BY <1>1, <1>10, <2>1, <2>2, AnswerTyped, GotoTyped DEF SetPublished, Labels, Replies
<1>11. CASE SetSuperseded(p)
  <2>1. TablesOK' /\ UNCHANGED lock
    BY <1>0, <1>2, <1>11, SupersedeSnapshotTyped DEF SetSuperseded
  <2> QED BY <1>1, <1>11, <2>1, AnswerTyped DEF SetSuperseded, Replies
<1> QED
  BY <1>3, <1>4, <1>5, <1>6, <1>7, <1>8, <1>9, <1>10, <1>11 DEF SnapshotStep

-----------------------------------------------------------------------------
(* The whole service *)

LEMMA InitTyped == Init => Typed
<1> SUFFICES ASSUME Init PROVE Typed
  OBVIOUS
<1> USE DEF Init, DatabaseInit, RequestsInit
<1>1. NoSource \in SourceRow /\ NoWindow \in WindowRow
  BY RowsTyped
<1>2. TablesOK
  BY <1>1, EmptySeq DEF TablesOK
<1>3. ProcsOK
  BY BlankTyped DEF ProcsOK, Labels
<1>4. \A p \in Procs : LocalsFit(pc[p], loc[p])
  BY DEF LocalsFit, IngestLabels, UnconfirmedLabels, CorrelatedLabels, RunLabels
<1> QED BY <1>2, <1>3, <1>4 DEF Typed, TypeOK

LEMMA CrashTyped ==
  ASSUME Typed, Crash
  PROVE  Typed'
<1>1. TablesOK'
  BY UnchangedTyped DEF Crash, Typed, TypeOK
<1>2. ProcsOK'
  BY BlankTyped DEF Crash, ProcsOK, Labels
<1>3. \A p \in Procs : LocalsFit(pc'[p], loc'[p])
  BY DEF Crash, LocalsFit, IngestLabels, UnconfirmedLabels, CorrelatedLabels, RunLabels
<1> QED BY <1>1, <1>2, <1>3 DEF Typed, TypeOK

LEMMA ViewRequestTyped ==
  ASSUME Typed, NEW p \in Procs, NEW s \in Sources, ViewRequest(p, s)
  PROVE  Typed'
<1>1. LocalsFit("snap_source", Request("analysis", s))
  BY RequestTyped
  DEF LocalsFit, IngestLabels, UnconfirmedLabels, CorrelatedLabels, RunLabels, AllOps
<1> QED BY <1>1, RequestTyped, ArriveTyped DEF ViewRequest, Analysis, Labels, AllOps

LEMMA ViewStepTyped ==
  ASSUME Typed, NEW p \in Procs, ViewStep(p)
  PROVE  Typed'
BY LocalTyped, UnchangedTyped, AnswerTyped DEF ViewStep, CountRestarts, At, Replies

\* Typed is inductive.
LEMMA NextTyped == Typed /\ [Next]_vars => Typed'
<1> SUFFICES ASSUME Typed, [Next]_vars PROVE Typed'
  OBVIOUS
<1>1. CASE Crash
  BY <1>1, CrashTyped
<1>2. ASSUME NEW p \in Procs, Accept(p) PROVE Typed'
  BY <1>2, SubmitTyped, IsolateRequestTyped, ServiceRequestTyped, SnapshotRequestTyped,
     ViewRequestTyped DEF Accept
<1>3. ASSUME NEW p \in Procs, Step(p) PROVE Typed'
  BY <1>3, IsolateStepTyped, CorrelatorStepTyped, IngestStepTyped, ServiceStepTyped,
     SnapshotStepTyped, ViewStepTyped DEF Step
<1>4. ASSUME NEW p \in Procs, Fail(p) PROVE Typed'
  BY <1>4, LocalTyped, UnchangedTyped, AnswerTyped DEF Fail, Replies
<1>5. CASE UNCHANGED vars
  BY <1>5 DEF vars, Typed, TypeOK, TablesOK, ProcsOK, LocalsFit
<1> QED BY <1>1, <1>2, <1>3, <1>4, <1>5 DEF Next

\* Typed is an invariant, ...
THEOREM TypedInvariant == Spec => []Typed
<1>1. Init => Typed
  BY InitTyped
<1>2. Typed /\ [Next]_vars => Typed'
  BY NextTyped
<1> QED BY <1>1, <1>2, PTL DEF Spec

\* ... and so is TypeOK: whatever requests run at once, fail or crash, the six
\* tables hold well-formed rows, a row id read is a row id, and no handler stores
\* a window, event or snapshot built from a local value it has not set.
THEOREM TypeCorrect == Spec => []TypeOK
<1>1. Typed => TypeOK
  BY DEF Typed
<1> QED BY <1>1, TypedInvariant, PTL
=============================================================================
