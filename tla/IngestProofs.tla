---------------------------- MODULE IngestProofs ----------------------------
(***************************************************************************)
(* What the mutex of a source protects: requests inside Ingest exclude     *)
(* each other, the confirmed number of a source never goes back and names  *)
(* an evaluated window.  The three hold together, by the inductive         *)
(* invariant IInv: that SetLastSeq does not lower last_seq depends on      *)
(* Ahead, Ahead on the mutex, and that the window is evaluated by then on  *)
(* Evaluating.                                                             *)
(*                                                                         *)
(* Most steps stay aside of all that; the proof treats those as one class  *)
(* (Aside) and the seven statements of Ingest that matter one by one.      *)
(***************************************************************************)
EXTENDS TypeProofs

\* What no step undoes: registration, windows, final statuses, test results.
Grows ==
  \A s \in Sources :
    /\ sources[s].state # "absent" => sources'[s].state # "absent"
    /\ \A q \in Seqs :
         /\ windows[s][q].status # "none" => windows'[s][q].status # "none"
         /\ windows[s][q].status \in FinalStatuses => windows'[s][q].status \in FinalStatuses
         /\ \A t \in ListByWindow(s, q) : t \in ListByWindow(s, q)'

\* The tables change in no way that matters here.
Keeps ==
  /\ Grows
  /\ \A s \in Sources : sources'[s].lastSeq = sources[s].lastSeq

\* Only p moves.
Moves(p) == \A q \in Procs : q # p => pc'[q] = pc[q] /\ loc'[q] = loc[q]

\* A step of p that neither takes nor gives back a mutex and is not one of the
\* statements between Admit and SetLastSeq.
Aside(p) ==
  /\ Keeps
  /\ UNCHANGED lock
  /\ Moves(p)
  /\ Inside(p)' <=> Inside(p)
  /\ Inside(p) => loc'[p].src = loc[p].src
  /\ pc'[p] \notin UnconfirmedLabels

-----------------------------------------------------------------------------
(* The invariant, step by step *)

\* A request past the lock and inside Ingest holds the mutex of its source.
LEMMA HolderAlone ==
  ASSUME IInv, NEW p \in Procs, NEW q \in Procs, q # p,
         pc[q] \in UnconfirmedLabels
  PROVE  loc[q].src \in Sources /\ loc[q].seq \in Seqs /\ lock[loc[q].src] = q
<1>1. LocalsFit(pc[q], loc[q])
  BY DEF IInv, Typed
<1>2. loc[q].src \in Sources /\ loc[q].seq \in Seqs /\ loc[q].op = "ingest"
  BY <1>1 DEF LocalsFit, IngestLabels, UnconfirmedLabels
<1>3. Inside(q)
  BY <1>2 DEF Inside, UnconfirmedLabels
<1> QED BY <1>2, <1>3 DEF IInv, LockDiscipline

LEMMA TestsStoredGrows ==
  ASSUME Grows, NEW s \in Sources, NEW q \in Seqs, TestsStored(s, q)
  PROVE  TestsStored(s, q)'
BY DEF Grows, TestsStored

\* A step of p keeps IInv when it keeps the mutual exclusion, moves only
\* confirmed numbers whose mutex p holds, and p itself is where it should be.
LEMMA StepKeeps ==
  ASSUME IInv, Typed', NEW p \in Procs, Grows, Moves(p), LockDiscipline',
         Ahead(p)', Evaluating(p)',
         \A s \in Sources :
           \/ sources'[s].lastSeq = sources[s].lastSeq
           \/ /\ lock[s] = p
              /\ sources'[s].state # "absent"
              /\ windows'[s][sources'[s].lastSeq].status \in FinalStatuses
              /\ TestsStored(s, sources[s].lastSeq)'
  PROVE  IInv'
<1>1. ASSUME NEW q \in Procs, q # p PROVE Ahead(q)'
  <2> SUFFICES ASSUME pc'[q] \in UnconfirmedLabels
               PROVE  /\ sources'[loc'[q].src].state # "absent"
                      /\ loc'[q].seq > sources'[loc'[q].src].lastSeq
    BY DEF Ahead
  <2>1. pc[q] \in UnconfirmedLabels /\ loc'[q] = loc[q]
    BY <1>1 DEF Moves
  <2>2. loc[q].src \in Sources /\ lock[loc[q].src] = q
    BY <1>1, <2>1, HolderAlone
  <2>3. sources'[loc[q].src].lastSeq = sources[loc[q].src].lastSeq
    BY <1>1, <2>2
  <2> QED BY <2>1, <2>2, <2>3 DEF IInv, Ahead, Grows
<1>2. ASSUME NEW q \in Procs, q # p PROVE Evaluating(q)'
  <2>1. pc'[q] = pc[q] /\ loc'[q] = loc[q]
    BY <1>2 DEF Moves
  <2>2. CASE pc[q] \in UnconfirmedLabels
    <3>1. loc[q].src \in Sources /\ loc[q].seq \in Seqs
      BY <1>2, <2>2, HolderAlone
    <3>2. Evaluating(q)
      BY DEF IInv
    <3> QED BY <2>1, <3>1, <3>2, TestsStoredGrows DEF Evaluating, Grows
  <2>3. CASE pc[q] \notin UnconfirmedLabels
    BY <2>1, <2>3 DEF Evaluating, UnconfirmedLabels
  <2> QED BY <2>2, <2>3
<1>3. Unregistered'
  BY DEF IInv, Unregistered, Grows
<1>4. ConfirmedSeqEvaluated'
  <2> SUFFICES ASSUME NEW s \in Sources, sources'[s].lastSeq # 0
               PROVE  /\ windows'[s][sources'[s].lastSeq].status \notin {"none", "new"}
                      /\ TestsStored(s, sources[s].lastSeq)'
    BY DEF ConfirmedSeqEvaluated
  <2>1. CASE sources'[s].lastSeq = sources[s].lastSeq
    <3> DEFINE q == sources[s].lastSeq
    <3>1. q \in Seqs
      BY <2>1 DEF IInv, Typed, TypeOK, TablesOK, SourceRow, Seqs
    <3>2. windows[s][q].status \in FinalStatuses
      <4>1. windows[s][q] \in WindowRow
        BY <3>1 DEF IInv, Typed, TypeOK, TablesOK
      <4>2. windows[s][q].status \notin {"none", "new"}
        BY <2>1 DEF IInv, ConfirmedSeqEvaluated
      <4> QED BY <4>1, <4>2 DEF WindowRow, FinalStatuses
    <3>3. TestsStored(s, q)
      BY <2>1 DEF IInv, ConfirmedSeqEvaluated
    <3>4. windows'[s][q].status \in FinalStatuses /\ TestsStored(s, q)'
      BY <3>1, <3>2, <3>3, TestsStoredGrows DEF Grows
    <3> QED BY <2>1, <3>4 DEF FinalStatuses, WindowStatuses
  <2>2. CASE sources'[s].lastSeq # sources[s].lastSeq
    BY <2>2 DEF FinalStatuses, WindowStatuses
  <2> QED BY <2>1, <2>2
<1> QED BY <1>1, <1>2, <1>3, <1>4 DEF IInv

LEMMA AsideKeeps ==
  ASSUME IInv, Typed', NEW p \in Procs, Aside(p)
  PROVE  IInv'
<1>1. LockDiscipline'
  <2> SUFFICES ASSUME NEW q \in Procs, NEW s \in Sources
               PROVE  (lock'[s] = q) <=> (Inside(q)' /\ loc'[q].src = s)
    BY DEF LockDiscipline
  <2>1. (lock[s] = q) <=> (Inside(q) /\ loc[q].src = s)
    BY DEF IInv, LockDiscipline
  <2>2. CASE q = p
    BY <2>1, <2>2 DEF Aside
  <2>3. CASE q # p
    BY <2>1, <2>3 DEF Aside, Moves, Inside
  <2> QED BY <2>2, <2>3
<1>2. Ahead(p)' /\ Evaluating(p)'
  BY DEF Aside, Ahead, Evaluating, UnconfirmedLabels
<1> QED BY <1>1, <1>2, StepKeeps DEF Aside, Keeps

-----------------------------------------------------------------------------
(* Statements that keep what matters *)

LEMMA OtherTablesKeep ==
  ASSUME UNCHANGED <<sources, windows, tests>>
  PROVE  Keeps
BY DEF Keeps, Grows, ListByWindow

LEMMA SourceKeeps ==
  ASSUME Typed, UNCHANGED <<windows, tests>>, NEW s \in Sources, NEW row,
         sources' = [sources EXCEPT ![s] = row],
         sources[s].state # "absent" => row.state # "absent",
         row.lastSeq = sources[s].lastSeq
  PROVE  Keeps
<1>1. sources \in [Sources -> SourceRow]
  BY DEF Typed, TypeOK, TablesOK
<1>2. \A r \in Sources : sources'[r] = IF r = s THEN row ELSE sources[r]
  BY <1>1
<1> QED BY <1>2 DEF Keeps, Grows, ListByWindow

LEMMA WriteStateKeeps ==
  ASSUME Typed, NEW p \in Procs, NEW label, label # "idle", NEW st \in SourceStates,
         WriteState(p, label, st)
  PROVE  Keeps
<1> DEFINE s == loc[p].src
           row == [sources[s] EXCEPT !.state = st, !.sealedAt = (st = "sealed")]
<1>1. s \in Sources
  BY LocalTyped DEF WriteState, At, LocalsFit
<1>2. sources[s] \in SourceRow
  BY <1>1 DEF Typed, TypeOK, TablesOK
<1>3. row.state # "absent" /\ row.lastSeq = sources[s].lastSeq
  BY <1>2 DEF SourceRow, SourceStates
<1>4. sources' = [sources EXCEPT ![s] = row] /\ UNCHANGED <<windows, tests>>
  BY DEF WriteState, UpdateState, notSources
<1> HIDE DEF row, s
<1> QED BY <1>1, <1>3, <1>4, SourceKeeps

\* A window that has a row or gets one keeps it, and gets a final status.
LEMMA UpdateStatusKeeps ==
  ASSUME Typed, NEW s \in Sources, NEW q \in Seqs, NEW st \in FinalStatuses, NEW a,
         UpdateStatus(s, q, st, a), UNCHANGED notWindows
  PROVE  /\ Keeps
         /\ windows'[s][q].status = st
<1>1. windows \in [Sources -> [Seqs -> WindowRow]]
  BY DEF Typed, TypeOK, TablesOK
<1>2. windows[s][q] \in WindowRow /\ windows[s] \in [Seqs -> WindowRow]
  BY <1>1
<1> DEFINE row == [windows[s][q] EXCEPT !.status = st, !.anomaly = a]
<1>3. row.status = st
  BY <1>2 DEF WindowRow
<1>4. windows' = [windows EXCEPT ![s][q] = row]
  BY DEF UpdateStatus
<1> HIDE DEF row
<1>5. \A r \in Sources, k \in Seqs :
        windows'[r][k] = IF r = s /\ k = q THEN row ELSE windows[r][k]
  BY <1>1, <1>4
<1> QED
  BY <1>3, <1>5 DEF Keeps, Grows, ListByWindow, notWindows, FinalStatuses, WindowStatuses

LEMMA InsertWindowKeeps ==
  ASSUME Typed, NEW s \in Sources, NEW q \in Seqs, NEW x,
         InsertWindow(s, q, x), q \notin Recorded(s), UNCHANGED notWindows
  PROVE  /\ Keeps
         /\ windows'[s][q].status # "none"
<1>1. windows \in [Sources -> [Seqs -> WindowRow]] /\ windows[s] \in [Seqs -> WindowRow]
  BY DEF Typed, TypeOK, TablesOK
<1> DEFINE row == [status |-> "new", anomaly |-> "", sample |-> x]
<1>2. row.status = "new"
  OBVIOUS
<1>3. windows' = [windows EXCEPT ![s][q] = row]
  BY DEF InsertWindow
<1> HIDE DEF row
<1>4. \A r \in Sources, k \in Seqs :
        windows'[r][k] = IF r = s /\ k = q THEN row ELSE windows[r][k]
  BY <1>1, <1>3
<1>5. windows[s][q].status = "none"
  BY DEF Recorded
<1> QED
  BY <1>2, <1>4, <1>5 DEF Keeps, Grows, ListByWindow, notWindows, FinalStatuses, WindowStatuses

LEMMA InsertTestKeeps ==
  ASSUME Typed, NEW s \in Sources, NEW q \in Seqs, NEW c, NEW b,
         InsertTest(s, q, c, b), UNCHANGED notTests
  PROVE  /\ Keeps
         /\ \E t \in ListByWindow(s, q)' : t.category = c
<1>1. tests \in [Sources -> Seq(StoredTest)]
  BY DEF Typed, TypeOK, TablesOK
<1> DEFINE row == [seq |-> q, category |-> c, passed |-> b]
<1>2. tests' = [tests EXCEPT ![s] = Append(tests[s], row)]
  BY DEF InsertTest
<1>3. row.seq = q /\ row.category = c
  OBVIOUS
<1> HIDE DEF row
<1>4. tests[s] \in Seq(StoredTest) /\ tests'[s] = Append(tests[s], row)
  BY <1>1, <1>2
<1>5. \A r \in Sources : r # s => tests'[r] = tests[r]
  BY <1>1, <1>2
<1>6. /\ DOMAIN tests[s] = 1..Len(tests[s])
      /\ DOMAIN tests'[s] = 1..(Len(tests[s]) + 1)
      /\ \A i \in DOMAIN tests[s] : i \in DOMAIN tests'[s] /\ tests'[s][i] = tests[s][i]
      /\ Len(tests[s]) + 1 \in DOMAIN tests'[s] /\ tests'[s][Len(tests[s]) + 1] = row
  BY <1>4, LenProperties
<1>7. \A k \in Seqs : \A t \in ListByWindow(s, k) : t \in ListByWindow(s, k)'
  BY <1>6 DEF ListByWindow
<1>8. \A r \in Sources, k \in Seqs :
        \A t \in ListByWindow(r, k) : t \in ListByWindow(r, k)'
  BY <1>5, <1>7 DEF ListByWindow
<1>9. row \in ListByWindow(s, q)'
  BY <1>3, <1>6 DEF ListByWindow
<1> QED BY <1>3, <1>8, <1>9 DEF Keeps, Grows, notTests

-----------------------------------------------------------------------------
(* Steps aside *)

LEMMA MoveAside ==
  ASSUME Typed, Keeps, UNCHANGED lock, NEW p \in Procs, pc[p] \notin {"idle", "lock"},
         NEW label, label \notin UnconfirmedLabels \cup {"idle", "lock"},
         pc' = [pc EXCEPT ![p] = label],
         NEW l, loc' = [loc EXCEPT ![p] = l], l.op = loc[p].op, l.src = loc[p].src
  PROVE  Aside(p)
<1>1. pc'[p] = label /\ loc'[p] = l /\ Moves(p)
  BY LocalTyped DEF Moves
<1> QED BY <1>1 DEF Aside, Inside

LEMMA GotoAside ==
  ASSUME Typed, Keeps, UNCHANGED <<loc, lock>>, NEW p \in Procs, pc[p] \notin {"idle", "lock"},
         NEW label, label \notin UnconfirmedLabels \cup {"idle", "lock"}, Goto(p, label)
  PROVE  Aside(p)
<1>1. loc' = [loc EXCEPT ![p] = loc[p]]
  BY LocalTyped
<1> QED BY <1>1, MoveAside DEF Goto

LEMMA AnswerAside ==
  ASSUME Typed, Keeps, UNCHANGED lock, NEW p \in Procs, pc[p] \notin {"idle", "lock"},
         NEW reply, Answer(p, reply)
  PROVE  Aside(p)
<1>1. loc[p] \in Local
  BY LocalTyped
<1>2. CASE loc[p].op = "ingest" /\ Goto(p, "done") /\ loc' = [loc EXCEPT ![p].reply = reply]
  <2> DEFINE l == [loc[p] EXCEPT !.reply = reply]
  <2>1. l.op = loc[p].op /\ l.src = loc[p].src
    BY <1>1 DEF Local
  <2>2. loc' = [loc EXCEPT ![p] = l]
    BY <1>2
  <2> HIDE DEF l
  <2> QED BY <1>2, <2>1, <2>2, MoveAside DEF Goto, UnconfirmedLabels
<1>3. CASE loc[p].op # "ingest" /\ Goto(p, "idle") /\ loc' = [loc EXCEPT ![p] = Blank]
  <2>1. pc'[p] = "idle" /\ Moves(p)
    BY <1>3, LocalTyped DEF Goto, Moves
  <2> QED BY <1>3, <2>1 DEF Aside, Inside, UnconfirmedLabels
<1> QED BY <1>2, <1>3 DEF Answer

\* A request arrives: outside Ingest, or in front of its lock.
LEMMA ArriveAside ==
  ASSUME Typed, UNCHANGED <<tables, lock>>, NEW p \in Procs, NEW op, NEW s,
         NEW label, label \notin UnconfirmedLabels,
         NEW l, Arrive(p, op, s, label, l), label = "lock" \/ l.op # "ingest"
  PROVE  Aside(p)
<1>1. Keeps
  BY OtherTablesKeep DEF tables
<1>2. pc[p] = "idle" /\ pc'[p] = label /\ loc'[p] = l /\ Moves(p)
  BY LocalTyped DEF Arrive, At, Goto, Moves
<1> QED BY <1>1, <1>2 DEF Aside, Inside

-----------------------------------------------------------------------------
(* Isolate *)

LEMMA IsolateRequestAside ==
  ASSUME Typed, NEW p \in Procs, NEW s \in Sources, IsolateRequest(p, s)
  PROVE  Aside(p)
<1>1. ASSUME NEW op \in {"degrade", "isolate", "seal", "recover"},
             NEW label \in {"set_degraded", "set_isolated", "set_sealed", "baseline"},
             NEW states, Admitted(p, op, s, states, label)
      PROVE  Aside(p)
  <2>1. Request(op, s).op # "ingest" /\ label \notin UnconfirmedLabels
    BY RequestTyped DEF AllOps, UnconfirmedLabels
  <2> QED BY <1>1, <2>1, ArriveAside DEF Admitted
<1> QED BY <1>1 DEF IsolateRequest, Degrade, Isolate, Seal, Recover

LEMMA IsolateStepAside ==
  ASSUME Typed, NEW p \in Procs, IsolateStep(p)
  PROVE  Aside(p)
<1> USE DEF At
<1>0. loc[p] \in Local /\ LocalsFit(pc[p], loc[p])
  BY LocalTyped
<1>1. ASSUME NEW l \in {"set_degraded", "set_isolated", "set_sealed"},
             NEW st \in SourceStates, WriteState(p, l, st), Answer(p, "ok")
      PROVE  Aside(p)
  BY <1>1, WriteStateKeeps, AnswerAside DEF WriteState
<1>2. CASE ReadBaseline(p)
  <2>1. PICK b \in LatestValidSeq(loc[p].src) : loc' = [loc EXCEPT ![p].baseline = b]
    BY <1>2 DEF ReadBaseline
  <2> DEFINE l == [loc[p] EXCEPT !.baseline = b]
  <2>2. l.op = loc[p].op /\ l.src = loc[p].src
    BY <1>0 DEF Local
  <2>3. loc' = [loc EXCEPT ![p] = l]
    BY <2>1
  <2> HIDE DEF l
  <2>4. Keeps
    BY <1>2, OtherTablesKeep DEF ReadBaseline, tables
  <2> QED BY <1>2, <2>2, <2>3, <2>4, MoveAside DEF ReadBaseline, Goto, UnconfirmedLabels
<1>3. CASE SetRecovered(p)
  BY <1>3, WriteStateKeeps, GotoAside
  DEF SetRecovered, WriteState, SourceStates, UnconfirmedLabels
<1>4. CASE SetBaseline(p)
  <2> DEFINE s == loc[p].src
             row == [sources[s] EXCEPT !.baseline = loc[p].baseline]
  <2>1. s \in Sources
    BY <1>0, <1>4 DEF SetBaseline, LocalsFit
  <2>2. row.state = sources[s].state /\ row.lastSeq = sources[s].lastSeq
    BY <2>1, LocalTyped DEF TablesOK, SourceRow
  <2>3. sources' = [sources EXCEPT ![s] = row] /\ UNCHANGED <<windows, tests>>
    BY <1>4 DEF SetBaseline, SetRecoveryBaseline, notSources
  <2> HIDE DEF row, s
  <2>4. Keeps
    BY <2>1, <2>2, <2>3, SourceKeeps
  <2> QED BY <1>4, <2>4, AnswerAside DEF SetBaseline
<1>5. CASE Observe(p)
  BY <1>5, OtherTablesKeep, GotoAside DEF Observe, tables, UnconfirmedLabels
<1>6. CASE SetObserving(p)
  BY <1>6, WriteStateKeeps, GotoAside
  DEF SetObserving, WriteState, SourceStates, UnconfirmedLabels
<1>7. CASE AutoDegrade(p)
  BY <1>7, OtherTablesKeep, GotoAside DEF AutoDegrade, tables, UnconfirmedLabels
<1>8. CASE AutoDegradeRefused(p)
  BY <1>8, OtherTablesKeep, AnswerAside DEF AutoDegradeRefused, tables
<1> QED
  BY <1>1, <1>2, <1>3, <1>4, <1>5, <1>6, <1>7, <1>8
  DEF IsolateStep, SetDegraded, SetIsolated, SetSealed, SourceStates

-----------------------------------------------------------------------------
(* Correlator *)

LEMMA CorrelatedAside ==
  ASSUME Typed, Keeps, UNCHANGED lock, NEW p \in Procs, pc[p] \notin {"idle", "lock"},
         Correlated(p)
  PROVE  Aside(p)
BY GotoAside, AnswerAside DEF Correlated, UnconfirmedLabels

LEMMA CorrelatorStepAside ==
  ASSUME Typed, NEW p \in Procs, CorrelatorStep(p)
  PROVE  Aside(p)
<1> USE DEF At, UnconfirmedLabels
<1>0. loc[p] \in Local
  BY LocalTyped
<1>1. CASE CountRun(p)
  <2>0. Keeps /\ UNCHANGED lock
    BY <1>1, OtherTablesKeep DEF CountRun, tables
  <2>1. ASSUME NEW n, NEW first, NEW label \in {"open", "restart"}, Goto(p, label),
               loc' = [loc EXCEPT ![p] = [loc[p] EXCEPT !.runLen = n, !.firstSeq = first]]
        PROVE  Aside(p)
    <3> DEFINE l == [loc[p] EXCEPT !.runLen = n, !.firstSeq = first]
    <3>1. l.op = loc[p].op /\ l.src = loc[p].src
      BY <1>0 DEF Local
    <3>2. loc' = [loc EXCEPT ![p] = l]
      BY <2>1
    <3> HIDE DEF l
    <3> QED BY <1>1, <2>0, <2>1, <3>1, <3>2, MoveAside DEF CountRun, Goto
  <2> DEFINE run == TailRun(loc[p].src, loc[p].seq)
  <2>2. CASE /\ loc' = [loc EXCEPT ![p] = [loc[p] EXCEPT !.runLen = 0, !.firstSeq = loc[p].seq]]
             /\ Goto(p, "open")
    BY <2>1, <2>2
  <2>3. CASE /\ \E first \in run :
                  loc' = [loc EXCEPT ![p] =
                            [loc[p] EXCEPT !.runLen = Cardinality(run), !.firstSeq = first]]
             /\ Goto(p, "restart")
    <3>1. PICK first \in run :
            loc' = [loc EXCEPT ![p] =
                      [loc[p] EXCEPT !.runLen = Cardinality(run), !.firstSeq = first]]
      BY <2>3
    <3> DEFINE n == Cardinality(run)
    <3>2. loc' = [loc EXCEPT ![p] = [loc[p] EXCEPT !.runLen = n, !.firstSeq = first]]
      BY <3>1
    <3> HIDE DEF n
    <3> QED BY <2>1, <2>3, <3>2
  <2> QED BY <1>1, <2>2, <2>3 DEF CountRun
<1>2. CASE ReadRestart(p)
  <2>0. Keeps
    BY <1>2, OtherTablesKeep DEF ReadRestart, tables
  <2>1. PICK after \in BOOLEAN : loc' = [loc EXCEPT ![p].after = after]
    BY <1>2 DEF ReadRestart
  <2> DEFINE l == [loc[p] EXCEPT !.after = after]
  <2>2. l.op = loc[p].op /\ l.src = loc[p].src
    BY <1>0 DEF Local
  <2>3. loc' = [loc EXCEPT ![p] = l]
    BY <2>1
  <2> HIDE DEF l
  <2> QED BY <1>2, <2>0, <2>2, <2>3, MoveAside DEF ReadRestart, Goto
<1>3. CASE NothingToSettle(p)
  BY <1>3, OtherTablesKeep, AnswerAside DEF NothingToSettle, tables
<1>4. CASE FindSettled(p)
  <2>0. Keeps
    BY <1>4, OtherTablesKeep DEF FindSettled, tables
  <2>1. PICK i \in OpenForSource(loc[p].src) : loc' = [loc EXCEPT ![p].row = i]
    BY <1>4 DEF FindSettled
  <2> DEFINE l == [loc[p] EXCEPT !.row = i]
  <2>2. l.op = loc[p].op /\ l.src = loc[p].src
    BY <1>0 DEF Local
  <2>3. loc' = [loc EXCEPT ![p] = l]
    BY <2>1
  <2> HIDE DEF l
  <2> QED BY <1>4, <2>0, <2>2, <2>3, MoveAside DEF FindSettled, Goto
<1>5. CASE Settle(p)
  BY <1>5, OtherTablesKeep, GotoAside DEF Settle, notEvents
<1>6. CASE SettleClose(p)
  BY <1>6, OtherTablesKeep, AnswerAside DEF SettleClose, notEvents
<1>7. CASE NoOpenEvent(p)
  BY <1>7, OtherTablesKeep, GotoAside DEF NoOpenEvent, tables
<1>8. CASE FindOpenEvent(p)
  <2>0. Keeps
    BY <1>8, OtherTablesKeep DEF FindOpenEvent, tables
  <2>1. ASSUME NEW i, NEW st, NEW a, NEW b,
               loc' = [loc EXCEPT ![p] =
                         [@ EXCEPT !.row = i, !.rowState = st, !.confirmed = a, !.closed = b]]
        PROVE  Aside(p)
    <3> DEFINE l == [loc[p] EXCEPT !.row = i, !.rowState = st, !.confirmed = a, !.closed = b]
    <3>1. l.op = loc[p].op /\ l.src = loc[p].src
      BY <1>0 DEF Local
    <3>2. loc' = [loc EXCEPT ![p] = l]
      BY <2>1, Zenon
    <3> HIDE DEF l
    <3> QED BY <1>8, <2>0, <3>1, <3>2, MoveAside DEF FindOpenEvent, Goto
  <2>2. PICK i \in OpenForSource(loc[p].src) :
          LET ev == events[loc[p].src][i]
          IN  loc' = [loc EXCEPT ![p] = [@ EXCEPT !.row = i, !.rowState = ev.state,
                                                  !.confirmed = ReadTime(ev.confirmedAt),
                                                  !.closed = ReadTime(ev.closedAt)]]
    BY <1>8 DEF FindOpenEvent
  <2> QED BY <2>1, <2>2, Zenon
<1>9. CASE CreateEvent(p)
  BY <1>9, OtherTablesKeep, CorrelatedAside DEF CreateEvent, notEvents
<1>10. CASE Raise(p)
  BY <1>10, OtherTablesKeep, GotoAside DEF Raise, notEvents
<1>11. CASE ExtendRun(p)
  BY <1>11, OtherTablesKeep, CorrelatedAside DEF ExtendRun, notEvents
<1> QED
  BY <1>1, <1>2, <1>3, <1>4, <1>5, <1>6, <1>7, <1>8, <1>9, <1>10, <1>11 DEF CorrelatorStep

-----------------------------------------------------------------------------
(* Service and Snapshot *)

LEMMA ServiceRequestAside ==
  ASSUME Typed, NEW p \in Procs, NEW s \in Sources, ServiceRequest(p, s)
  PROVE  Aside(p)
<1> USE DEF UnconfirmedLabels
<1>1. CASE Register(p, s)
  BY <1>1, RequestTyped, ArriveAside DEF Register, AllOps
<1>2. CASE Restart(p, s)
  <2>1. PICK at \in Seqs :
          Arrive(p, "restart", s, "restart_insert", [Request("restart", s) EXCEPT !.seq = at])
    BY <1>2 DEF Restart
  <2> DEFINE r == Request("restart", s)
             l == [r EXCEPT !.seq = at]
  <2>2. r \in Local /\ r.op = "restart"
    BY RequestTyped DEF AllOps
  <2>3. Arrive(p, "restart", s, "restart_insert", l)
    BY <2>1
  <2> HIDE DEF r
  <2>4. l.op = "restart"
    BY <2>2 DEF Local
  <2> HIDE DEF l
  <2> QED BY <1>2, <2>3, <2>4, ArriveAside DEF Restart
<1>3. CASE Confirm(p, s)
  <2>1. PICK i \in DOMAIN events[s] :
          Arrive(p, "confirm", s, "confirm", [Request("confirm", s) EXCEPT !.row = i])
    BY <1>3 DEF Confirm
  <2> DEFINE r == Request("confirm", s)
             l == [r EXCEPT !.row = i]
  <2>2. r \in Local /\ r.op = "confirm"
    BY RequestTyped DEF AllOps
  <2>3. Arrive(p, "confirm", s, "confirm", l)
    BY <2>1
  <2> HIDE DEF r
  <2>4. l.op = "confirm"
    BY <2>2 DEF Local
  <2> HIDE DEF l
  <2> QED BY <1>3, <2>3, <2>4, ArriveAside DEF Confirm
<1>4. CASE Close(p, s)
  <2>1. PICK i \in DOMAIN events[s] :
          Arrive(p, "close", s, "close",
                 [Request("close", s) EXCEPT !.row = i,
                                             !.confirmed = ReadTime(events[s][i].confirmedAt)])
    BY <1>4 DEF Close
  <2> DEFINE r == Request("close", s)
             c == ReadTime(events[s][i].confirmedAt)
             l == [r EXCEPT !.row = i, !.confirmed = c]
  <2>2. r \in Local /\ r.op = "close"
    BY RequestTyped DEF AllOps
  <2>3. Arrive(p, "close", s, "close", l)
    BY <2>1
  <2> HIDE DEF r, c
  <2>4. l.op = "close"
    BY <2>2 DEF Local
  <2> HIDE DEF l
  <2> QED BY <1>4, <2>3, <2>4, ArriveAside DEF Close
<1>5. CASE Reevaluate(p, s)
  <2>1. PICK q \in Seqs :
          LET failed == {t.category : t \in {u \in ListByWindow(s, q) : ~u.passed}}
          IN  Arrive(p, "reevaluate", s, "reevaluate",
                     [Request("reevaluate", s) EXCEPT
                        !.seq = q, !.status = StatStatus(failed),
                        !.anomaly = StatAnomaly(AlphaOrder, failed)])
    BY <1>5 DEF Reevaluate
  <2> DEFINE failed == {t.category : t \in {u \in ListByWindow(s, q) : ~u.passed}}
             r == Request("reevaluate", s)
             st == StatStatus(failed)
             an == StatAnomaly(AlphaOrder, failed)
             l == [r EXCEPT !.seq = q, !.status = st, !.anomaly = an]
  <2>2. r \in Local /\ r.op = "reevaluate"
    BY RequestTyped DEF AllOps
  <2>3. Arrive(p, "reevaluate", s, "reevaluate", l)
    BY <2>1
  <2> HIDE DEF failed, r, st, an
  <2>4. l.op = "reevaluate"
    BY <2>2 DEF Local
  <2> HIDE DEF l
  <2> QED BY <1>5, <2>3, <2>4, ArriveAside DEF Reevaluate
<1> QED BY <1>1, <1>2, <1>3, <1>4, <1>5 DEF ServiceRequest

\* A second registration inserts nothing, and a first one no confirmed number.
LEMMA ServiceStepAside ==
  ASSUME Typed, Unregistered, NEW p \in Procs, ServiceStep(p)
  PROVE  Aside(p)
<1> USE DEF At
<1>0. LocalsFit(pc[p], loc[p])
  BY LocalTyped
<1>1. CASE InsertedSource(p)
  <2> DEFINE s == loc[p].src
             row == [NoSource EXCEPT !.state = "enabled"]
  <2>1. s \in Sources
    BY <1>0, <1>1 DEF InsertedSource, LocalsFit
  <2>2. row.state = "enabled" /\ row.lastSeq = 0
    BY DEF NoSource
  <2>3. sources[s].lastSeq = 0
    BY <1>1, <2>1 DEF InsertedSource, Unregistered
  <2>4. sources' = [sources EXCEPT ![s] = row] /\ UNCHANGED <<windows, tests>>
    BY <1>1 DEF InsertedSource, InsertSource, notSources
  <2> HIDE DEF row, s
  <2>5. Keeps
    BY <2>1, <2>2, <2>3, <2>4, SourceKeeps
  <2> QED BY <1>1, <2>5, AnswerAside DEF InsertedSource
<1>2. CASE DuplicateSource(p)
  BY <1>2, OtherTablesKeep, AnswerAside DEF DuplicateSource, tables
<1>3. CASE InsertedRestart(p)
  BY <1>3, OtherTablesKeep, AnswerAside DEF InsertedRestart, notRestarts
<1>4. CASE SetConfirmed(p)
  BY <1>4, OtherTablesKeep, AnswerAside DEF SetConfirmed, notEvents
<1>5. CASE SetClosed(p)
  BY <1>5, OtherTablesKeep, AnswerAside DEF SetClosed, notEvents
<1>6. CASE SetReevaluated(p)
  <2>1. loc[p].src \in Sources /\ loc[p].seq \in Seqs /\ loc[p].status \in FinalStatuses
    BY <1>0, <1>6 DEF SetReevaluated, LocalsFit
  <2>2. Keeps
    BY <1>6, <2>1, UpdateStatusKeeps DEF SetReevaluated
  <2> QED BY <1>6, <2>2, AnswerAside DEF SetReevaluated
<1> QED BY <1>1, <1>2, <1>3, <1>4, <1>5, <1>6 DEF ServiceStep

LEMMA SnapshotRequestAside ==
  ASSUME Typed, NEW p \in Procs, NEW s \in Sources, SnapshotRequest(p, s)
  PROVE  Aside(p)
<1> USE DEF UnconfirmedLabels
<1>1. CASE Draft(p, s)
  BY <1>1, RequestTyped, ArriveAside DEF Draft, AllOps
<1>2. CASE Publish(p, s)
  <2>1. PICK i \in DOMAIN snaps[s] :
          Arrive(p, "publish", s, "snap_publish", [Request("publish", s) EXCEPT !.snap = i])
    BY <1>2 DEF Publish
  <2> DEFINE r == Request("publish", s)
             l == [r EXCEPT !.snap = i]
  <2>2. r \in Local /\ r.op = "publish"
    BY RequestTyped DEF AllOps
  <2>3. Arrive(p, "publish", s, "snap_publish", l)
    BY <2>1
  <2> HIDE DEF r
  <2>4. l.op = "publish"
    BY <2>2 DEF Local
  <2> HIDE DEF l
  <2> QED BY <1>2, <2>3, <2>4, ArriveAside DEF Publish
<1>3. CASE Supersede(p, s)
  <2>1. PICK i \in DOMAIN snaps[s] :
          Arrive(p, "supersede", s, "snap_version", [Request("supersede", s) EXCEPT !.row = i])
    BY <1>3 DEF Supersede
  <2> DEFINE r == Request("supersede", s)
             l == [r EXCEPT !.row = i]
  <2>2. r \in Local /\ r.op = "supersede"
    BY RequestTyped DEF AllOps
  <2>3. Arrive(p, "supersede", s, "snap_version", l)
    BY <2>1
  <2> HIDE DEF r
  <2>4. l.op = "supersede"
    BY <2>2 DEF Local
  <2> HIDE DEF l
  <2> QED BY <1>3, <2>3, <2>4, ArriveAside DEF Supersede
<1> QED BY <1>1, <1>2, <1>3 DEF SnapshotRequest

LEMMA ViewRequestAside ==
  ASSUME Typed, NEW p \in Procs, NEW s \in Sources, ViewRequest(p, s)
  PROVE  Aside(p)
BY RequestTyped, ArriveAside DEF ViewRequest, Analysis, UnconfirmedLabels, AllOps

LEMMA ViewStepAside ==
  ASSUME Typed, NEW p \in Procs, ViewStep(p)
  PROVE  Aside(p)
BY OtherTablesKeep, AnswerAside DEF ViewStep, CountRestarts, At, tables

LEMMA SnapshotStepAside ==
  ASSUME Typed, NEW p \in Procs, SnapshotStep(p)
  PROVE  Aside(p)
<1> USE DEF At, UnconfirmedLabels
<1>0. loc[p] \in Local
  BY LocalTyped
<1>1. ASSUME NEW evidence, FreezeIn(p, evidence), UNCHANGED <<tables, lock>>,
             NEW label,
             label \in {"snap_windows", "snap_tests", "snap_events", "snap_insert", "view_restarts"},
             Goto(p, label), pc[p] \notin {"idle", "lock"}
      PROVE  Aside(p)
  <2> DEFINE l == [loc[p] EXCEPT !.payload = evidence]
  <2>1. l.op = loc[p].op /\ l.src = loc[p].src
    BY <1>0 DEF Local
  <2>2. loc' = [loc EXCEPT ![p] = l]
    BY <1>1 DEF FreezeIn
  <2>3. Keeps
    BY <1>1, OtherTablesKeep DEF tables
  <2> HIDE DEF l
  <2> QED BY <1>1, <2>1, <2>2, <2>3, MoveAside DEF Goto
<1>2. CASE ReadVersion(p)
  <2>1. PICK v \in NextVersion(loc[p].src) : loc' = [loc EXCEPT ![p].version = v]
    BY <1>2 DEF ReadVersion
  <2> DEFINE l == [loc[p] EXCEPT !.version = v]
  <2>2. l.op = loc[p].op /\ l.src = loc[p].src
    BY <1>0 DEF Local
  <2>3. loc' = [loc EXCEPT ![p] = l]
    BY <2>1
  <2> HIDE DEF l
  <2>4. Keeps
    BY <1>2, OtherTablesKeep DEF ReadVersion, tables
  <2> QED BY <1>2, <2>2, <2>3, <2>4, MoveAside DEF ReadVersion, Goto
<1>3. CASE SnapshotOfNothing(p)
  BY <1>3, OtherTablesKeep, AnswerAside DEF SnapshotOfNothing, tables
<1>4. CASE ReadSource(p)
  BY <1>1, <1>4 DEF ReadSource
<1>5. CASE ReadWindows(p)
  BY <1>1, <1>5 DEF ReadWindows
<1>6. CASE ReadTests(p)
  BY <1>1, <1>6 DEF ReadTests
<1>7. CASE ReadEvents(p)
  <2>1. Goto(p, "view_restarts") \/ Goto(p, "snap_insert")
    BY <1>7 DEF ReadEvents
  <2> QED BY <1>1, <1>7, <2>1 DEF ReadEvents
<1>8. CASE InsertDraft(p)
  <2>1. Keeps
    BY <1>8, OtherTablesKeep DEF InsertDraft, notSnaps
  <2>2. CASE Answer(p, "ok")
    BY <1>8, <2>1, <2>2, AnswerAside DEF InsertDraft
  <2>3. CASE /\ loc' = [loc EXCEPT ![p].snap = Len(snaps[loc[p].src]) + 1]
             /\ Goto(p, "snap_publish")
    <3> DEFINE n == Len(snaps[loc[p].src]) + 1
               l == [loc[p] EXCEPT !.snap = n]
    <3>1. loc' = [loc EXCEPT ![p] = l]
      BY <2>3
    <3> HIDE DEF n
    <3>2. l.op = loc[p].op /\ l.src = loc[p].src
      BY <1>0 DEF Local
    <3> HIDE DEF l
    <3> QED BY <1>8, <2>1, <2>3, <3>1, <3>2, MoveAside DEF InsertDraft, Goto
  <2> QED BY <1>8, <2>2, <2>3 DEF InsertDraft
<1>9. CASE SetPublished(p)
  BY <1>9, OtherTablesKeep, AnswerAside, GotoAside DEF SetPublished, notSnaps
<1>10. CASE SetSuperseded(p)
  BY <1>10, OtherTablesKeep, AnswerAside DEF SetSuperseded, notSnaps
<1> QED
  BY <1>2, <1>3, <1>4, <1>5, <1>6, <1>7, <1>8, <1>9, <1>10 DEF SnapshotStep

-----------------------------------------------------------------------------
(* Ingest *)

LEMMA SubmitAside ==
  ASSUME Typed, NEW p \in Procs, NEW s \in Sources, Submit(p, s)
  PROVE  Aside(p)
<1>1. PICK batch \in Batches :
        /\ Arrive(p, "ingest", s, "lock",
                  [Request("ingest", s) EXCEPT !.seq = batch[1].seq,
                                               !.sample = batch[1].sample,
                                               !.rest = Tail(batch)])
        /\ UNCHANGED <<tables, lock>>
  BY DEF Submit
<1> QED BY <1>1, ArriveAside DEF UnconfirmedLabels

\* A statement fails, or Ingest turns the window away.
LEMMA AnsweredAside ==
  ASSUME Typed, NEW p \in Procs, Fail(p) \/ Refuse(p) \/ CreateConflict(p)
  PROVE  Aside(p)
BY OtherTablesKeep, AnswerAside DEF Fail, Refuse, CreateConflict, At, tables

LEMMA AcquireKeeps ==
  ASSUME IInv, Typed', NEW p \in Procs, Acquire(p)
  PROVE  IInv'
<1> DEFINE s == loc[p].src
<1>0. Typed /\ loc[p] \in Local /\ pc[p] = "lock" /\ s \in Sources /\ loc[p].op = "ingest"
  BY LocalTyped DEF IInv, Acquire, At, LocalsFit, IngestLabels
<1>1. pc'[p] = "get" /\ loc'[p] = loc[p] /\ Moves(p)
  BY <1>0, LocalTyped DEF Acquire, Goto, Moves
<1>2. \A r \in Sources : lock'[r] = IF r = s THEN p ELSE lock[r]
  BY <1>0, LocalTyped DEF Acquire
<1>3. LockDiscipline'
  <2> SUFFICES ASSUME NEW q \in Procs, NEW r \in Sources
               PROVE  (lock'[r] = q) <=> (Inside(q)' /\ loc'[q].src = r)
    BY DEF LockDiscipline
  <2>1. (lock[r] = q) <=> (Inside(q) /\ loc[q].src = r)
    BY DEF IInv, LockDiscipline
  <2>2. lock[s] = None /\ None \notin Procs
    BY RequestsAssumption DEF Acquire
  <2>3. CASE q = p
    <3>1. Inside(q)' /\ ~Inside(q) /\ loc'[q].src = s
      BY <1>0, <1>1, <2>3 DEF Inside
    <3> QED BY <1>2, <2>1, <2>3, <3>1
  <2>4. CASE q # p
    <3>1. (Inside(q)' <=> Inside(q)) /\ loc'[q] = loc[q]
      BY <1>1, <2>4 DEF Inside, Moves
    <3> QED BY <1>2, <2>1, <2>2, <2>4, <3>1
  <2> QED BY <2>3, <2>4
<1>4. Keeps
  BY OtherTablesKeep DEF Acquire, tables
<1>5. Ahead(p)' /\ Evaluating(p)'
  BY <1>1 DEF Ahead, Evaluating, UnconfirmedLabels
<1> QED BY <1>1, <1>3, <1>4, <1>5, StepKeeps DEF Keeps

LEMMA ReturnKeeps ==
  ASSUME IInv, Typed', NEW p \in Procs, Return(p)
  PROVE  IInv'
<1> DEFINE s == loc[p].src
<1>0. Typed /\ loc[p] \in Local /\ pc[p] = "done" /\ s \in Sources /\ loc[p].op = "ingest"
  BY LocalTyped DEF IInv, Return, At, LocalsFit, IngestLabels
<1>1. pc'[p] \in {"idle", "lock"} /\ Moves(p)
  BY <1>0, LocalTyped DEF Return, Goto, Moves
<1>2. \A r \in Sources : lock'[r] = IF r = s THEN None ELSE lock[r]
  BY <1>0, LocalTyped DEF Return
<1>3. LockDiscipline'
  <2> SUFFICES ASSUME NEW q \in Procs, NEW r \in Sources
               PROVE  (lock'[r] = q) <=> (Inside(q)' /\ loc'[q].src = r)
    BY DEF LockDiscipline
  <2>1. (lock[r] = q) <=> (Inside(q) /\ loc[q].src = r)
    BY DEF IInv, LockDiscipline
  <2>2. lock[s] = p /\ None \notin Procs
    BY <1>0, RequestsAssumption DEF IInv, LockDiscipline, Inside
  <2>3. CASE q = p
    <3>1. ~Inside(q)'
      BY <1>1, <2>3 DEF Inside
    <3>2. lock'[r] # p
      BY <1>2, <2>1, <2>2, <2>3
    <3> QED BY <2>3, <3>1, <3>2
  <2>4. CASE q # p
    <3>1. (Inside(q)' <=> Inside(q)) /\ loc'[q] = loc[q]
      BY <1>1, <2>4 DEF Inside, Moves
    <3> QED BY <1>2, <2>1, <2>2, <2>4, <3>1
  <2> QED BY <2>3, <2>4
<1>4. Keeps
  BY OtherTablesKeep DEF Return, tables
<1>5. Ahead(p)' /\ Evaluating(p)'
  BY <1>1 DEF Ahead, Evaluating, UnconfirmedLabels
<1> QED BY <1>1, <1>3, <1>4, <1>5, StepKeeps DEF Keeps

\* The request moves from one statement to the next under its mutex.
LEMMA UnderLock ==
  ASSUME IInv, NEW p \in Procs, UNCHANGED lock, Moves(p),
         Inside(p), Inside(p)', loc'[p].src = loc[p].src
  PROVE  LockDiscipline'
<1> SUFFICES ASSUME NEW q \in Procs, NEW s \in Sources
             PROVE  (lock'[s] = q) <=> (Inside(q)' /\ loc'[q].src = s)
  BY DEF LockDiscipline
<1>1. (lock[s] = q) <=> (Inside(q) /\ loc[q].src = s)
  BY DEF IInv, LockDiscipline
<1>2. CASE q = p
  BY <1>1, <1>2
<1>3. CASE q # p
  BY <1>1, <1>3 DEF Moves, Inside
<1> QED BY <1>2, <1>3

\* What is known of a request between Admit and SetLastSeq.
LEMMA InsideIngest ==
  ASSUME IInv, NEW p \in Procs, pc[p] \in UnconfirmedLabels \cup {"get"}
  PROVE  /\ Typed /\ Inside(p) /\ Ahead(p) /\ Evaluating(p)
         /\ loc[p] \in Local /\ loc[p].src \in Sources /\ loc[p].sample \in Samples
         /\ loc[p].op = "ingest"
         /\ pc[p] # "get" => loc[p].seq \in Seqs
         /\ loc \in [Procs -> Local] /\ pc \in [Procs -> Labels]
<1>1. /\ loc[p] \in Local /\ LocalsFit(pc[p], loc[p])
      /\ loc \in [Procs -> Local] /\ pc \in [Procs -> Labels]
  BY LocalTyped DEF IInv
<1>2. /\ loc[p].src \in Sources /\ loc[p].sample \in Samples /\ loc[p].op = "ingest"
      /\ pc[p] # "get" => loc[p].seq \in Seqs
  BY <1>1 DEF LocalsFit, IngestLabels, UnconfirmedLabels
<1>3. Inside(p)
  BY <1>2 DEF Inside, UnconfirmedLabels
<1> QED BY <1>1, <1>2, <1>3 DEF IInv

LEMMA AdmitKeeps ==
  ASSUME IInv, Typed', NEW p \in Procs, Admit(p)
  PROVE  IInv'
<1>0. /\ Inside(p) /\ loc[p] \in Local /\ loc[p].src \in Sources /\ loc[p].op = "ingest"
      /\ loc \in [Procs -> Local] /\ pc \in [Procs -> Labels]
  BY InsideIngest DEF Admit, At
<1> DEFINE l == [loc[p] EXCEPT !.seen = sources[loc[p].src].state]
<1>1. l.op = loc[p].op /\ l.src = loc[p].src /\ l.seq = loc[p].seq
  BY <1>0 DEF Local
<1>2. loc' = [loc EXCEPT ![p] = l]
  BY DEF Admit
<1> HIDE DEF l
<1>3. pc'[p] = "create" /\ loc'[p] = l /\ Moves(p)
  BY <1>0, <1>2 DEF Admit, Goto, Moves
<1>4. Inside(p)'
  BY <1>0, <1>1, <1>3 DEF Inside
<1>5. Keeps /\ UNCHANGED <<lock, sources>>
  BY OtherTablesKeep DEF Admit, tables
<1>6. Ahead(p)'
  <2>1. loc[p].seq \in 0..MaxSeq /\ sources[loc[p].src] \in SourceRow
    BY <1>0 DEF Local, IInv, Typed, TypeOK, TablesOK
  <2>2. Verdict(sources[loc[p].src], loc[p].seq, loc[p].sample) = "none"
    BY DEF Admit
  <2>3. /\ sources[loc[p].src].state # "absent"
        /\ ~(loc[p].seq <= sources[loc[p].src].lastSeq)
    BY <2>1, <2>2, VerdictAdmits, Zenon
  <2>4. loc[p].seq > sources[loc[p].src].lastSeq
    BY <2>1, <2>3, DomainAssumption DEF SourceRow
  <2> QED BY <1>1, <1>3, <1>5, <2>3, <2>4 DEF Ahead
<1>7. Evaluating(p)'
  BY <1>3 DEF Evaluating
<1> QED BY <1>0, <1>1, <1>3, <1>4, <1>5, <1>6, <1>7, UnderLock, StepKeeps DEF Keeps

LEMMA CreateWindowKeeps ==
  ASSUME IInv, Typed', NEW p \in Procs, CreateWindow(p)
  PROVE  IInv'
<1>0. /\ Typed /\ Inside(p) /\ Ahead(p) /\ loc[p] \in Local /\ loc[p].src \in Sources
      /\ loc[p].op = "ingest" /\ loc[p].seq \in Seqs
      /\ loc \in [Procs -> Local] /\ pc \in [Procs -> Labels]
  BY InsideIngest DEF CreateWindow, At, UnconfirmedLabels
<1>1. PICK hashes : loc' = [loc EXCEPT ![p] = [@ EXCEPT
                              !.replay = IsReplay(loc[p].sample, hashes), !.test = 1]]
  BY DEF CreateWindow
<1> DEFINE replay == IsReplay(loc[p].sample, hashes)
           l == [loc[p] EXCEPT !.replay = replay, !.test = 1]
<1>2. loc' = [loc EXCEPT ![p] = l]
  BY <1>1
<1> HIDE DEF replay
<1>3. l.op = loc[p].op /\ l.src = loc[p].src /\ l.seq = loc[p].seq /\ l.test = 1
  BY <1>0 DEF Local
<1> HIDE DEF l
<1>4. pc'[p] = "evaluate" /\ loc'[p] = l /\ Moves(p)
  BY <1>0, <1>2 DEF CreateWindow, Goto, Moves
<1>5. Inside(p)'
  BY <1>0, <1>3, <1>4 DEF Inside
<1>6. Keeps /\ windows'[loc[p].src][loc[p].seq].status # "none" /\ UNCHANGED <<lock, sources>>
  BY <1>0, InsertWindowKeeps DEF CreateWindow, notWindows
<1>7. Ahead(p)'
  BY <1>0, <1>3, <1>4, <1>6 DEF Ahead, CreateWindow, At, UnconfirmedLabels
<1>8. Evaluating(p)'
  BY <1>3, <1>4, <1>6 DEF Evaluating
<1> QED BY <1>0, <1>3, <1>4, <1>5, <1>6, <1>7, <1>8, UnderLock, StepKeeps DEF Keeps

LEMMA StoreStatusKeeps ==
  ASSUME IInv, Typed', NEW p \in Procs, StoreStatus(p)
  PROVE  IInv'
<1>0. /\ Typed /\ Inside(p) /\ Ahead(p) /\ Evaluating(p) /\ loc[p] \in Local
      /\ loc[p].src \in Sources /\ loc[p].sample \in Samples
      /\ loc[p].op = "ingest" /\ loc[p].seq \in Seqs
      /\ loc \in [Procs -> Local] /\ pc \in [Procs -> Labels]
  BY InsideIngest DEF StoreStatus, At, UnconfirmedLabels
<1> DEFINE status  == ResolvedStatus(loc[p].replay, loc[p].sample)
           anomaly == ResolvedAnomaly(loc[p].replay, loc[p].sample)
           l == [loc[p] EXCEPT !.status = status, !.anomaly = anomaly]
<1>1. status \in FinalStatuses
  BY <1>0, ResolvedTyped DEF Local
<1>2. /\ UpdateStatus(loc[p].src, loc[p].seq, status, anomaly)
      /\ UNCHANGED <<notWindows, lock>> /\ loc' = [loc EXCEPT ![p] = l]
  BY DEF StoreStatus
<1> HIDE DEF status, anomaly
<1>3. l.op = loc[p].op /\ l.src = loc[p].src /\ l.seq = loc[p].seq
  BY <1>0 DEF Local
<1> HIDE DEF l
<1>4. pc'[p] = "lastseq" /\ loc'[p] = l /\ Moves(p)
  BY <1>0, <1>2 DEF StoreStatus, Goto, Moves
<1>5. Inside(p)'
  BY <1>0, <1>3, <1>4 DEF Inside
<1>6. /\ Keeps /\ windows'[loc[p].src][loc[p].seq].status \in FinalStatuses
      /\ UNCHANGED <<lock, sources>>
  BY <1>0, <1>1, <1>2, UpdateStatusKeeps DEF notWindows
<1>7. Ahead(p)'
  BY <1>0, <1>3, <1>4, <1>6 DEF Ahead, StoreStatus, At, UnconfirmedLabels
<1>8. Evaluating(p)'
  <2>1. TestsStored(loc[p].src, loc[p].seq)
    BY <1>0 DEF StoreStatus, At, Evaluating
  <2>2. TestsStored(loc[p].src, loc[p].seq)'
    <3> DEFINE s == loc[p].src
               q == loc[p].seq
    <3>1. s' = s /\ q' = q
      BY <1>3, <1>4
    <3>2. tests' = tests
      BY <1>2 DEF notWindows
    <3> QED BY <2>1, <3>1, <3>2 DEF TestsStored, ListByWindow
  <2> QED BY <1>3, <1>4, <1>6, <2>2 DEF Evaluating
<1> QED BY <1>0, <1>3, <1>4, <1>5, <1>6, <1>7, <1>8, UnderLock, StepKeeps DEF Keeps

LEMMA StoreTestKeeps ==
  ASSUME IInv, Typed', NEW p \in Procs, StoreTest(p)
  PROVE  IInv'
<1>0. /\ Typed /\ Inside(p) /\ Ahead(p) /\ Evaluating(p) /\ loc[p] \in Local
      /\ loc[p].src \in Sources /\ loc[p].op = "ingest" /\ loc[p].seq \in Seqs
      /\ pc[p] = "evaluate"
      /\ loc \in [Procs -> Local] /\ pc \in [Procs -> Labels]
  BY InsideIngest DEF StoreTest, At, UnconfirmedLabels
<1>1. PICK s \in Sources, q \in Seqs, n \in 1..4 :
        s = loc[p].src /\ q = loc[p].seq /\ n = loc[p].test
  BY <1>0 DEF Local
<1>2. Keeps /\ \E t \in ListByWindow(s, q)' : t.category = RunOrder[n]
  BY <1>0, <1>1, InsertTestKeeps DEF StoreTest
<1>3. UNCHANGED <<lock, sources, windows>>
  BY DEF StoreTest, notTests
<1>4. windows[s][q].status # "none"
  BY <1>0, <1>1 DEF Evaluating
<1>5. ASSUME NEW k \in 1..n
      PROVE  \E t \in ListByWindow(s, q)' : t.category = RunOrder[k]
  <2>1. CASE k = n
    BY <1>2, <2>1
  <2>2. CASE k # n
    <3>1. k \in 1..(n - 1)
      BY <1>5, <2>2
    <3>2. \E t \in ListByWindow(s, q) : t.category = RunOrder[k]
      BY <1>0, <1>1, <3>1 DEF Evaluating
    <3> QED BY <1>2, <3>2 DEF Keeps, Grows
  <2> QED BY <2>1, <2>2
<1>6. CASE n < 4 /\ loc' = [loc EXCEPT ![p].test = @ + 1] /\ UNCHANGED pc
  <2> DEFINE l == [loc[p] EXCEPT !.test = n + 1]
  <2>1. l.op = "ingest" /\ l.src = s /\ l.seq = q /\ l.test = n + 1
    BY <1>0, <1>1 DEF Local
  <2>2. loc' = [loc EXCEPT ![p] = l]
    BY <1>1, <1>6
  <2> HIDE DEF l
  <2>3. pc'[p] = "evaluate" /\ loc'[p] = l /\ Moves(p)
    BY <1>0, <1>6, <2>2 DEF Moves
  <2>4. Inside(p)' /\ Ahead(p)'
    BY <1>0, <1>1, <1>3, <2>1, <2>3 DEF Inside, Ahead, UnconfirmedLabels
  <2>5. Evaluating(p)'
    <3>1. \A k \in 1..(l.test - 1) : k \in 1..n
      BY <2>1
    <3> QED BY <1>3, <1>4, <1>5, <2>1, <2>3, <3>1 DEF Evaluating
  <2> QED BY <1>0, <1>1, <1>2, <1>3, <2>1, <2>3, <2>4, <2>5, UnderLock, StepKeeps DEF Keeps
<1>7. CASE n = 4 /\ UNCHANGED loc /\ Goto(p, "status")
  <2>1. pc'[p] = "status" /\ loc'[p] = loc[p] /\ Moves(p)
    BY <1>0, <1>7 DEF Goto, Moves
  <2>2. Inside(p)' /\ Ahead(p)'
    BY <1>0, <1>3, <2>1 DEF Inside, Ahead, UnconfirmedLabels
  <2>3. \A c \in Categories : \E k \in 1..4 : RunOrder[k] = c
    BY DEF Categories, RunOrder
  <2>4. TestsStored(s, q)'
    BY <1>5, <1>7, <2>3 DEF TestsStored
  <2>5. Evaluating(p)'
    BY <1>1, <1>3, <1>4, <2>1, <2>4 DEF Evaluating
  <2> QED BY <1>0, <1>2, <1>3, <2>1, <2>2, <2>5, UnderLock, StepKeeps DEF Keeps
<1>8. Len(RunOrder) = 4
  BY DEF RunOrder
<1> QED BY <1>1, <1>6, <1>7, <1>8 DEF StoreTest

\* The only step that moves a confirmed number: forward, under the mutex.
LEMMA StoreLastSeqMoves ==
  ASSUME IInv, NEW p \in Procs, StoreLastSeq(p)
  PROVE  /\ loc[p].src \in Sources /\ lock[loc[p].src] = p
         /\ \A r \in Sources : r # loc[p].src => sources'[r] = sources[r]
         /\ sources'[loc[p].src].lastSeq = loc[p].seq
         /\ loc[p].seq > sources[loc[p].src].lastSeq
         /\ sources'[loc[p].src].state = sources[loc[p].src].state
         /\ sources[loc[p].src].state # "absent"
<1>0. /\ Inside(p) /\ Ahead(p) /\ loc[p].src \in Sources /\ pc[p] = "lastseq"
      /\ sources \in [Sources -> SourceRow]
  BY InsideIngest DEF StoreLastSeq, At, UnconfirmedLabels, Typed, TypeOK, TablesOK
<1>1. PICK s \in Sources : s = loc[p].src
  BY <1>0
<1> DEFINE row == [sources[s] EXCEPT !.lastSeq = loc[p].seq]
<1>2. sources[s] \in SourceRow
  BY <1>0
<1>3. row.lastSeq = loc[p].seq /\ row.state = sources[s].state
  BY <1>2 DEF SourceRow
<1>4. sources' = [sources EXCEPT ![s] = row]
  BY <1>1 DEF StoreLastSeq, SetLastSeq
<1> HIDE DEF row
<1>5. lock[s] = p
  BY <1>0, <1>1 DEF IInv, LockDiscipline
<1> QED BY <1>0, <1>1, <1>3, <1>4, <1>5 DEF Ahead, UnconfirmedLabels

LEMMA StoreLastSeqKeeps ==
  ASSUME IInv, Typed', NEW p \in Procs, StoreLastSeq(p)
  PROVE  IInv'
<1>0. /\ Inside(p) /\ Evaluating(p) /\ loc[p].seq \in Seqs /\ loc[p].op = "ingest"
      /\ pc[p] = "lastseq" /\ pc \in [Procs -> Labels]
  BY InsideIngest DEF StoreLastSeq, At, UnconfirmedLabels
<1>1. PICK s \in Sources, q \in Seqs : s = loc[p].src /\ q = loc[p].seq
  BY <1>0, StoreLastSeqMoves
<1>2. UNCHANGED <<lock, loc, windows, tests>>
  BY DEF StoreLastSeq, notSources
<1>3. pc'[p] \in {"observe", "recent"} /\ loc'[p] = loc[p] /\ Moves(p)
  BY <1>0, <1>2 DEF StoreLastSeq, Goto, Moves
<1>4. LockDiscipline'
  BY <1>0, <1>2, <1>3, UnderLock DEF Inside
<1>5. Ahead(p)' /\ Evaluating(p)'
  BY <1>3 DEF Ahead, Evaluating, UnconfirmedLabels
<1>6. windows[s][q].status \in FinalStatuses /\ TestsStored(s, q)
  BY <1>0, <1>1 DEF Evaluating
<1>7. \A r \in Sources : sources[r].state # "absent" => sources'[r].state # "absent"
  BY StoreLastSeqMoves
<1>8. Grows
  BY <1>2, <1>7 DEF Grows, ListByWindow
<1>9. ASSUME NEW r \in Sources, sources'[r].lastSeq # sources[r].lastSeq
      PROVE  /\ lock[r] = p
             /\ sources'[r].state # "absent"
             /\ windows'[r][sources'[r].lastSeq].status \in FinalStatuses
             /\ TestsStored(r, sources[r].lastSeq)'
  <2>1. r = s /\ sources'[r].lastSeq = q
    BY <1>1, <1>9, StoreLastSeqMoves
  <2>2. TestsStored(s, q)'
    BY <1>6, <1>8, TestsStoredGrows
  <2>3. TestsStored(r, sources[r].lastSeq)'
    BY <2>1, <2>2
  <2> QED BY <1>1, <1>2, <1>6, <2>1, <2>3, StoreLastSeqMoves
<1> QED BY <1>3, <1>4, <1>5, <1>8, <1>9, StepKeeps

-----------------------------------------------------------------------------
(* The whole service *)

LEMMA InitHolds == Init => IInv
<1> SUFFICES ASSUME Init PROVE IInv
  OBVIOUS
<1>1. /\ \A p \in Procs : pc[p] = "idle"
      /\ \A s \in Sources : lock[s] = None /\ sources[s].lastSeq = 0
  BY DEF Init, DatabaseInit, RequestsInit, NoSource
<1>2. LockDiscipline
  BY <1>1, RequestsAssumption DEF LockDiscipline, Inside
<1>3. \A p \in Procs : Ahead(p) /\ Evaluating(p)
  BY <1>1 DEF Ahead, Evaluating, UnconfirmedLabels
<1>4. Unregistered /\ ConfirmedSeqEvaluated
  BY <1>1 DEF Unregistered, ConfirmedSeqEvaluated
<1> QED BY <1>2, <1>3, <1>4, InitTyped DEF IInv

\* No handler survives a crash, and no mutex stays behind.
LEMMA CrashKeeps ==
  ASSUME IInv, Typed', Crash
  PROVE  IInv'
<1>1. /\ \A p \in Procs : pc'[p] = "idle"
      /\ \A s \in Sources : lock'[s] = None
      /\ UNCHANGED <<sources, windows, tests>>
  BY DEF Crash, tables
<1>2. LockDiscipline'
  BY <1>1, RequestsAssumption DEF LockDiscipline, Inside
<1>3. \A p \in Procs : Ahead(p)' /\ Evaluating(p)'
  BY <1>1 DEF Ahead, Evaluating, UnconfirmedLabels
<1>4. Unregistered' /\ ConfirmedSeqEvaluated'
  BY <1>1 DEF IInv, Unregistered, ConfirmedSeqEvaluated, TestsStored, ListByWindow
<1> QED BY <1>2, <1>3, <1>4 DEF IInv

LEMMA StutterKeeps ==
  ASSUME IInv, Typed', UNCHANGED vars
  PROVE  IInv'
BY DEF IInv, vars, tables, procVars, LockDiscipline, Inside, Ahead, Evaluating, Unregistered,
       ConfirmedSeqEvaluated, TestsStored, ListByWindow

\* The steps of one request that stay aside, and the others.
LEMMA RequestSteps ==
  ASSUME IInv, NEW p \in Procs, Accept(p) \/ Step(p) \/ Fail(p)
  PROVE  \/ Aside(p)
         \/ Acquire(p) \/ Admit(p) \/ CreateWindow(p) \/ StoreTest(p) \/ StoreStatus(p)
         \/ StoreLastSeq(p) \/ Return(p)
<1>0. Typed /\ Unregistered
  BY DEF IInv
<1>1. CASE Accept(p)
  BY <1>0, <1>1, SubmitAside, IsolateRequestAside, ServiceRequestAside, SnapshotRequestAside,
     ViewRequestAside
  DEF Accept
<1>2. CASE Step(p)
  BY <1>0, <1>2, IsolateStepAside, CorrelatorStepAside, ServiceStepAside, SnapshotStepAside,
     ViewStepAside, AnsweredAside
  DEF Step, IngestStep
<1>3. CASE Fail(p)
  BY <1>0, <1>3, AnsweredAside
<1> QED BY <1>1, <1>2, <1>3

\* IInv is inductive.
LEMMA NextKeeps == IInv /\ [Next]_vars => IInv'
<1> SUFFICES ASSUME IInv, [Next]_vars PROVE IInv'
  OBVIOUS
<1>1. Typed'
  BY NextTyped DEF IInv
<1>2. ASSUME NEW p \in Procs, Accept(p) \/ Step(p) \/ Fail(p) PROVE IInv'
  BY <1>1, <1>2, RequestSteps, AsideKeeps, AcquireKeeps, AdmitKeeps, CreateWindowKeeps,
     StoreTestKeeps, StoreStatusKeeps, StoreLastSeqKeeps, ReturnKeeps
<1>3. CASE Crash
  BY <1>1, <1>3, CrashKeeps
<1>4. CASE UNCHANGED vars
  BY <1>1, <1>4, StutterKeeps
<1> QED BY <1>2, <1>3, <1>4 DEF Next

\* No step lowers a confirmed number.
LEMMA NextMonotone ==
  IInv /\ [Next]_vars => \A s \in Sources : sources'[s].lastSeq >= sources[s].lastSeq
<1> SUFFICES ASSUME IInv, [Next]_vars, NEW s \in Sources
             PROVE  sources'[s].lastSeq >= sources[s].lastSeq
  OBVIOUS
<1>0. sources[s].lastSeq \in Int
  BY DomainAssumption DEF IInv, Typed, TypeOK, TablesOK, SourceRow
<1>1. CASE sources'[s].lastSeq = sources[s].lastSeq
  BY <1>0, <1>1
<1>2. ASSUME NEW p \in Procs, Accept(p) \/ Step(p) \/ Fail(p)
      PROVE  sources'[s].lastSeq >= sources[s].lastSeq
  <2>1. CASE Aside(p)
    BY <1>1, <2>1 DEF Aside, Keeps
  <2>2. CASE StoreLastSeq(p)
    <3>1. CASE s = loc[p].src
      <4>1. loc[p].seq \in Int
        <5>1. loc[p] \in Local
          BY LocalTyped DEF IInv
        <5>2. loc[p].seq \in 0..MaxSeq
          BY <5>1 DEF Local
        <5> QED BY <5>2, DomainAssumption
      <4>2. sources'[s].lastSeq = loc[p].seq /\ loc[p].seq > sources[s].lastSeq
        BY <2>2, <3>1, StoreLastSeqMoves
      <4> QED BY <1>0, <4>1, <4>2
    <3>2. CASE s # loc[p].src
      BY <1>1, <2>2, <3>2, StoreLastSeqMoves
    <3> QED BY <3>1, <3>2
  <2>3. CASE Acquire(p) \/ Admit(p) \/ CreateWindow(p) \/ StoreTest(p) \/ StoreStatus(p)
             \/ Return(p)
    BY <1>1, <2>3
    DEF Acquire, Admit, CreateWindow, StoreTest, StoreStatus, Return, tables, notWindows, notTests
  <2> QED BY <1>2, <2>1, <2>2, <2>3, RequestSteps
<1>3. CASE Crash
  BY <1>1, <1>3 DEF Crash, tables
<1>4. CASE UNCHANGED vars
  BY <1>1, <1>4 DEF vars, tables
<1> QED BY <1>2, <1>3, <1>4 DEF Next

-----------------------------------------------------------------------------

\* IInv is an invariant of the service.
THEOREM IngestInvariant == Spec => []IInv
<1>1. Init => IInv
  BY InitHolds
<1>2. IInv /\ [Next]_vars => IInv'
  BY NextKeeps
<1> QED BY <1>1, <1>2, PTL DEF Spec

\* The mutex that lockFor returns is held by exactly the request inside Ingest
\* for that source: two windows of a source are never processed at once, and no
\* answer, error or crash leaves a mutex locked, however many requests there are.
THEOREM MutualExclusion == Spec => []LockDiscipline
<1>1. IInv => LockDiscipline
  BY DEF IInv
<1> QED BY <1>1, IngestInvariant, PTL

\* Wherever the process dies or a statement fails, the number SetLastSeq has
\* written names a window with a final status and the results of all four tests.
THEOREM ConfirmedIsEvaluated == Spec => []ConfirmedSeqEvaluated
<1>1. IInv => ConfirmedSeqEvaluated
  BY DEF IInv
<1> QED BY <1>1, IngestInvariant, PTL

\* last_seq never goes back, although SetLastSeq writes it without comparing it
\* and Ingest compared it many statements earlier.
THEOREM ConfirmedNeverBack == Spec => LastSeqMonotone
<1>1. IInv /\ [Next]_vars => [\A s \in Sources : sources'[s].lastSeq >= sources[s].lastSeq]_vars
  BY NextMonotone
<1> QED BY <1>1, IngestInvariant, PTL DEF Spec, LastSeqMonotone
=============================================================================
