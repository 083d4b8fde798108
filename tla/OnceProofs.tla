----------------------------- MODULE OnceProofs -----------------------------
(***************************************************************************)
(* The results of a window.  No window is evaluated twice: while a request *)
(* evaluates one, the results stored for it are those of the tests it has  *)
(* run; what is stored beforehand is nothing, because results are only     *)
(* ever stored for recorded windows and the unique index refuses a         *)
(* recorded one; and no other request adds to them, because of the mutex.  *)
(* And a verdict rests on results, whoever gives it.                       *)
(***************************************************************************)
EXTENDS StepProofs

\* A result belongs to a window that has a row.
TestsOfWindows ==
  \A s \in Sources : \A i \in DOMAIN tests[s] : windows[s][tests[s][i].seq].status # "none"

\* While p evaluates a window, it has only results of the tests p has passed by.
OnlyEarlier(p) ==
  pc[p] = "evaluate" =>
    \A i \in DOMAIN tests[loc[p].src] :
      tests[loc[p].src][i].seq = loc[p].seq =>
        \E k \in 1..(loc[p].test - 1) : tests[loc[p].src][i].category = RunOrder[k]

OnceInv ==
  /\ TestsOfWindows
  /\ \A p \in Procs : OnlyEarlier(p)
  /\ EvaluatedOnce

-----------------------------------------------------------------------------

LEMMA TestRows ==
  ASSUME Typed, NEW s \in Sources
  PROVE  /\ tests[s] \in Seq(StoredTest)
         /\ DOMAIN tests[s] = 1..Len(tests[s])
         /\ \A i \in DOMAIN tests[s] : tests[s][i].seq \in Seqs
<1>1. tests[s] \in Seq(StoredTest)
  BY DEF Typed, TypeOK, TablesOK
<1>2. DOMAIN tests[s] = 1..Len(tests[s]) /\ \A i \in DOMAIN tests[s] : tests[s][i] \in StoredTest
  BY <1>1, LenProperties, ElementOfSeq
<1> QED BY <1>1, <1>2 DEF StoredTest

\* A window has no result before it has a row.
LEMMA CreateWindowOnce ==
  ASSUME IInv, OnceInv, NEW p \in Procs, CreateWindow(p)
  PROVE  OnlyEarlier(p)'
<1>0. /\ Typed /\ loc[p] \in Local /\ loc[p].src \in Sources /\ loc[p].seq \in Seqs
      /\ loc \in [Procs -> Local]
  BY InsideIngest DEF CreateWindow, At, UnconfirmedLabels
<1>1. PICK hashes : loc' = [loc EXCEPT ![p] = [@ EXCEPT
                              !.replay = IsReplay(loc[p].sample, hashes), !.test = 1]]
  BY DEF CreateWindow
<1> DEFINE replay == IsReplay(loc[p].sample, hashes)
           l == [loc[p] EXCEPT !.replay = replay, !.test = 1]
<1>2. loc' = [loc EXCEPT ![p] = l]
  BY <1>1
<1> HIDE DEF replay
<1>3. l.src = loc[p].src /\ l.seq = loc[p].seq
  BY <1>0 DEF Local
<1> HIDE DEF l
<1>4. loc'[p] = l /\ tests' = tests
  BY <1>0, <1>2 DEF CreateWindow, notWindows
<1>5. windows[loc[p].src][loc[p].seq].status = "none"
  BY <1>0 DEF CreateWindow, Recorded
<1>6. \A i \in DOMAIN tests[loc[p].src] : tests[loc[p].src][i].seq # loc[p].seq
  BY <1>0, <1>5 DEF OnceInv, TestsOfWindows
<1> QED BY <1>3, <1>4, <1>6 DEF OnlyEarlier

\* The next test of a window is one it has no result of.
LEMMA StoreTestOnce ==
  ASSUME IInv, OnceInv, NEW p \in Procs, StoreTest(p)
  PROVE  OnceInv'
<1>0. /\ Typed /\ Inside(p) /\ Evaluating(p) /\ loc[p] \in Local
      /\ loc[p].src \in Sources /\ loc[p].op = "ingest" /\ loc[p].seq \in Seqs
      /\ pc[p] = "evaluate"
      /\ loc \in [Procs -> Local] /\ pc \in [Procs -> Labels]
  BY InsideIngest DEF StoreTest, At, UnconfirmedLabels
<1>1. PICK s \in Sources, q \in Seqs, n \in 1..4 :
        s = loc[p].src /\ q = loc[p].seq /\ n = loc[p].test
  BY <1>0 DEF Local
<1>2. PICK row : /\ row.seq = q /\ row.category = RunOrder[n]
                 /\ tests' = [tests EXCEPT ![s] = Append(tests[s], row)]
  <2> DEFINE new == [seq |-> q, category |-> RunOrder[n],
                     passed |-> RunOrder[n] \notin FailedBy[loc[p].sample]]
  <2>1. tests' = [tests EXCEPT ![s] = Append(tests[s], new)]
    BY <1>1 DEF StoreTest, InsertTest
  <2>2. new.seq = q /\ new.category = RunOrder[n]
    OBVIOUS
  <2> HIDE DEF new
  <2> QED BY <2>1, <2>2
<1>3. tests[s] \in Seq(StoredTest) /\ tests \in [Sources -> Seq(StoredTest)]
  BY <1>0 DEF Typed, TypeOK, TablesOK
<1>4. PICK size \in Nat : size = Len(tests[s])
  BY <1>3, LenProperties
<1>5. \A r \in Sources : r # s => tests'[r] = tests[r]
  BY <1>2, <1>3
<1>6. /\ DOMAIN tests[s] = 1..size
      /\ DOMAIN tests'[s] = 1..(size + 1)
      /\ \A i \in 1..size : tests'[s][i] = tests[s][i]
      /\ tests'[s][size + 1] = row
  <2>1. tests'[s] = Append(tests[s], row)
    BY <1>2, <1>3
  <2> QED BY <1>3, <1>4, <2>1, LenProperties
<1>7. UNCHANGED windows
  BY DEF StoreTest, notTests
<1>8. TestsOfWindows'
  <2>1. windows[s][q].status # "none"
    BY <1>0, <1>1 DEF Evaluating
  <2> SUFFICES ASSUME NEW r \in Sources, NEW i \in DOMAIN tests'[r]
               PROVE  windows[r][tests'[r][i].seq].status # "none"
    BY <1>7 DEF TestsOfWindows
  <2>2. CASE r = s /\ i = size + 1
    BY <1>2, <1>6, <2>1, <2>2
  <2>3. CASE r = s /\ i # size + 1
    <3>1. i \in DOMAIN tests[s] /\ tests'[s][i] = tests[s][i]
      BY <1>4, <1>6, <2>3
    <3> QED BY <2>3, <3>1 DEF OnceInv, TestsOfWindows
  <2>4. CASE r # s
    BY <1>5, <2>4 DEF OnceInv, TestsOfWindows
  <2> QED BY <2>2, <2>3, <2>4
<1>9. \A i \in 1..size : tests[s][i].seq = q =>
        \E k \in 1..(n - 1) : tests[s][i].category = RunOrder[k]
  BY <1>0, <1>1, <1>6 DEF OnceInv, OnlyEarlier
<1>10. \A k \in 1..(n - 1) : RunOrder[k] # RunOrder[n]
  BY DEF RunOrder
<1>11. EvaluatedOnce'
  <2> SUFFICES ASSUME NEW r \in Sources, NEW i \in DOMAIN tests'[r], NEW j \in DOMAIN tests'[r],
                      tests'[r][i].seq = tests'[r][j].seq,
                      tests'[r][i].category = tests'[r][j].category
               PROVE  i = j
    BY DEF EvaluatedOnce
  <2>1. CASE r # s
    BY <1>5, <2>1 DEF OnceInv, EvaluatedOnce
  <2>2. CASE r = s /\ i \in 1..size /\ j \in 1..size
    BY <1>6, <2>2 DEF OnceInv, EvaluatedOnce
  <2>3. ASSUME r = s, NEW k \in 1..size, tests'[s][k].seq = q,
               tests'[s][k].category = RunOrder[n]
        PROVE  FALSE
    BY <1>6, <1>9, <1>10, <2>3
  <2> QED BY <1>2, <1>4, <1>6, <2>1, <2>2, <2>3
<1>12. ASSUME NEW r \in Procs PROVE OnlyEarlier(r)'
  <2>1. CASE r # p
    <3>1. pc'[r] = pc[r] /\ loc'[r] = loc[r]
      BY <1>0, <2>1 DEF StoreTest, Goto
    <3>2. ASSUME pc[r] = "evaluate" PROVE loc[r].src \in Sources /\ loc[r].src # s
      <4>1. loc[r].src \in Sources /\ lock[loc[r].src] = r
        BY <2>1, <3>2, HolderAlone DEF UnconfirmedLabels
      <4>2. lock[s] = p
        BY <1>0, <1>1 DEF IInv, LockDiscipline
      <4> QED BY <2>1, <4>1, <4>2
    <3>3. CASE pc[r] = "evaluate"
      <4>1. tests'[loc[r].src] = tests[loc[r].src]
        BY <1>5, <3>2, <3>3
      <4>2. OnlyEarlier(r)
        BY DEF OnceInv
      <4> QED BY <3>1, <4>1, <4>2 DEF OnlyEarlier
    <3>4. CASE pc[r] # "evaluate"
      BY <3>1, <3>4 DEF OnlyEarlier
    <3> QED BY <3>3, <3>4
  <2>2. CASE r = p /\ loc' = [loc EXCEPT ![p].test = @ + 1]
    <3> DEFINE l == [loc[p] EXCEPT !.test = n + 1]
    <3>1. l.src = s /\ l.seq = q /\ l.test = n + 1
      BY <1>0, <1>1 DEF Local
    <3>2. loc' = [loc EXCEPT ![p] = l]
      BY <1>1, <2>2
    <3> HIDE DEF l
    <3>3. loc'[p] = l
      BY <1>0, <3>2
    <3>4. \A i \in 1..(size + 1) : tests'[s][i].seq = q =>
            \E k \in 1..n : tests'[s][i].category = RunOrder[k]
      <4> SUFFICES ASSUME NEW i \in 1..(size + 1), tests'[s][i].seq = q
                   PROVE  \E k \in 1..n : tests'[s][i].category = RunOrder[k]
        OBVIOUS
      <4>1. CASE i = size + 1
        BY <1>2, <1>6, <4>1
      <4>2. CASE i \in 1..size
        <5>1. PICK k \in 1..(n - 1) : tests[s][i].category = RunOrder[k]
          BY <1>6, <1>9, <4>2
        <5>2. k \in 1..n
          OBVIOUS
        <5> QED BY <1>6, <4>2, <5>1, <5>2
      <4> QED BY <1>4, <4>1, <4>2
    <3>5. l.test - 1 = n
      BY <3>1
    <3>6. \A i \in DOMAIN tests'[l.src] : tests'[l.src][i].seq = l.seq =>
            \E k \in 1..(l.test - 1) : tests'[l.src][i].category = RunOrder[k]
      BY <1>6, <3>1, <3>4, <3>5
    <3>7. loc'[r] = l
      BY <2>2, <3>3
    <3> QED BY <3>6, <3>7 DEF OnlyEarlier
  <2>3. CASE r = p /\ Goto(p, "status")
    BY <1>0, <2>3 DEF Goto, OnlyEarlier
  <2> QED BY <2>1, <2>2, <2>3 DEF StoreTest
<1> QED BY <1>8, <1>11, <1>12 DEF OnceInv

LEMMA OnceKept == IInv /\ OnceInv /\ [Next]_vars => OnceInv'
<1> SUFFICES ASSUME IInv, OnceInv, [Next]_vars PROVE OnceInv'
  OBVIOUS
<1>1. ASSUME NEW p \in Procs, Accept(p) \/ Acts(p), ~StoreTest(p) PROVE OnceInv'
  <2>0. Typed
    BY DEF IInv
  <2>1. tests' = tests /\ Grows /\ Moves(p) /\ (pc'[p] = "evaluate" => CreateWindow(p))
    <3>1. CASE Accept(p)
      BY <2>0, <3>1, Accepted, AloneAndGrowing DEF Starts, tables
    <3>2. CASE Acts(p)
      BY <1>1, <2>0, <3>2, Writers, Paths, AloneAndGrowing
    <3> QED BY <1>1, <3>1, <3>2
  <2>2. TestsOfWindows'
    BY <2>1, TestRows DEF IInv, OnceInv, TestsOfWindows, Grows
  <2>3. EvaluatedOnce'
    BY <2>1 DEF OnceInv, EvaluatedOnce
  <2>4. OnlyEarlier(p)'
    <3>1. CASE CreateWindow(p)
      BY <3>1, CreateWindowOnce
    <3>2. CASE ~CreateWindow(p)
      BY <2>1, <3>2 DEF OnlyEarlier
    <3> QED BY <3>1, <3>2
  <2>5. \A r \in Procs : r # p => OnlyEarlier(r)'
    BY <2>1 DEF OnceInv, OnlyEarlier, Moves
  <2> QED BY <2>2, <2>3, <2>4, <2>5 DEF OnceInv
<1>2. CASE Crash
  <2>1. UNCHANGED <<windows, tests>> /\ \A p \in Procs : pc'[p] = "idle"
    BY <1>2 DEF Crash, tables
  <2> QED BY <2>1 DEF OnceInv, TestsOfWindows, EvaluatedOnce, OnlyEarlier
<1>3. CASE UNCHANGED vars
  BY <1>3 DEF vars, OnceInv, TestsOfWindows, EvaluatedOnce, OnlyEarlier
<1> QED BY <1>1, <1>2, <1>3, StoreTestOnce DEF Next, Acts

LEMMA OnceInvariant == Spec => []OnceInv
<1>1. Init => OnceInv
  BY DEF Init, DatabaseInit, RequestsInit, OnceInv, TestsOfWindows, EvaluatedOnce, OnlyEarlier
<1> QED BY <1>1, OnceKept, IngestInvariant, PTL DEF Spec

\* However often a client repeats a request, and wherever a statement fails or the
\* process dies in Ingest, no test of a window is stored twice.
THEOREM NeverEvaluatedTwice == Spec => []EvaluatedOnce
<1>1. OnceInv => EvaluatedOnce
  BY DEF OnceInv
<1> QED BY <1>1, OnceInvariant, PTL

-----------------------------------------------------------------------------
(* A verdict rests on stored results.  StoreStatus judges the sample, not  *)
(* the results, so that the results must be shown to say of the sample     *)
(* what FailedBy says; ReevaluateWindow judges the results it has read,    *)
(* and results only accumulate.                                            *)

\* The results stored for a window bear out this status and anomaly.
BorneOut(s, q, status, anomaly) ==
  /\ status = "valid" => \E t \in ListByWindow(s, q) : t.passed
  /\ status = "stat_anomaly" => \E t \in ListByWindow(s, q) : t.category = anomaly /\ ~t.passed

\* The result of one test of a sample is stored for a window.
Result(s, q, category, sample) ==
  \E t \in ListByWindow(s, q) :
    t.category = category /\ t.passed = (category \notin FailedBy[sample])

VerdictDue(p) ==
  LET s == loc[p].src
      q == loc[p].seq
  IN  /\ pc[p] = "evaluate" =>
           \A k \in 1..(loc[p].test - 1) : Result(s, q, RunOrder[k], loc[p].sample)
      /\ pc[p] = "status" => \A c \in Categories : Result(s, q, c, loc[p].sample)
      /\ pc[p] = "reevaluate" => BorneOut(s, q, loc[p].status, loc[p].anomaly)

VerdictInv ==
  /\ \A s \in Sources, q \in Seqs : BorneOut(s, q, windows[s][q].status, windows[s][q].anomaly)
  /\ \A p \in Procs : VerdictDue(p)

LEMMA ResultsStay ==
  ASSUME Grows, NEW s \in Sources, NEW q \in Seqs
  PROVE  /\ \A st, an : BorneOut(s, q, st, an) => BorneOut(s, q, st, an)'
         /\ \A c, x : Result(s, q, c, x) => Result(s, q, c, x)'
BY DEF Grows, BorneOut, Result

\* FirstFailing names a failed category.
LEMMA FirstFailingAmong ==
  ASSUME NEW failed \in SUBSET Categories, failed # {}
  PROVE  /\ FirstFailing(RunOrder, failed) \in failed
         /\ FirstFailing(AlphaOrder, failed) \in failed
<1>1. ASSUME NEW order, Len(order) = 4, \A c \in Categories : \E i \in 1..4 : order[i] = c
      PROVE  FirstFailing(order, failed) \in failed
  <2> DEFINE Fails(i) == order[i] \in failed
  <2>1. \E i \in 1..4 : Fails(i) /\ \A j \in 1..(i - 1) : ~Fails(j)
    <3>1. Fails(1) \/ Fails(2) \/ Fails(3) \/ Fails(4)
      <4>1. PICK c \in failed : c \in Categories
        OBVIOUS
      <4>2. PICK i \in 1..4 : order[i] = c
        BY <1>1, <4>1
      <4>3. i = 1 \/ i = 2 \/ i = 3 \/ i = 4
        OBVIOUS
      <4> QED BY <4>1, <4>2, <4>3
    <3> HIDE DEF Fails
    <3>2. CASE Fails(1)
      BY <3>2
    <3>3. CASE ~Fails(1) /\ Fails(2)
      BY <3>3
    <3>4. CASE ~Fails(1) /\ ~Fails(2) /\ Fails(3)
      BY <3>4
    <3>5. CASE ~Fails(1) /\ ~Fails(2) /\ ~Fails(3) /\ Fails(4)
      BY <3>5
    <3> QED BY <3>1, <3>2, <3>3, <3>4, <3>5
  <2> QED BY <1>1, <2>1 DEF FirstFailing
<1>2. Len(RunOrder) = 4 /\ Len(AlphaOrder) = 4
  BY DEF RunOrder, AlphaOrder
<1>3. /\ \A c \in Categories : \E i \in 1..4 : RunOrder[i] = c
      /\ \A c \in Categories : \E i \in 1..4 : AlphaOrder[i] = c
  BY DEF Categories, RunOrder, AlphaOrder
<1> QED BY <1>1, <1>2, <1>3

\* The stored results of all four tests of a sample bear out the verdict on it.
LEMMA ResolvedBorneOut ==
  ASSUME Typed, NEW s \in Sources, NEW q \in Seqs, NEW x \in Samples, NEW replay,
         \A c \in Categories : Result(s, q, c, x)
  PROVE  BorneOut(s, q, ResolvedStatus(replay, x), ResolvedAnomaly(replay, x))
<1>0. FailedBy[x] \in SUBSET Categories
  BY DomainAssumption
<1>1. CASE replay
  BY <1>1 DEF ResolvedStatus, BorneOut
<1>2. CASE ~replay /\ FailedBy[x] = {}
  <2>1. Result(s, q, "monobit", x)
    BY DEF Categories
  <2>2. \E t \in ListByWindow(s, q) : t.passed
    BY <1>2, <2>1 DEF Result
  <2> QED BY <1>2, <2>2 DEF ResolvedStatus, StatStatus, BorneOut
<1>3. CASE ~replay /\ FailedBy[x] # {}
  <2>1. FirstFailing(RunOrder, FailedBy[x]) \in FailedBy[x]
    BY <1>0, <1>3, FirstFailingAmong
  <2>2. ResolvedAnomaly(replay, x) = FirstFailing(RunOrder, FailedBy[x])
    BY <1>3 DEF ResolvedAnomaly, StatAnomaly
  <2>3. Result(s, q, ResolvedAnomaly(replay, x), x)
    BY <1>0, <2>1, <2>2
  <2>4. \E t \in ListByWindow(s, q) : t.category = ResolvedAnomaly(replay, x) /\ ~t.passed
    BY <2>1, <2>2, <2>3 DEF Result
  <2>5. ResolvedStatus(replay, x) = "stat_anomaly"
    BY <1>3 DEF ResolvedStatus, StatStatus
  <2> QED BY <2>4, <2>5 DEF BorneOut
<1> QED BY <1>1, <1>2, <1>3

\* So do the results ReevaluateWindow has read.
LEMMA ReevaluatedBorneOut ==
  ASSUME Typed, NEW p \in Procs, NEW s \in Sources, Reevaluate(p, s)
  PROVE  BorneOut(s, loc'[p].seq, loc'[p].status, loc'[p].anomaly)
<1>1. PICK q \in Seqs, failed \in SUBSET Categories :
        /\ loc'[p].seq = q
        /\ loc'[p].status = StatStatus(failed)
        /\ loc'[p].anomaly = StatAnomaly(AlphaOrder, failed)
        /\ ListByWindow(s, q) # {}
        /\ failed = {t.category : t \in {u \in ListByWindow(s, q) : ~u.passed}}
  BY ReevaluateSets
<1>2. CASE failed = {}
  <2>1. \A t \in ListByWindow(s, q) : t.passed
    BY <1>1, <1>2
  <2>2. \E t \in ListByWindow(s, q) : t.passed
    BY <1>1, <2>1
  <2>3. loc'[p].status = "valid"
    BY <1>1, <1>2 DEF StatStatus
  <2> QED BY <1>1, <2>2, <2>3 DEF BorneOut
<1>3. CASE failed # {}
  <2>1. FirstFailing(AlphaOrder, failed) \in failed
    BY <1>3, FirstFailingAmong
  <2>2. loc'[p].status = "stat_anomaly" /\ loc'[p].anomaly = FirstFailing(AlphaOrder, failed)
    BY <1>1, <1>3 DEF StatStatus, StatAnomaly
  <2>3. \E t \in ListByWindow(s, q) : t.category = loc'[p].anomaly /\ ~t.passed
    BY <1>1, <2>1, <2>2
  <2> QED BY <1>1, <2>2, <2>3 DEF BorneOut
<1> QED BY <1>2, <1>3

LEMMA VerdictStep ==
  ASSUME IInv, VerdictInv, NEW p \in Procs, Accept(p) \/ Acts(p)
  PROVE  VerdictInv'
<1>0. Typed /\ Moves(p) /\ Grows
  BY AloneAndGrowing DEF IInv
<1>1. ASSUME NEW s \in Sources, NEW q \in Seqs
      PROVE  BorneOut(s, q, windows[s][q].status, windows[s][q].anomaly)'
  <2>0. BorneOut(s, q, windows[s][q].status, windows[s][q].anomaly)
    BY DEF VerdictInv
  <2>1. CASE windows'[s][q] = windows[s][q]
    <3> DEFINE st == windows[s][q].status
               an == windows[s][q].anomaly
    <3>1. BorneOut(s, q, st, an)
      BY <2>0
    <3>2. st' = st /\ an' = an
      BY <2>1
    <3> HIDE DEF st, an
    <3>3. BorneOut(s, q, st, an)'
      BY <1>0, <3>1, <3>2, ResultsStay DEF BorneOut, Grows
    <3> QED BY <3>3 DEF st, an
  <2>2. CASE CreateWindow(p) /\ windows'[s][q] # windows[s][q]
    <3>1. loc[p].src \in Sources /\ loc[p].seq \in Seqs
      BY <2>2, InsideIngest DEF CreateWindow, At, UnconfirmedLabels
    <3>2. windows'[s][q].status = "new"
      BY <1>0, <2>2, <3>1, WindowInserted DEF CreateWindow
    <3> QED BY <3>2 DEF BorneOut
  <2>3. CASE StoreStatus(p) /\ windows'[s][q] # windows[s][q]
    <3>1. /\ loc[p].src \in Sources /\ loc[p].seq \in Seqs /\ loc[p].sample \in Samples
          /\ pc[p] = "status"
      BY <2>3, InsideIngest DEF StoreStatus, At, UnconfirmedLabels
    <3>2. /\ s = loc[p].src /\ q = loc[p].seq
          /\ windows'[s][q].status = ResolvedStatus(loc[p].replay, loc[p].sample)
          /\ windows'[s][q].anomaly = ResolvedAnomaly(loc[p].replay, loc[p].sample)
      BY <1>0, <2>3, <3>1, StoreStatusSets, StatusWritten
    <3>3. \A c \in Categories : Result(s, q, c, loc[p].sample)
      BY <3>1, <3>2 DEF VerdictInv, VerdictDue
    <3>4. BorneOut(s, q, windows'[s][q].status, windows'[s][q].anomaly)
      BY <1>0, <3>1, <3>2, <3>3, ResolvedBorneOut
    <3> QED BY <1>0, <3>4 DEF BorneOut, Grows
  <2>4. CASE SetReevaluated(p) /\ windows'[s][q] # windows[s][q]
    <3>1. loc[p].src \in Sources /\ loc[p].seq \in Seqs /\ pc[p] = "reevaluate"
      BY <1>0, <2>4, LocalTyped DEF SetReevaluated, At, LocalsFit
    <3>2. /\ s = loc[p].src /\ q = loc[p].seq
          /\ windows'[s][q].status = loc[p].status /\ windows'[s][q].anomaly = loc[p].anomaly
      BY <1>0, <2>4, <3>1, StatusWritten DEF SetReevaluated
    <3>3. BorneOut(s, q, windows'[s][q].status, windows'[s][q].anomaly)
      BY <3>1, <3>2 DEF VerdictInv, VerdictDue
    <3> QED BY <1>0, <3>3 DEF BorneOut, Grows
  <2> QED
    <3>1. Accept(p) => windows' = windows
      BY <1>0, Accepted DEF tables
    <3>2. Acts(p) => CreateWindow(p) \/ StoreStatus(p) \/ SetReevaluated(p) \/ UNCHANGED windows
      BY Writers
    <3> QED BY <2>1, <2>2, <2>3, <2>4, <3>1, <3>2
<1>2. ASSUME NEW r \in Procs, r # p PROVE VerdictDue(r)'
  <2>1. VerdictDue(r) /\ pc'[r] = pc[r] /\ loc'[r] = loc[r]
    BY <1>0, <1>2 DEF VerdictInv, Moves
  <2>2. CASE pc[r] \in {"evaluate", "status", "reevaluate"}
    <3>1. loc[r].src \in Sources /\ loc[r].seq \in Seqs
      BY <1>0, <2>2, LocalTyped DEF LocalsFit, UnconfirmedLabels
    <3> QED BY <1>0, <2>1, <3>1 DEF VerdictDue, Grows, BorneOut, Result
  <2>3. CASE pc[r] \notin {"evaluate", "status", "reevaluate"}
    BY <2>1, <2>3 DEF VerdictDue
  <2> QED BY <2>2, <2>3
<1>3. VerdictDue(p)'
  <2>1. CASE Accept(p)
    <3>1. pc'[p] # "evaluate" /\ pc'[p] # "status"
      BY <1>0, <2>1, Accepted DEF Starts
    <3>2. CASE pc'[p] = "reevaluate"
      <4>1. PICK s \in Sources : Reevaluate(p, s) /\ loc'[p].src = s
        BY <1>0, <2>1, <3>2, Accepted DEF Starts
      <4>2. BorneOut(s, loc'[p].seq, loc'[p].status, loc'[p].anomaly) /\ loc'[p].seq \in Seqs
        BY <1>0, <4>1, ReevaluatedBorneOut, ReevaluateSets
      <4>3. BorneOut(loc[p].src, loc[p].seq, loc[p].status, loc[p].anomaly)'
        BY <1>0, <4>1, <4>2 DEF BorneOut, Grows
      <4> QED BY <3>2, <4>3 DEF VerdictDue
    <3> QED BY <3>1, <3>2 DEF VerdictDue
  <2>2. CASE CreateWindow(p)
    <3>1. pc'[p] = "evaluate" /\ loc'[p].test = 1
      BY <1>0, <2>2, GoesTo, CreateWindowSets DEF CreateWindow
    <3> QED BY <3>1 DEF VerdictDue
  <2>3. CASE StoreTest(p)
    <3>0. /\ loc[p].src \in Sources /\ loc[p].seq \in Seqs /\ loc[p].sample \in Samples
          /\ pc[p] = "evaluate" /\ loc[p] \in Local
      BY <2>3, InsideIngest DEF StoreTest, At, UnconfirmedLabels
    <3>1. PICK s \in Sources, q \in Seqs, n \in 1..4, x \in Samples :
            s = loc[p].src /\ q = loc[p].seq /\ n = loc[p].test /\ x = loc[p].sample
      BY <3>0 DEF Local
    <3>2. loc'[p].src = s /\ loc'[p].seq = q /\ loc'[p].sample = x
      <4>1. {"src", "seq", "sample"} \subseteq DOMAIN Blank
        BY DEF Blank
      <4>2. Leaves(p, {"test"})
        BY <1>0, <2>3, StoreTestSets
      <4> QED BY <3>1, <4>1, <4>2 DEF Leaves
    <3>3. Result(s, q, RunOrder[n], x)'
      BY <1>0, <2>3, <3>1, TestInserted DEF StoreTest, Result
    <3>4. \A k \in 1..(n - 1) : Result(s, q, RunOrder[k], x)'
      BY <1>0, <3>0, <3>1, ResultsStay DEF VerdictInv, VerdictDue
    <3>5. \A k \in 1..n : Result(s, q, RunOrder[k], x)'
      BY <3>3, <3>4
    <3>6. CASE n < 4 /\ loc'[p].test = n + 1 /\ pc'[p] = "evaluate"
      <4>1. loc'[p].test - 1 = n
        BY <3>6
      <4> QED BY <3>2, <3>5, <3>6, <4>1 DEF VerdictDue
    <3>7. CASE n = 4 /\ pc'[p] = "status"
      <4>1. \A c \in Categories : \E k \in 1..4 : RunOrder[k] = c
        BY DEF Categories, RunOrder
      <4>2. \A c \in Categories : Result(s, q, c, x)'
        BY <3>5, <3>7, <4>1
      <4> QED BY <3>2, <3>7, <4>2 DEF VerdictDue
    <3> QED BY <1>0, <2>3, <3>1, <3>6, <3>7, StoreTestSets
  <2>4. CASE Acts(p) /\ ~CreateWindow(p) /\ ~StoreTest(p)
    BY <1>0, <2>4, Paths DEF VerdictDue
  <2> QED BY <2>1, <2>2, <2>3, <2>4
<1> QED BY <1>1, <1>2, <1>3 DEF VerdictInv

LEMMA VerdictKept == IInv /\ VerdictInv /\ [Next]_vars => VerdictInv'
<1> SUFFICES ASSUME IInv, VerdictInv, [Next]_vars PROVE VerdictInv'
  OBVIOUS
<1>1. CASE Crash
  <2>1. UNCHANGED <<windows, tests>> /\ \A p \in Procs : pc'[p] = "idle"
    BY <1>1 DEF Crash, tables
  <2>2. \A p \in Procs : VerdictDue(p)'
    BY <2>1 DEF VerdictDue
  <2>3. \A s \in Sources, q \in Seqs : BorneOut(s, q, windows[s][q].status, windows[s][q].anomaly)'
    BY <2>1 DEF VerdictInv, BorneOut, ListByWindow
  <2> QED BY <2>2, <2>3 DEF VerdictInv
<1>2. CASE UNCHANGED vars
  BY <1>2 DEF vars, VerdictInv, VerdictDue, BorneOut, Result, ListByWindow
<1> QED BY <1>1, <1>2, VerdictStep DEF Next, Acts

\* Whatever crashed, failed or ran in between, a valid window has a test it passed and
\* a statistical anomaly has failed the test it is named after: StoreStatus and
\* ReevaluateWindow never give a verdict the stored results do not bear out.
THEOREM VerdictsRestOnTests == Spec => []VerdictFromTests
<1>1. Init => VerdictInv
  <2> SUFFICES ASSUME Init PROVE VerdictInv
    OBVIOUS
  <2>1. \A p \in Procs : VerdictDue(p)
    BY DEF Init, RequestsInit, VerdictDue
  <2>2. \A s \in Sources, q \in Seqs : windows[s][q].status = "none"
    BY DEF Init, DatabaseInit, NoWindow
  <2> QED BY <2>1, <2>2 DEF VerdictInv, BorneOut
<1>2. IInv /\ VerdictInv /\ [Next]_vars => VerdictInv'
  BY VerdictKept
<1>3. VerdictInv => VerdictFromTests
  BY DEF VerdictInv, BorneOut, VerdictFromTests, Recorded
<1> QED BY <1>1, <1>2, <1>3, IngestInvariant, PTL DEF Spec
=============================================================================
