----------------------------- MODULE StepProofs -----------------------------
(***************************************************************************)
(* What one step of one request can change: which tables, which of its own *)
(* locals, and from which statements each statement is reached.  The       *)
(* proofs of the other invariants look only at the few steps that concern  *)
(* them and take from here that all the others do not.                     *)
(***************************************************************************)
EXTENDS IngestProofs

\* The step of p leaves every local outside fs alone ...
Leaves(p, fs) == \A f \in DOMAIN Blank \ fs : loc'[p][f] = loc[p][f]

\* ... or p starts a request for s at a label, with nothing set outside fs.
Fresh(p, fs) == \A f \in DOMAIN Blank \ fs : loc'[p][f] = Blank[f]
Starts(p, op, s, label, fs) ==
  /\ op \in Ops
  /\ pc'[p] = label
  /\ loc'[p].op = op
  /\ loc'[p].src = s
  /\ Fresh(p, {"op", "src"} \cup fs)

Acts(p) == Step(p) \/ Fail(p)

-----------------------------------------------------------------------------
(* Tables *)

\* The one statement that stores each thing, or the few.
LEMMA Writers ==
  ASSUME NEW p \in Procs, Acts(p)
  PROVE  /\ StoreTest(p) \/ UNCHANGED tests
         /\ InsertedRestart(p) \/ UNCHANGED restarts
         /\ CreateWindow(p) \/ StoreStatus(p) \/ SetReevaluated(p) \/ UNCHANGED windows
         /\ InsertDraft(p) \/ SetPublished(p) \/ SetSuperseded(p) \/ UNCHANGED snaps
         /\ \/ Settle(p) \/ SettleClose(p) \/ CreateEvent(p) \/ Raise(p) \/ ExtendRun(p)
            \/ SetConfirmed(p) \/ SetClosed(p) \/ UNCHANGED events
         /\ \/ StoreLastSeq(p) \/ InsertedSource(p) \/ SetObserving(p) \/ SetRecovered(p)
            \/ SetDegraded(p) \/ SetIsolated(p) \/ SetSealed(p) \/ SetBaseline(p)
            \/ UNCHANGED sources
<1> USE DEF tables, notSources, notWindows, notEvents, notRestarts, notSnaps, notTests
<1>1. CASE Fail(p)
  BY <1>1 DEF Fail
<1>3. CASE IsolateStep(p)
  BY <1>3 DEF IsolateStep, SetDegraded, SetIsolated, SetSealed, ReadBaseline, SetRecovered,
              SetBaseline, Observe, SetObserving, AutoDegrade, AutoDegradeRefused, WriteState
<1>4. CASE CorrelatorStep(p)
  BY <1>4 DEF CorrelatorStep, CountRun, ReadRestart, NothingToSettle, FindSettled, Settle,
              SettleClose, NoOpenEvent, FindOpenEvent, CreateEvent, Raise, ExtendRun
<1>5. CASE IngestStep(p)
  BY <1>5 DEF IngestStep, Acquire, Refuse, Admit, CreateWindow, CreateConflict, StoreStatus,
              StoreTest, StoreLastSeq, Return
<1>6. CASE ServiceStep(p)
  BY <1>6 DEF ServiceStep, InsertedSource, DuplicateSource, InsertedRestart, SetConfirmed,
              SetClosed, SetReevaluated
<1>7. CASE SnapshotStep(p) \/ ViewStep(p)
  BY <1>7 DEF SnapshotStep, ReadVersion, SnapshotOfNothing, ReadSource, ReadWindows, ReadTests,
              ReadEvents, InsertDraft, SetPublished, SetSuperseded, ViewStep, CountRestarts
<1> QED BY <1>1, <1>3, <1>4, <1>5, <1>6, <1>7 DEF Step, Acts

-----------------------------------------------------------------------------
(* Labels *)

LEMMA GoesTo ==
  ASSUME Typed, NEW p \in Procs, NEW label, Goto(p, label)
  PROVE  pc'[p] = label
BY LocalTyped DEF Goto

LEMMA AnswerGoesTo ==
  ASSUME Typed, NEW p \in Procs, NEW reply, Answer(p, reply)
  PROVE  \/ pc'[p] = "idle" /\ loc[p].op # "ingest" /\ loc'[p] = Blank
         \/ pc'[p] = "done" /\ loc[p].op = "ingest" /\ Leaves(p, {"reply"})
            /\ loc'[p].reply = reply
<1>0. loc[p] \in Local /\ loc \in [Procs -> Local]
  BY LocalTyped
<1>1. CASE loc[p].op = "ingest" /\ Goto(p, "done") /\ loc' = [loc EXCEPT ![p].reply = reply]
  <2>1. loc'[p] = [loc[p] EXCEPT !.reply = reply]
    BY <1>0, <1>1
  <2>2. DOMAIN loc[p] = DOMAIN Blank /\ "reply" \in DOMAIN Blank
    BY <1>0 DEF Local, Blank
  <2> QED BY <1>1, <2>1, <2>2, GoesTo DEF Leaves
<1>2. CASE loc[p].op # "ingest" /\ Goto(p, "idle") /\ loc' = [loc EXCEPT ![p] = Blank]
  BY <1>0, <1>2, GoesTo
<1> QED BY <1>1, <1>2 DEF Answer

\* Only a request in flight runs a statement.
LEMMA Busy ==
  ASSUME NEW p \in Procs, Acts(p)
  PROVE  pc[p] # "idle"
<1> USE DEF At
<1>1. CASE Fail(p)
  BY <1>1 DEF Fail
<1>2. CASE IsolateStep(p)
  BY <1>2 DEF IsolateStep, SetDegraded, SetIsolated, SetSealed, ReadBaseline, SetRecovered,
              SetBaseline, Observe, SetObserving, AutoDegrade, AutoDegradeRefused, WriteState
<1>3. CASE CorrelatorStep(p)
  BY <1>3 DEF CorrelatorStep, CountRun, ReadRestart, NothingToSettle, FindSettled, Settle,
              SettleClose, NoOpenEvent, FindOpenEvent, CreateEvent, Raise, ExtendRun
<1>4. CASE IngestStep(p)
  BY <1>4 DEF IngestStep, Acquire, Refuse, Admit, CreateWindow, CreateConflict, StoreStatus,
              StoreTest, StoreLastSeq, Return
<1>5. CASE ServiceStep(p)
  BY <1>5 DEF ServiceStep, InsertedSource, DuplicateSource, InsertedRestart, SetConfirmed,
              SetClosed, SetReevaluated
<1>6. CASE SnapshotStep(p) \/ ViewStep(p)
  BY <1>6 DEF SnapshotStep, ReadVersion, SnapshotOfNothing, ReadSource, ReadWindows, ReadTests,
              ReadEvents, InsertDraft, SetPublished, SetSuperseded, ViewStep, CountRestarts
<1> QED BY <1>1, <1>2, <1>3, <1>4, <1>5, <1>6 DEF Step, Acts

\* From which statements each statement is reached.
LEMMA Paths ==
  ASSUME Typed, NEW p \in Procs, Acts(p)
  PROVE  /\ pc'[p] = "lock"         => Return(p)
         /\ pc'[p] = "get"          => Acquire(p)
         /\ pc'[p] = "create"       => Admit(p)
         /\ pc'[p] = "evaluate"     => CreateWindow(p) \/ StoreTest(p)
         /\ pc'[p] = "status"       => StoreTest(p)
         /\ pc'[p] = "lastseq"      => StoreStatus(p)
         /\ pc'[p] = "observe"      => StoreLastSeq(p)
         /\ pc'[p] = "observe_set"  => Observe(p)
         /\ pc'[p] = "recent"       => StoreLastSeq(p) \/ Observe(p) \/ SetObserving(p)
         /\ pc'[p] = "restart"      => CountRun(p)
         /\ pc'[p] = "open"         => CountRun(p) \/ ReadRestart(p)
         /\ pc'[p] = "settle"       => FindSettled(p)
         /\ pc'[p] = "settle_close" => Settle(p)
         /\ pc'[p] = "create_event" => NoOpenEvent(p)
         /\ pc'[p] = "raise"        => FindOpenEvent(p)
         /\ pc'[p] = "update_run"   => Raise(p)
         /\ pc'[p] = "degrade"      => CreateEvent(p) \/ ExtendRun(p)
         /\ pc'[p] = "set_degraded" => AutoDegrade(p)
         /\ pc'[p] = "set_observing"  => ReadBaseline(p)
         /\ pc'[p] = "set_baseline"   => SetRecovered(p)
         /\ pc'[p] = "snap_source"    => ReadVersion(p)
         /\ pc'[p] = "snap_windows"   => ReadSource(p)
         /\ pc'[p] = "snap_tests"     => ReadWindows(p)
         /\ pc'[p] = "snap_events"    => ReadTests(p)
         /\ pc'[p] = "snap_insert"    => ReadEvents(p)
         /\ pc'[p] = "view_restarts"  => ReadEvents(p)
         /\ pc'[p] = "snap_publish"   => InsertDraft(p)
         /\ pc'[p] = "snap_supersede" => SetPublished(p)
         /\ pc'[p] \notin {"set_isolated", "set_sealed", "baseline", "insert_source",
                           "restart_insert", "confirm", "close", "reevaluate", "snap_version"}
<1> USE DEF At
<1>0. /\ pc \in [Procs -> Labels]
      /\ \A label : Goto(p, label) => pc'[p] = label
      /\ \A reply : Answer(p, reply) => pc'[p] \in {"idle", "done"}
  BY LocalTyped, GoesTo, AnswerGoesTo
<1>1. CASE Fail(p)
  BY <1>0, <1>1 DEF Fail
<1>2. CASE IsolateStep(p)
  BY <1>0, <1>2
  DEF IsolateStep, SetDegraded, SetIsolated, SetSealed, ReadBaseline, SetRecovered,
      SetBaseline, Observe, SetObserving, AutoDegrade, AutoDegradeRefused
<1>3. CASE CorrelatorStep(p)
  BY <1>0, <1>3
  DEF CorrelatorStep, CountRun, ReadRestart, NothingToSettle, FindSettled, Settle,
      SettleClose, NoOpenEvent, FindOpenEvent, CreateEvent, Raise, ExtendRun, Correlated
<1>4. CASE IngestStep(p)
  BY <1>0, <1>4
  DEF IngestStep, Acquire, Refuse, Admit, CreateWindow, CreateConflict, StoreTest,
      StoreStatus, StoreLastSeq, Return
<1>5. CASE ServiceStep(p)
  BY <1>0, <1>5
  DEF ServiceStep, InsertedSource, DuplicateSource, InsertedRestart, SetConfirmed,
      SetClosed, SetReevaluated
<1>6. CASE SnapshotStep(p) \/ ViewStep(p)
  BY <1>0, <1>6
  DEF SnapshotStep, ReadVersion, SnapshotOfNothing, ReadSource, ReadWindows, ReadTests,
      ReadEvents, InsertDraft, SetPublished, SetSuperseded, ViewStep, CountRestarts
<1> QED BY <1>1, <1>2, <1>3, <1>4, <1>5, <1>6 DEF Step, Acts

-----------------------------------------------------------------------------
(* Values.  What each statement that sets a local sets it to.              *)

\* The fields of a request's locals are those of Blank.
LEMMA LocalFields ==
  ASSUME Typed, NEW p \in Procs
  PROVE  /\ loc[p] \in Local /\ loc \in [Procs -> Local] /\ pc \in [Procs -> Labels]
         /\ DOMAIN loc[p] = DOMAIN Blank
<1>1. loc[p] \in Local /\ loc \in [Procs -> Local] /\ pc \in [Procs -> Labels]
  BY LocalTyped
<1> QED BY <1>1 DEF Local, Blank

LEMMA AdmitSets ==
  ASSUME Typed, NEW p \in Procs, Admit(p)
  PROVE  /\ loc'[p].seen = sources[loc[p].src].state
         /\ Leaves(p, {"seen"})
<1>0. loc[p] \in Local /\ loc \in [Procs -> Local] /\ DOMAIN loc[p] = DOMAIN Blank
  BY LocalFields
<1>1. loc'[p] = [loc[p] EXCEPT !.seen = sources[loc[p].src].state]
  BY <1>0 DEF Admit
<1>2. Leaves(p, {"seen"})
  BY <1>0, <1>1 DEF Leaves
<1> QED BY <1>0, <1>1, <1>2 DEF Local

LEMMA CreateWindowSets ==
  ASSUME Typed, NEW p \in Procs, CreateWindow(p)
  PROVE  /\ loc'[p].test = 1
         /\ \E hashes \in Hashes(loc[p].src, loc[p].seq) :
              loc'[p].replay = IsReplay(loc[p].sample, hashes)
         /\ Leaves(p, {"replay", "test"})
<1>0. loc[p] \in Local /\ loc \in [Procs -> Local] /\ DOMAIN loc[p] = DOMAIN Blank
  BY LocalFields
<1>1. PICK hashes \in Hashes(loc[p].src, loc[p].seq) :
        loc' = [loc EXCEPT ![p] = [@ EXCEPT !.replay = IsReplay(loc[p].sample, hashes),
                                            !.test = 1]]
  BY DEF CreateWindow
<1> DEFINE replay == IsReplay(loc[p].sample, hashes)
           l == [loc[p] EXCEPT !.replay = replay, !.test = 1]
<1>2. loc' = [loc EXCEPT ![p] = l]
  BY <1>1
<1> HIDE DEF replay
<1>3. l.replay = replay /\ l.test = 1
  BY <1>0 DEF Local
<1>5. \A f \in DOMAIN Blank \ {"replay", "test"} : l[f] = loc[p][f]
  BY <1>0
<1> HIDE DEF l
<1>4. loc'[p] = l
  BY <1>0, <1>2
<1> QED BY <1>3, <1>4, <1>5 DEF replay, Leaves

LEMMA StoreTestSets ==
  ASSUME Typed, NEW p \in Procs, StoreTest(p)
  PROVE  \/ /\ loc[p].test < 4 /\ loc'[p].test = loc[p].test + 1
            /\ pc'[p] = "evaluate"
            /\ Leaves(p, {"test"})
         \/ loc[p].test = 4 /\ loc'[p] = loc[p] /\ pc'[p] = "status" /\ Leaves(p, {"test"})
<1>0. /\ loc[p] \in Local /\ loc \in [Procs -> Local] /\ pc \in [Procs -> Labels]
      /\ DOMAIN loc[p] = DOMAIN Blank
  BY LocalFields
<1>1. Len(RunOrder) = 4
  BY DEF RunOrder
<1>2. CASE loc[p].test < Len(RunOrder) /\ loc' = [loc EXCEPT ![p].test = @ + 1] /\ UNCHANGED pc
  <2>1. loc'[p] = [loc[p] EXCEPT !.test = loc[p].test + 1]
    BY <1>0, <1>2
  <2>2. Leaves(p, {"test"})
    BY <1>0, <2>1 DEF Leaves
  <2>3. loc'[p].test = loc[p].test + 1
    BY <1>0, <2>1 DEF Local
  <2> QED BY <1>0, <1>1, <1>2, <2>2, <2>3 DEF StoreTest, At
<1>3. CASE loc[p].test = Len(RunOrder) /\ UNCHANGED loc /\ Goto(p, "status")
  BY <1>0, <1>1, <1>3 DEF Goto, Leaves
<1> QED BY <1>2, <1>3 DEF StoreTest

LEMMA StoreStatusSets ==
  ASSUME Typed, NEW p \in Procs, StoreStatus(p)
  PROVE  /\ loc'[p].status = ResolvedStatus(loc[p].replay, loc[p].sample)
         /\ loc'[p].anomaly = ResolvedAnomaly(loc[p].replay, loc[p].sample)
         /\ UpdateStatus(loc[p].src, loc[p].seq, loc'[p].status, loc'[p].anomaly)
         /\ Leaves(p, {"status", "anomaly"})
<1>0. loc[p] \in Local /\ loc \in [Procs -> Local] /\ DOMAIN loc[p] = DOMAIN Blank
  BY LocalFields
<1> DEFINE status  == ResolvedStatus(loc[p].replay, loc[p].sample)
           anomaly == ResolvedAnomaly(loc[p].replay, loc[p].sample)
           l == [loc[p] EXCEPT !.status = status, !.anomaly = anomaly]
<1>1. loc' = [loc EXCEPT ![p] = l] /\ UpdateStatus(loc[p].src, loc[p].seq, status, anomaly)
  BY DEF StoreStatus
<1> HIDE DEF status, anomaly
<1>2. l.status = status /\ l.anomaly = anomaly
  BY <1>0 DEF Local
<1>5. \A f \in DOMAIN Blank \ {"status", "anomaly"} : l[f] = loc[p][f]
  BY <1>0
<1> HIDE DEF l
<1>3. loc'[p] = l
  BY <1>0, <1>1
<1>4. loc'[p].status = status /\ loc'[p].anomaly = anomaly
  BY <1>2, <1>3
<1>6. Leaves(p, {"status", "anomaly"})
  BY <1>3, <1>5 DEF Leaves
<1> QED BY <1>1, <1>4, <1>6 DEF status, anomaly

LEMMA CountRunSets ==
  ASSUME Typed, NEW p \in Procs, CountRun(p)
  PROVE  /\ LET run == TailRun(loc[p].src, loc[p].seq) IN
            \/ /\ run = {}
               /\ loc'[p].runLen = 0 /\ loc'[p].firstSeq = loc[p].seq /\ pc'[p] = "open"
            \/ /\ loc'[p].firstSeq \in run /\ \A r \in run : loc'[p].firstSeq <= r
               /\ loc'[p].runLen = Cardinality(run) /\ pc'[p] = "restart"
         /\ Leaves(p, {"runLen", "firstSeq"})
<1>0. loc[p] \in Local /\ loc \in [Procs -> Local] /\ DOMAIN loc[p] = DOMAIN Blank
  BY LocalFields
<1> DEFINE run == TailRun(loc[p].src, loc[p].seq)
<1>1. ASSUME NEW n, NEW first,
             loc' = [loc EXCEPT ![p] = [@ EXCEPT !.runLen = n, !.firstSeq = first]]
      PROVE  loc'[p].runLen = n /\ loc'[p].firstSeq = first /\ Leaves(p, {"runLen", "firstSeq"})
  <2>1. loc'[p] = [loc[p] EXCEPT !.runLen = n, !.firstSeq = first]
    BY <1>0, <1>1
  <2>2. Leaves(p, {"runLen", "firstSeq"})
    BY <1>0, <2>1 DEF Leaves
  <2> QED BY <1>0, <2>1, <2>2 DEF Local
<1>2. \/ /\ run = {}
         /\ loc' = [loc EXCEPT ![p] = [@ EXCEPT !.runLen = 0, !.firstSeq = loc[p].seq]]
         /\ Goto(p, "open")
      \/ \E first \in run :
          /\ \A r \in run : first <= r
          /\ loc' = [loc EXCEPT ![p] = [@ EXCEPT !.runLen = Cardinality(run), !.firstSeq = first]]
          /\ Goto(p, "restart")
  BY DEF CountRun
<1> HIDE DEF run
<1>4. ASSUME NEW first \in run, \A r \in run : first <= r, Goto(p, "restart"),
             loc' = [loc EXCEPT ![p] = [@ EXCEPT !.runLen = Cardinality(run), !.firstSeq = first]]
      PROVE  /\ loc'[p].firstSeq \in run /\ \A r \in run : loc'[p].firstSeq <= r
             /\ loc'[p].runLen = Cardinality(run) /\ pc'[p] = "restart"
             /\ Leaves(p, {"runLen", "firstSeq"})
  <2> DEFINE n == Cardinality(run)
  <2>1. loc' = [loc EXCEPT ![p] = [@ EXCEPT !.runLen = n, !.firstSeq = first]]
    BY <1>4
  <2> HIDE DEF n
  <2>2. loc'[p].runLen = n /\ loc'[p].firstSeq = first /\ Leaves(p, {"runLen", "firstSeq"})
    BY <1>1, <2>1
  <2> QED BY <1>4, <2>2, GoesTo DEF n
<1>5. CASE run = {} /\ Goto(p, "open") /\ Leaves(p, {"runLen", "firstSeq"})
            /\ loc'[p].runLen = 0 /\ loc'[p].firstSeq = loc[p].seq /\ pc'[p] = "open"
  BY <1>5 DEF run
<1>6. CASE /\ loc'[p].firstSeq \in run /\ \A r \in run : loc'[p].firstSeq <= r
           /\ loc'[p].runLen = Cardinality(run) /\ pc'[p] = "restart"
           /\ Leaves(p, {"runLen", "firstSeq"})
  BY <1>6 DEF run
<1>7. CASE run = {} /\ Goto(p, "open")
           /\ loc' = [loc EXCEPT ![p] = [@ EXCEPT !.runLen = 0, !.firstSeq = loc[p].seq]]
  BY <1>1, <1>5, <1>7, GoesTo
<1> QED BY <1>2, <1>4, <1>6, <1>7

LEMMA ReadRestartSets ==
  ASSUME Typed, NEW p \in Procs, ReadRestart(p)
  PROVE  /\ loc'[p].after \in BOOLEAN
         /\ loc'[p].after => \E at \in LatestBefore(loc[p].src, loc[p].seq) : at >= loc[p].firstSeq - 1
         /\ Leaves(p, {"after"})
<1>0. loc[p] \in Local /\ loc \in [Procs -> Local] /\ DOMAIN loc[p] = DOMAIN Blank
  BY LocalFields
<1>1. PICK after \in BOOLEAN :
        /\ \/ after = \E at \in LatestBefore(loc[p].src, loc[p].seq) : at >= loc[p].firstSeq - 1
           \/ "error" \in Faults /\ ~after
        /\ loc' = [loc EXCEPT ![p].after = after]
  BY DEF ReadRestart
<1>2. loc'[p] = [loc[p] EXCEPT !.after = after]
  BY <1>0, <1>1
<1>3. loc'[p].after = after
  BY <1>0, <1>2 DEF Local
<1>4. Leaves(p, {"after"})
  BY <1>0, <1>2 DEF Leaves
<1> QED BY <1>1, <1>3, <1>4

LEMMA FindSettledSets ==
  ASSUME Typed, NEW p \in Procs, FindSettled(p)
  PROVE  /\ loc'[p].row \in OpenForSource(loc[p].src)
         /\ Leaves(p, {"row"})
<1>0. loc[p] \in Local /\ loc \in [Procs -> Local] /\ DOMAIN loc[p] = DOMAIN Blank
  BY LocalFields
<1>1. PICK i \in OpenForSource(loc[p].src) : loc' = [loc EXCEPT ![p].row = i]
  BY DEF FindSettled
<1>2. loc'[p] = [loc[p] EXCEPT !.row = i]
  BY <1>0, <1>1
<1>3. Leaves(p, {"row"})
  BY <1>0, <1>2 DEF Leaves
<1> QED BY <1>0, <1>1, <1>2, <1>3 DEF Local

LEMMA FindOpenEventSets ==
  ASSUME Typed, NEW p \in Procs, FindOpenEvent(p)
  PROVE  /\ loc'[p].row \in OpenForSource(loc[p].src)
         /\ loc'[p].rowState = events[loc[p].src][loc'[p].row].state
         /\ Leaves(p, {"row", "rowState", "confirmed", "closed"})
<1>0. loc[p] \in Local /\ loc \in [Procs -> Local] /\ DOMAIN loc[p] = DOMAIN Blank
  BY LocalFields
<1>1. \E i \in OpenForSource(loc[p].src) : \E st, a, b :
        /\ st = events[loc[p].src][i].state
        /\ loc' = [loc EXCEPT ![p] =
                     [@ EXCEPT !.row = i, !.rowState = st, !.confirmed = a, !.closed = b]]
  BY Zenon DEF FindOpenEvent
<1>2. PICK i \in OpenForSource(loc[p].src) : \E st, a, b :
        /\ st = events[loc[p].src][i].state
        /\ loc' = [loc EXCEPT ![p] =
                     [@ EXCEPT !.row = i, !.rowState = st, !.confirmed = a, !.closed = b]]
  BY <1>1
<1>3. PICK st, a, b :
        /\ st = events[loc[p].src][i].state
        /\ loc' = [loc EXCEPT ![p] =
                     [@ EXCEPT !.row = i, !.rowState = st, !.confirmed = a, !.closed = b]]
  BY <1>2
<1>4. loc'[p] = [loc[p] EXCEPT !.row = i, !.rowState = st, !.confirmed = a, !.closed = b]
  BY <1>0, <1>3
<1>5. loc'[p].row = i /\ loc'[p].rowState = st
  BY <1>0, <1>4 DEF Local
<1>6. Leaves(p, {"row", "rowState", "confirmed", "closed"})
  BY <1>0, <1>4 DEF Leaves
<1> QED BY <1>3, <1>5, <1>6

LEMMA ReadBaselineSets ==
  ASSUME Typed, NEW p \in Procs, ReadBaseline(p)
  PROVE  /\ loc'[p].baseline \in LatestValidSeq(loc[p].src)
         /\ Leaves(p, {"baseline"})
<1>0. loc[p] \in Local /\ loc \in [Procs -> Local] /\ DOMAIN loc[p] = DOMAIN Blank
  BY LocalFields
<1>1. PICK b \in LatestValidSeq(loc[p].src) : loc' = [loc EXCEPT ![p].baseline = b]
  BY DEF ReadBaseline
<1>2. loc'[p] = [loc[p] EXCEPT !.baseline = b]
  BY <1>0, <1>1
<1>3. Leaves(p, {"baseline"})
  BY <1>0, <1>2 DEF Leaves
<1> QED BY <1>0, <1>1, <1>2, <1>3 DEF Local

LEMMA ReadVersionSets ==
  ASSUME Typed, NEW p \in Procs, ReadVersion(p)
  PROVE  /\ loc'[p].version \in NextVersion(loc[p].src)
         /\ Leaves(p, {"version"})
<1>0. loc[p] \in Local /\ loc \in [Procs -> Local] /\ DOMAIN loc[p] = DOMAIN Blank
  BY LocalFields
<1>1. PICK v \in NextVersion(loc[p].src) : loc' = [loc EXCEPT ![p].version = v]
  BY DEF ReadVersion
<1>2. loc'[p] = [loc[p] EXCEPT !.version = v]
  BY <1>0, <1>1
<1>3. Leaves(p, {"version"})
  BY <1>0, <1>2 DEF Leaves
<1> QED BY <1>0, <1>1, <1>2, <1>3 DEF Local

LEMMA InsertDraftSets ==
  ASSUME Typed, NEW p \in Procs, InsertDraft(p), pc'[p] = "snap_publish"
  PROVE  /\ loc[p].op = "supersede" /\ loc'[p].snap = Len(snaps[loc[p].src]) + 1
         /\ Leaves(p, {"snap"})
<1>0. loc[p] \in Local /\ loc \in [Procs -> Local] /\ DOMAIN loc[p] = DOMAIN Blank
  BY LocalFields
<1>1. ~Answer(p, "ok")
  BY AnswerGoesTo
<1> DEFINE n == Len(snaps[loc[p].src]) + 1
<1>2. loc[p].op = "supersede" /\ loc' = [loc EXCEPT ![p].snap = n]
  BY <1>1 DEF InsertDraft
<1> HIDE DEF n
<1>3. loc'[p] = [loc[p] EXCEPT !.snap = n]
  BY <1>0, <1>2
<1>4. loc'[p].snap = n /\ Leaves(p, {"snap"})
  BY <1>0, <1>3 DEF Local, Leaves
<1> QED BY <1>2, <1>4 DEF n

LEMMA FreezeSets ==
  ASSUME Typed, NEW p \in Procs, NEW evidence, FreezeIn(p, evidence)
  PROVE  loc'[p].payload = evidence /\ Leaves(p, {"payload"})
<1>0. loc[p] \in Local /\ loc \in [Procs -> Local] /\ DOMAIN loc[p] = DOMAIN Blank
  BY LocalFields
<1>1. loc'[p] = [loc[p] EXCEPT !.payload = evidence]
  BY <1>0 DEF FreezeIn
<1>2. Leaves(p, {"payload"})
  BY <1>0, <1>1 DEF Leaves
<1> QED BY <1>0, <1>1, <1>2 DEF Local

LEMMA ReturnSets ==
  ASSUME Typed, NEW p \in Procs,
         loc' = [loc EXCEPT ![p] =
                   [Request("ingest", loc[p].src) EXCEPT !.seq = Head(loc[p].rest).seq,
                                                         !.sample = Head(loc[p].rest).sample,
                                                         !.rest = Tail(loc[p].rest)]]
  PROVE  /\ loc'[p].op = "ingest" /\ loc'[p].src = loc[p].src
         /\ Fresh(p, {"op", "src", "seq", "sample", "rest"})
<1>0. loc[p] \in Local /\ loc \in [Procs -> Local]
  BY LocalTyped
<1> DEFINE q == Head(loc[p].rest).seq
           x == Head(loc[p].rest).sample
           r == Tail(loc[p].rest)
<1>1. loc' = [loc EXCEPT ![p] = [Request("ingest", loc[p].src) EXCEPT
                                   !.seq = q, !.sample = x, !.rest = r]]
  OBVIOUS
<1> HIDE DEF q, x, r
<1>2. loc'[p] = [Request("ingest", loc[p].src) EXCEPT !.seq = q, !.sample = x, !.rest = r]
  BY <1>0, <1>1
<1>3. {"op", "src", "seq", "sample", "rest"} \subseteq DOMAIN Blank
  BY DEF Blank
<1>4. loc'[p].op = "ingest" /\ loc'[p].src = loc[p].src
  BY <1>2, <1>3 DEF Request
<1>5. Fresh(p, {"op", "src", "seq", "sample", "rest"})
  BY <1>2, <1>3 DEF Request, Fresh
<1> QED BY <1>4, <1>5

-----------------------------------------------------------------------------
(* Locals *)

\* Which locals each statement sets.
LEMMA Locals ==
  ASSUME Typed, NEW p \in Procs, Acts(p)
  PROVE  \/ pc'[p] = "idle" /\ loc'[p] = Blank
         \/ Return(p) /\ loc'[p].op = "ingest" /\ loc'[p].src = loc[p].src
            /\ Fresh(p, {"op", "src", "seq", "sample", "rest"})
         \/ Leaves(p, {"reply"}) /\ pc'[p] = "done"
         \/ Leaves(p, {})
         \/ Admit(p) /\ Leaves(p, {"seen"})
         \/ CreateWindow(p) /\ Leaves(p, {"replay", "test"})
         \/ StoreTest(p) /\ Leaves(p, {"test"})
         \/ StoreStatus(p) /\ Leaves(p, {"status", "anomaly"})
         \/ CountRun(p) /\ Leaves(p, {"runLen", "firstSeq"})
         \/ ReadRestart(p) /\ Leaves(p, {"after"})
         \/ FindSettled(p) /\ Leaves(p, {"row"})
         \/ FindOpenEvent(p) /\ Leaves(p, {"row", "rowState", "confirmed", "closed"})
         \/ ReadBaseline(p) /\ Leaves(p, {"baseline"})
         \/ ReadVersion(p) /\ Leaves(p, {"version"})
         \/ /\ ReadSource(p) \/ ReadWindows(p) \/ ReadTests(p) \/ ReadEvents(p)
            /\ Leaves(p, {"payload"})
         \/ InsertDraft(p) /\ Leaves(p, {"snap"})
<1>0. loc[p] \in Local /\ loc \in [Procs -> Local] /\ DOMAIN loc[p] = DOMAIN Blank
  <2>1. loc[p] \in Local /\ loc \in [Procs -> Local]
    BY LocalTyped
  <2> QED BY <2>1 DEF Local, Blank
<1>1. UNCHANGED loc => Leaves(p, {})
  BY DEF Leaves
<1>2. ASSUME NEW reply, Answer(p, reply)
      PROVE  \/ pc'[p] = "idle" /\ loc'[p] = Blank
             \/ Leaves(p, {"reply"}) /\ pc'[p] = "done"
  BY <1>2, AnswerGoesTo
<1>3. CASE Admit(p)
  BY <1>3, AdmitSets
<1>4. CASE CreateWindow(p)
  BY <1>4, CreateWindowSets
<1>5. CASE StoreTest(p)
  BY <1>5, StoreTestSets
<1>6. CASE StoreStatus(p)
  BY <1>6, StoreStatusSets
<1>7. CASE CountRun(p)
  BY <1>7, CountRunSets
<1>8. CASE ReadRestart(p)
  BY <1>8, ReadRestartSets
<1>9. CASE FindSettled(p)
  BY <1>9, FindSettledSets
<1>10. CASE FindOpenEvent(p)
  BY <1>10, FindOpenEventSets
<1>11. CASE ReadBaseline(p)
  BY <1>11, ReadBaselineSets
<1>12. CASE ReadVersion(p)
  BY <1>12, ReadVersionSets
<1>13. CASE ReadSource(p) \/ ReadWindows(p) \/ ReadTests(p) \/ ReadEvents(p)
  BY <1>13, FreezeSets DEF ReadSource, ReadWindows, ReadTests, ReadEvents
<1>14. CASE InsertDraft(p)
  <2>1. CASE Answer(p, "ok")
    BY <1>2, <2>1
  <2>2. CASE Goto(p, "snap_publish")
    BY <1>14, <2>2, GoesTo, InsertDraftSets
  <2> QED BY <1>14, <2>1, <2>2 DEF InsertDraft
<1>15. CASE Return(p)
  <2>1. CASE loc' = [loc EXCEPT ![p] = Blank] /\ Goto(p, "idle")
    BY <1>0, <2>1, GoesTo
  <2>2. CASE loc' = [loc EXCEPT ![p] =
                       [Request("ingest", loc[p].src) EXCEPT !.seq = Head(loc[p].rest).seq,
                                                             !.sample = Head(loc[p].rest).sample,
                                                             !.rest = Tail(loc[p].rest)]]
    BY <1>15, <2>2, ReturnSets
  <2> QED BY <1>15, <2>1, <2>2 DEF Return
<1>16. CASE Fail(p)
  BY <1>2, <1>16 DEF Fail
<1>17. CASE IsolateStep(p) /\ ~ReadBaseline(p)
  BY <1>1, <1>2, <1>17
  DEF IsolateStep, SetDegraded, SetIsolated, SetSealed, SetRecovered, SetBaseline, Observe,
      SetObserving, AutoDegrade, AutoDegradeRefused
<1>18. CASE CorrelatorStep(p) /\ ~CountRun(p) /\ ~ReadRestart(p) /\ ~FindSettled(p)
            /\ ~FindOpenEvent(p)
  BY <1>1, <1>2, <1>18
  DEF CorrelatorStep, NothingToSettle, Settle, SettleClose, NoOpenEvent, CreateEvent, Raise,
      ExtendRun, Correlated
<1>19. CASE Acquire(p) \/ Refuse(p) \/ CreateConflict(p) \/ StoreLastSeq(p)
  BY <1>1, <1>2, <1>19 DEF Acquire, Refuse, CreateConflict, StoreLastSeq
<1>20. CASE ServiceStep(p)
  BY <1>2, <1>20
  DEF ServiceStep, InsertedSource, DuplicateSource, InsertedRestart, SetConfirmed, SetClosed,
      SetReevaluated
<1>21. CASE SnapshotOfNothing(p) \/ SetPublished(p) \/ SetSuperseded(p) \/ ViewStep(p)
  BY <1>1, <1>2, <1>21
  DEF SnapshotOfNothing, SetPublished, SetSuperseded, ViewStep, CountRestarts
<1> QED
  BY <1>3, <1>4, <1>5, <1>6, <1>7, <1>8, <1>9, <1>10, <1>11, <1>12, <1>13, <1>14, <1>15, <1>16,
     <1>17, <1>18, <1>19, <1>20, <1>21
  DEF Step, Acts, IngestStep, SnapshotStep

\* The same, local by local, for a request that goes on with its window.
LEMMA Kept ==
  ASSUME Typed, NEW p \in Procs, Acts(p), pc'[p] \notin {"idle", "lock"}
  PROVE  /\ loc'[p].op = loc[p].op /\ loc'[p].src = loc[p].src
         /\ loc'[p].seq = loc[p].seq /\ loc'[p].sample = loc[p].sample
         /\ Admit(p) \/ loc'[p].seen = loc[p].seen
         /\ CreateWindow(p) \/ loc'[p].replay = loc[p].replay
         /\ CreateWindow(p) \/ StoreTest(p) \/ loc'[p].test = loc[p].test
         /\ \/ StoreStatus(p)
            \/ loc'[p].status = loc[p].status /\ loc'[p].anomaly = loc[p].anomaly
         /\ \/ CountRun(p)
            \/ loc'[p].runLen = loc[p].runLen /\ loc'[p].firstSeq = loc[p].firstSeq
         /\ ReadRestart(p) \/ loc'[p].after = loc[p].after
         /\ FindSettled(p) \/ FindOpenEvent(p) \/ loc'[p].row = loc[p].row
         /\ FindOpenEvent(p) \/ loc'[p].rowState = loc[p].rowState
         /\ ReadBaseline(p) \/ loc'[p].baseline = loc[p].baseline
         /\ ReadVersion(p) \/ loc'[p].version = loc[p].version
         /\ \/ ReadSource(p) \/ ReadWindows(p) \/ ReadTests(p) \/ ReadEvents(p)
            \/ loc'[p].payload = loc[p].payload
         /\ InsertDraft(p) \/ loc'[p].snap = loc[p].snap
<1> DEFINE Fields == {"op", "src", "seq", "sample", "seen", "replay", "test", "status",
                      "anomaly", "runLen", "firstSeq", "after", "row", "rowState", "baseline",
                      "version", "payload", "snap"}
<1>1. Fields \subseteq DOMAIN Blank
  BY DEF Blank
<1>2. ~Return(p)
  BY GoesTo DEF Return
<1>3. CASE Leaves(p, {"reply"}) \/ Leaves(p, {})
  <2>1. \A f \in Fields : loc'[p][f] = loc[p][f]
    BY <1>1, <1>3 DEF Leaves
  <2> QED BY <2>1
<1>4. ASSUME NEW fs, Leaves(p, fs)
      PROVE  \A f \in Fields \ fs : loc'[p][f] = loc[p][f]
  BY <1>1, <1>4 DEF Leaves
<1>5. CASE Admit(p) /\ Leaves(p, {"seen"})
  BY <1>4, <1>5
<1>6. CASE CreateWindow(p) /\ Leaves(p, {"replay", "test"})
  BY <1>4, <1>6
<1>7. CASE StoreTest(p) /\ Leaves(p, {"test"})
  BY <1>4, <1>7
<1>8. CASE StoreStatus(p) /\ Leaves(p, {"status", "anomaly"})
  BY <1>4, <1>8
<1>9. CASE CountRun(p) /\ Leaves(p, {"runLen", "firstSeq"})
  BY <1>4, <1>9
<1>10. CASE ReadRestart(p) /\ Leaves(p, {"after"})
  BY <1>4, <1>10
<1>11. CASE FindSettled(p) /\ Leaves(p, {"row"})
  BY <1>4, <1>11
<1>12. CASE FindOpenEvent(p) /\ Leaves(p, {"row", "rowState", "confirmed", "closed"})
  BY <1>4, <1>12
<1>13. CASE ReadBaseline(p) /\ Leaves(p, {"baseline"})
  BY <1>4, <1>13
<1>14. CASE ReadVersion(p) /\ Leaves(p, {"version"})
  BY <1>4, <1>14
<1>15. CASE /\ ReadSource(p) \/ ReadWindows(p) \/ ReadTests(p) \/ ReadEvents(p)
            /\ Leaves(p, {"payload"})
  BY <1>4, <1>15
<1>16. CASE InsertDraft(p) /\ Leaves(p, {"snap"})
  BY <1>4, <1>16
<1> QED
  BY <1>2, <1>3, <1>5, <1>6, <1>7, <1>8, <1>9, <1>10, <1>11, <1>12, <1>13, <1>14, <1>15, <1>16,
     Locals

\* The next window of a batch starts with nothing set.
LEMMA NextItem ==
  ASSUME Typed, NEW p \in Procs, Acts(p), pc'[p] = "lock"
  PROVE  /\ Return(p) /\ loc'[p].op = "ingest" /\ loc'[p].src = loc[p].src
         /\ Fresh(p, {"op", "src", "seq", "sample", "rest"})
<1>1. Return(p)
  BY Paths
<1>2. CASE loc' = [loc EXCEPT ![p] = Blank] /\ Goto(p, "idle")
  BY <1>2, GoesTo
<1>3. CASE loc' = [loc EXCEPT ![p] =
                     [Request("ingest", loc[p].src) EXCEPT !.seq = Head(loc[p].rest).seq,
                                                           !.sample = Head(loc[p].rest).sample,
                                                           !.rest = Tail(loc[p].rest)]]
  BY <1>1, <1>3, ReturnSets
<1> QED BY <1>1, <1>2, <1>3 DEF Return

\* What a request sets when it starts.
LEMMA Starting ==
  ASSUME Typed, NEW p \in Procs, NEW op, NEW s, NEW label, NEW l, Arrive(p, op, s, label, l)
  PROVE  pc[p] = "idle" /\ pc'[p] = label /\ loc'[p] = l /\ op \in Ops
BY LocalTyped DEF Arrive, At, Goto

LEMMA Accepted ==
  ASSUME Typed, NEW p \in Procs, Accept(p)
  PROVE  /\ UNCHANGED <<tables, lock>>
         /\ pc[p] = "idle"
         /\ \E s \in Sources :
              \/ Submit(p, s) /\ Starts(p, "ingest", s, "lock", {"seq", "sample", "rest"})
              \/ Degrade(p, s) /\ Starts(p, "degrade", s, "set_degraded", {})
              \/ Isolate(p, s) /\ Starts(p, "isolate", s, "set_isolated", {})
              \/ Seal(p, s) /\ Starts(p, "seal", s, "set_sealed", {})
              \/ Recover(p, s) /\ Starts(p, "recover", s, "baseline", {})
              \/ Register(p, s) /\ Starts(p, "register", s, "insert_source", {})
              \/ Restart(p, s) /\ Starts(p, "restart", s, "restart_insert", {"seq"})
              \/ Confirm(p, s) /\ Starts(p, "confirm", s, "confirm", {"row"})
              \/ Close(p, s) /\ Starts(p, "close", s, "close", {"row", "confirmed"})
              \/ Reevaluate(p, s)
                 /\ Starts(p, "reevaluate", s, "reevaluate", {"seq", "status", "anomaly"})
              \/ Draft(p, s) /\ Starts(p, "draft", s, "snap_version", {})
              \/ Publish(p, s) /\ Starts(p, "publish", s, "snap_publish", {"snap"})
              \/ Supersede(p, s) /\ Starts(p, "supersede", s, "snap_version", {"row"})
              \/ Analysis(p, s) /\ Starts(p, "analysis", s, "snap_source", {})
<1>1. PICK s \in Sources :
        \/ Submit(p, s) \/ IsolateRequest(p, s) \/ ServiceRequest(p, s)
        \/ SnapshotRequest(p, s) \/ ViewRequest(p, s)
  BY DEF Accept
<1>2. /\ {"op", "src", "seq", "sample", "rest", "row", "confirmed", "status", "anomaly",
          "snap"} \subseteq DOMAIN Blank
      /\ \A op : DOMAIN Request(op, s) = DOMAIN Blank
  BY DEF Blank, Request
<1>3. ASSUME NEW op, NEW label, NEW fs \in SUBSET (DOMAIN Blank \ {"op", "src"}), NEW l,
             Arrive(p, op, s, label, l), DOMAIN l = DOMAIN Blank,
             \A f \in DOMAIN Blank \ fs : l[f] = Request(op, s)[f]
      PROVE  pc[p] = "idle" /\ Starts(p, op, s, label, fs)
  <2>1. pc[p] = "idle" /\ pc'[p] = label /\ loc'[p] = l /\ op \in Ops
    BY <1>3, Starting
  <2>2. /\ Request(op, s).op = op /\ Request(op, s).src = s
        /\ \A f \in DOMAIN Blank \ {"op", "src"} : Request(op, s)[f] = Blank[f]
    BY <1>2 DEF Request
  <2>3. l.op = op /\ l.src = s
    BY <1>2, <1>3, <2>2
  <2>4. \A f \in DOMAIN Blank \ ({"op", "src"} \cup fs) : l[f] = Blank[f]
    BY <1>3, <2>2
  <2> QED BY <2>1, <2>3, <2>4 DEF Starts, Fresh
<1>4. ASSUME NEW op, NEW label, Arrive(p, op, s, label, Request(op, s))
      PROVE  pc[p] = "idle" /\ Starts(p, op, s, label, {})
  BY <1>2, <1>3, <1>4
<1>5. CASE IsolateRequest(p, s)
  BY <1>4, <1>5 DEF IsolateRequest, Degrade, Isolate, Seal, Recover, Admitted
<1>6. CASE Submit(p, s)
  <2>1. PICK q, x, r :
          Arrive(p, "ingest", s, "lock",
                 [Request("ingest", s) EXCEPT !.seq = q, !.sample = x, !.rest = r])
    BY <1>6 DEF Submit
  <2> DEFINE l == [Request("ingest", s) EXCEPT !.seq = q, !.sample = x, !.rest = r]
  <2>2. DOMAIN l = DOMAIN Blank /\ \A f \in DOMAIN Blank \ {"seq", "sample", "rest"} : l[f] = Request("ingest", s)[f]
    BY <1>2
  <2>3. Arrive(p, "ingest", s, "lock", l)
    BY <2>1
  <2>4. {"seq", "sample", "rest"} \in SUBSET (DOMAIN Blank \ {"op", "src"})
    BY <1>2
  <2> HIDE DEF l
  <2> QED BY <1>3, <1>6, <2>2, <2>3, <2>4 DEF Submit
<1>7. CASE Register(p, s) \/ Draft(p, s) \/ Analysis(p, s)
  BY <1>4, <1>7 DEF Register, Draft, Analysis
<1>8. CASE Restart(p, s)
  <2>1. PICK at :
          Arrive(p, "restart", s, "restart_insert", [Request("restart", s) EXCEPT !.seq = at])
    BY <1>8 DEF Restart
  <2> DEFINE l == [Request("restart", s) EXCEPT !.seq = at]
  <2>2. DOMAIN l = DOMAIN Blank /\ \A f \in DOMAIN Blank \ {"seq"} : l[f] = Request("restart", s)[f]
    BY <1>2
  <2>3. Arrive(p, "restart", s, "restart_insert", l)
    BY <2>1
  <2>4. {"seq"} \in SUBSET (DOMAIN Blank \ {"op", "src"})
    BY <1>2
  <2> HIDE DEF l
  <2> QED BY <1>3, <1>8, <2>2, <2>3, <2>4 DEF Restart
<1>9. CASE Confirm(p, s)
  <2>1. PICK i :
          Arrive(p, "confirm", s, "confirm",
                 [Request("confirm", s) EXCEPT !.row = i])
    BY <1>9 DEF Confirm
  <2> DEFINE l == [Request("confirm", s) EXCEPT !.row = i]
  <2>2. DOMAIN l = DOMAIN Blank /\ \A f \in DOMAIN Blank \ {"row"} : l[f] = Request("confirm", s)[f]
    BY <1>2
  <2>3. Arrive(p, "confirm", s, "confirm", l)
    BY <2>1
  <2>4. {"row"} \in SUBSET (DOMAIN Blank \ {"op", "src"})
    BY <1>2
  <2> HIDE DEF l
  <2> QED BY <1>3, <1>9, <2>2, <2>3, <2>4 DEF Confirm
<1>10. CASE Close(p, s)
  <2>1. PICK i, at :
          Arrive(p, "close", s, "close",
                 [Request("close", s) EXCEPT !.row = i, !.confirmed = at])
    BY <1>10 DEF Close
  <2> DEFINE l == [Request("close", s) EXCEPT !.row = i, !.confirmed = at]
  <2>2. DOMAIN l = DOMAIN Blank /\ \A f \in DOMAIN Blank \ {"row", "confirmed"} : l[f] = Request("close", s)[f]
    BY <1>2
  <2>3. Arrive(p, "close", s, "close", l)
    BY <2>1
  <2>4. {"row", "confirmed"} \in SUBSET (DOMAIN Blank \ {"op", "src"})
    BY <1>2
  <2> HIDE DEF l
  <2> QED BY <1>3, <1>10, <2>2, <2>3, <2>4 DEF Close
<1>11. CASE Reevaluate(p, s)
  <2>1. PICK q, st, an :
          Arrive(p, "reevaluate", s, "reevaluate",
                 [Request("reevaluate", s) EXCEPT !.seq = q, !.status = st, !.anomaly = an])
    BY <1>11, Zenon DEF Reevaluate
  <2> DEFINE l == [Request("reevaluate", s) EXCEPT !.seq = q, !.status = st, !.anomaly = an]
  <2>2. DOMAIN l = DOMAIN Blank /\ \A f \in DOMAIN Blank \ {"seq", "status", "anomaly"} : l[f] = Request("reevaluate", s)[f]
    BY <1>2
  <2>3. Arrive(p, "reevaluate", s, "reevaluate", l)
    BY <2>1
  <2>4. {"seq", "status", "anomaly"} \in SUBSET (DOMAIN Blank \ {"op", "src"})
    BY <1>2
  <2> HIDE DEF l
  <2> QED BY <1>3, <1>11, <2>2, <2>3, <2>4 DEF Reevaluate
<1>12. CASE Publish(p, s)
  <2>1. PICK i :
          Arrive(p, "publish", s, "snap_publish",
                 [Request("publish", s) EXCEPT !.snap = i])
    BY <1>12 DEF Publish
  <2> DEFINE l == [Request("publish", s) EXCEPT !.snap = i]
  <2>2. DOMAIN l = DOMAIN Blank /\ \A f \in DOMAIN Blank \ {"snap"} : l[f] = Request("publish", s)[f]
    BY <1>2
  <2>3. Arrive(p, "publish", s, "snap_publish", l)
    BY <2>1
  <2>4. {"snap"} \in SUBSET (DOMAIN Blank \ {"op", "src"})
    BY <1>2
  <2> HIDE DEF l
  <2> QED BY <1>3, <1>12, <2>2, <2>3, <2>4 DEF Publish
<1>13. CASE Supersede(p, s)
  <2>1. PICK i :
          Arrive(p, "supersede", s, "snap_version",
                 [Request("supersede", s) EXCEPT !.row = i])
    BY <1>13 DEF Supersede
  <2> DEFINE l == [Request("supersede", s) EXCEPT !.row = i]
  <2>2. DOMAIN l = DOMAIN Blank /\ \A f \in DOMAIN Blank \ {"row"} : l[f] = Request("supersede", s)[f]
    BY <1>2
  <2>3. Arrive(p, "supersede", s, "snap_version", l)
    BY <2>1
  <2>4. {"row"} \in SUBSET (DOMAIN Blank \ {"op", "src"})
    BY <1>2
  <2> HIDE DEF l
  <2> QED BY <1>3, <1>13, <2>2, <2>3, <2>4 DEF Supersede
<1> QED
  BY <1>1, <1>5, <1>6, <1>7, <1>8, <1>9, <1>10, <1>11, <1>12, <1>13
  DEF IsolateRequest, ServiceRequest, SnapshotRequest, ViewRequest

-----------------------------------------------------------------------------
(* Rows.  What each statement makes of the rows of its table.              *)

LEMMA TablesTyped ==
  ASSUME Typed
  PROVE  /\ sources \in [Sources -> SourceRow]
         /\ windows \in [Sources -> [Seqs -> WindowRow]]
         /\ tests \in [Sources -> Seq(StoredTest)]
         /\ events \in [Sources -> Seq(EventRow)]
         /\ restarts \in [Sources -> SUBSET RestartRow]
         /\ snaps \in [Sources -> Seq(SnapRow)]
BY DEF Typed, TypeOK, TablesOK

LEMMA StateWritten ==
  ASSUME Typed, NEW s \in Sources, NEW st, NEW b, UpdateState(s, st, b)
  PROVE  /\ sources'[s].state = st
         /\ sources'[s].lastSeq = sources[s].lastSeq
         /\ sources'[s].baseline = sources[s].baseline
         /\ \A r \in Sources : r # s => sources'[r] = sources[r]
<1>1. sources \in [Sources -> SourceRow] /\ sources[s] \in SourceRow
  BY TablesTyped
<1> DEFINE row == [sources[s] EXCEPT !.state = st, !.sealedAt = b]
<1>2. row.state = st /\ row.lastSeq = sources[s].lastSeq /\ row.baseline = sources[s].baseline
  BY <1>1 DEF SourceRow
<1>3. sources' = [sources EXCEPT ![s] = row]
  BY DEF UpdateState
<1> HIDE DEF row
<1> QED BY <1>1, <1>2, <1>3

LEMMA LastSeqWritten ==
  ASSUME Typed, NEW s \in Sources, NEW q, SetLastSeq(s, q)
  PROVE  /\ sources'[s].lastSeq = q
         /\ sources'[s].state = sources[s].state
         /\ sources'[s].baseline = sources[s].baseline
         /\ \A r \in Sources : r # s => sources'[r] = sources[r]
<1>1. sources \in [Sources -> SourceRow] /\ sources[s] \in SourceRow
  BY TablesTyped
<1> DEFINE row == [sources[s] EXCEPT !.lastSeq = q]
<1>2. row.state = sources[s].state /\ row.lastSeq = q /\ row.baseline = sources[s].baseline
  BY <1>1 DEF SourceRow
<1>3. sources' = [sources EXCEPT ![s] = row]
  BY DEF SetLastSeq
<1> HIDE DEF row
<1> QED BY <1>1, <1>2, <1>3

LEMMA BaselineWritten ==
  ASSUME Typed, NEW s \in Sources, NEW q, SetRecoveryBaseline(s, q)
  PROVE  /\ sources'[s].lastSeq = sources[s].lastSeq
         /\ sources'[s].state = sources[s].state
         /\ sources'[s].baseline = q
         /\ \A r \in Sources : r # s => sources'[r] = sources[r]
<1>1. sources \in [Sources -> SourceRow] /\ sources[s] \in SourceRow
  BY TablesTyped
<1> DEFINE row == [sources[s] EXCEPT !.baseline = q]
<1>2. row.state = sources[s].state /\ row.lastSeq = sources[s].lastSeq /\ row.baseline = q
  BY <1>1 DEF SourceRow
<1>3. sources' = [sources EXCEPT ![s] = row]
  BY DEF SetRecoveryBaseline
<1> HIDE DEF row
<1> QED BY <1>1, <1>2, <1>3

LEMMA SourceInserted ==
  ASSUME Typed, NEW s \in Sources, InsertSource(s)
  PROVE  /\ sources'[s].state = "enabled"
         /\ sources'[s].lastSeq = 0
         /\ sources'[s].baseline = NULL
         /\ \A r \in Sources : r # s => sources'[r] = sources[r]
<1>1. sources \in [Sources -> SourceRow]
  BY TablesTyped
<1> DEFINE row == [NoSource EXCEPT !.state = "enabled"]
<1>2. row.state = "enabled" /\ row.lastSeq = 0 /\ row.baseline = NULL
  BY DEF NoSource
<1>3. sources' = [sources EXCEPT ![s] = row]
  BY DEF InsertSource
<1> HIDE DEF row
<1> QED BY <1>1, <1>2, <1>3

LEMMA StatusWritten ==
  ASSUME Typed, NEW s \in Sources, NEW q \in Seqs, NEW st, NEW an, UpdateStatus(s, q, st, an)
  PROVE  /\ windows'[s][q].status = st
         /\ windows'[s][q].anomaly = an
         /\ windows'[s][q].sample = windows[s][q].sample
         /\ \A r \in Sources, k \in Seqs : r # s \/ k # q => windows'[r][k] = windows[r][k]
<1>1. /\ windows \in [Sources -> [Seqs -> WindowRow]] /\ windows[s] \in [Seqs -> WindowRow]
      /\ windows[s][q] \in WindowRow
  BY TablesTyped
<1> DEFINE row == [windows[s][q] EXCEPT !.status = st, !.anomaly = an]
<1>2. row.status = st /\ row.anomaly = an /\ row.sample = windows[s][q].sample
  BY <1>1 DEF WindowRow
<1>3. windows' = [windows EXCEPT ![s][q] = row]
  BY DEF UpdateStatus
<1> HIDE DEF row
<1> QED BY <1>1, <1>2, <1>3

LEMMA WindowInserted ==
  ASSUME Typed, NEW s \in Sources, NEW q \in Seqs, NEW x, InsertWindow(s, q, x)
  PROVE  /\ windows'[s][q].status = "new"
         /\ windows'[s][q].sample = x
         /\ \A r \in Sources, k \in Seqs : r # s \/ k # q => windows'[r][k] = windows[r][k]
<1>1. windows \in [Sources -> [Seqs -> WindowRow]] /\ windows[s] \in [Seqs -> WindowRow]
  BY TablesTyped
<1> DEFINE row == [status |-> "new", anomaly |-> "", sample |-> x]
<1>2. row.status = "new" /\ row.sample = x
  OBVIOUS
<1>3. windows' = [windows EXCEPT ![s][q] = row]
  BY DEF InsertWindow
<1> HIDE DEF row
<1> QED BY <1>1, <1>2, <1>3

LEMMA TestInserted ==
  ASSUME Typed, NEW s \in Sources, NEW q \in Seqs, NEW c, NEW b, InsertTest(s, q, c, b)
  PROVE  \E t \in ListByWindow(s, q)' : t.category = c /\ t.passed = b
<1>1. tests \in [Sources -> Seq(StoredTest)]
  BY TablesTyped
<1> DEFINE row == [seq |-> q, category |-> c, passed |-> b]
<1>2. row.seq = q /\ row.category = c /\ row.passed = b
  OBVIOUS
<1>3. tests' = [tests EXCEPT ![s] = Append(tests[s], row)]
  BY DEF InsertTest
<1> HIDE DEF row
<1>4. tests[s] \in Seq(StoredTest) /\ tests'[s] = Append(tests[s], row)
  BY <1>1, <1>3
<1>5. /\ DOMAIN tests'[s] = 1..(Len(tests[s]) + 1)
      /\ Len(tests[s]) + 1 \in DOMAIN tests'[s] /\ tests'[s][Len(tests[s]) + 1] = row
  BY <1>4, LenProperties
<1> QED BY <1>2, <1>5 DEF ListByWindow

\* What a row added at the end leaves alone.
LEMMA Appended ==
  ASSUME NEW S, NEW old \in Seq(S), NEW row, NEW new, new = Append(old, row)
  PROVE  /\ Len(old) \in Nat
         /\ DOMAIN old = 1..Len(old)
         /\ DOMAIN new = 1..(Len(old) + 1)
         /\ Len(new) = Len(old) + 1
         /\ \A i \in DOMAIN old : new[i] = old[i]
         /\ new[Len(old) + 1] = row
BY LenProperties

\* Replacing a row, of whatever type, keeps the others in place.
LEMMA SameLength ==
  ASSUME NEW S, NEW old \in Seq(S), NEW i, NEW row, NEW new, new = [old EXCEPT ![i] = row]
  PROVE  DOMAIN new = DOMAIN old /\ Len(new) = Len(old)
<1>1. Len(old) \in Nat /\ DOMAIN old = 1..Len(old) /\ old \in Seq(S \cup {row})
  BY LenProperties
<1>2. new \in Seq(S \cup {row})
  BY <1>1, SeqExcept
<1>3. Len(new) \in Nat /\ DOMAIN new = 1..Len(new)
  BY <1>2, LenProperties
<1> QED BY <1>1, <1>3

LEMMA EventInserted ==
  ASSUME Typed, NEW s \in Sources, NEW row, InsertEvent(s, row)
  PROVE  /\ Len(events[s]) \in Nat
         /\ DOMAIN events[s] = 1..Len(events[s])
         /\ DOMAIN events'[s] = 1..(Len(events[s]) + 1)
         /\ Len(events'[s]) = Len(events[s]) + 1
         /\ \A i \in DOMAIN events[s] : events'[s][i] = events[s][i]
         /\ events'[s][Len(events[s]) + 1] = row
         /\ \A r \in Sources : r # s => events'[r] = events[r]
<1>1. events \in [Sources -> Seq(EventRow)] /\ events[s] \in Seq(EventRow)
  BY TablesTyped
<1>2. events' = [events EXCEPT ![s] = Append(events[s], row)]
  BY DEF InsertEvent
<1>3. events'[s] = Append(events[s], row) /\ \A r \in Sources : r # s => events'[r] = events[r]
  BY <1>1, <1>2
<1> QED BY <1>1, <1>3, Appended

\* One event row is replaced.
RowReplaced(s, i) ==
  /\ DOMAIN events'[s] = DOMAIN events[s] /\ Len(events'[s]) = Len(events[s])
  /\ \A j \in DOMAIN events[s] : j # i => events'[s][j] = events[s][j]
  /\ \A r \in Sources : r # s => events'[r] = events[r]

LEMMA StateSet ==
  ASSUME Typed, NEW s \in Sources, NEW i, NEW st, NEW a, NEW b, SetState(s, i, st, a, b)
  PROVE  /\ RowReplaced(s, i)
         /\ i \in DOMAIN events[s] =>
              /\ events'[s][i].state = st
              /\ events'[s][i].anomaly = events[s][i].anomaly
              /\ events'[s][i].firstSeq = events[s][i].firstSeq
              /\ events'[s][i].lastSeq = events[s][i].lastSeq
              /\ events'[s][i].windowCount = events[s][i].windowCount
              /\ events'[s][i].afterRestart = events[s][i].afterRestart
<1>1. /\ events \in [Sources -> Seq(EventRow)] /\ events[s] \in Seq(EventRow)
      /\ i \in DOMAIN events[s] => events[s][i] \in EventRow
  BY TablesTyped, SeqElement
<1> DEFINE row == [events[s][i] EXCEPT !.state = st, !.confirmedAt = a, !.closedAt = b]
<1>2. i \in DOMAIN events[s] =>
        /\ row.state = st
        /\ row.anomaly = events[s][i].anomaly
        /\ row.firstSeq = events[s][i].firstSeq
        /\ row.lastSeq = events[s][i].lastSeq
        /\ row.windowCount = events[s][i].windowCount
        /\ row.afterRestart = events[s][i].afterRestart
  BY <1>1 DEF EventRow
<1>3. events' = [events EXCEPT ![s][i] = row]
  BY DEF SetState
<1> HIDE DEF row
<1>4. events'[s] = [events[s] EXCEPT ![i] = row] /\ \A r \in Sources : r # s => events'[r] = events[r]
  BY <1>1, <1>3
<1>5. DOMAIN events'[s] = DOMAIN events[s] /\ Len(events'[s]) = Len(events[s])
  BY <1>1, <1>4, SameLength
<1> QED BY <1>2, <1>4, <1>5 DEF RowReplaced

LEMMA RunUpdated ==
  ASSUME Typed, NEW s \in Sources, NEW i, NEW first, NEW last, NEW n, NEW an, NEW after,
         UpdateRun(s, i, first, last, n, an, after)
  PROVE  /\ RowReplaced(s, i)
         /\ i \in DOMAIN events[s] =>
              /\ events'[s][i].state = events[s][i].state
              /\ events'[s][i].anomaly = an
              /\ events'[s][i].firstSeq = first
              /\ events'[s][i].lastSeq = last
              /\ events'[s][i].windowCount = n
              /\ events'[s][i].afterRestart = after
<1>1. /\ events \in [Sources -> Seq(EventRow)] /\ events[s] \in Seq(EventRow)
      /\ i \in DOMAIN events[s] => events[s][i] \in EventRow
  BY TablesTyped, SeqElement
<1> DEFINE row == [events[s][i] EXCEPT !.firstSeq = first, !.lastSeq = last, !.windowCount = n,
                                       !.anomaly = an, !.afterRestart = after]
<1>2. i \in DOMAIN events[s] =>
        /\ row.state = events[s][i].state
        /\ row.anomaly = an
        /\ row.firstSeq = first
        /\ row.lastSeq = last
        /\ row.windowCount = n
        /\ row.afterRestart = after
  BY <1>1 DEF EventRow
<1>3. events' = [events EXCEPT ![s][i] = row]
  BY DEF UpdateRun
<1> HIDE DEF row
<1>4. events'[s] = [events[s] EXCEPT ![i] = row] /\ \A r \in Sources : r # s => events'[r] = events[r]
  BY <1>1, <1>3
<1>5. DOMAIN events'[s] = DOMAIN events[s] /\ Len(events'[s]) = Len(events[s])
  BY <1>1, <1>4, SameLength
<1> QED BY <1>2, <1>4, <1>5 DEF RowReplaced

\* One snapshot row is replaced.
SnapReplaced(s, i) ==
  /\ DOMAIN snaps'[s] = DOMAIN snaps[s] /\ Len(snaps'[s]) = Len(snaps[s])
  /\ \A j \in DOMAIN snaps[s] : j # i => snaps'[s][j] = snaps[s][j]
  /\ \A r \in Sources : r # s => snaps'[r] = snaps[r]

LEMMA SnapPublished ==
  ASSUME Typed, NEW s \in Sources, NEW i, PublishSnapshot(s, i)
  PROVE  /\ SnapReplaced(s, i)
         /\ i \in DOMAIN snaps[s] => /\ snaps'[s][i].state = "published"
                                     /\ snaps'[s][i].version = snaps[s][i].version
<1>1. /\ snaps \in [Sources -> Seq(SnapRow)] /\ snaps[s] \in Seq(SnapRow)
      /\ i \in DOMAIN snaps[s] => snaps[s][i] \in SnapRow
  BY TablesTyped, SeqElement
<1> DEFINE row == [snaps[s][i] EXCEPT !.state = "published"]
<1>2. i \in DOMAIN snaps[s] => row.state = "published" /\ row.version = snaps[s][i].version
  BY <1>1 DEF SnapRow
<1>3. snaps' = [snaps EXCEPT ![s][i] = row]
  BY DEF PublishSnapshot
<1> HIDE DEF row
<1>4. snaps'[s] = [snaps[s] EXCEPT ![i] = row] /\ \A r \in Sources : r # s => snaps'[r] = snaps[r]
  BY <1>1, <1>3
<1>5. DOMAIN snaps'[s] = DOMAIN snaps[s] /\ Len(snaps'[s]) = Len(snaps[s])
  BY <1>1, <1>4, SameLength
<1> QED BY <1>2, <1>4, <1>5 DEF SnapReplaced

LEMMA SnapSuperseded ==
  ASSUME Typed, NEW s \in Sources, NEW i, NEW new, SupersedeSnapshot(s, i, new)
  PROVE  /\ SnapReplaced(s, i)
         /\ i \in DOMAIN snaps[s] => /\ snaps'[s][i].state = "superseded"
                                     /\ snaps'[s][i].version = snaps[s][i].version
                                     /\ snaps'[s][i].supersededBy = new
<1>1. /\ snaps \in [Sources -> Seq(SnapRow)] /\ snaps[s] \in Seq(SnapRow)
      /\ i \in DOMAIN snaps[s] => snaps[s][i] \in SnapRow
  BY TablesTyped, SeqElement
<1> DEFINE row == [snaps[s][i] EXCEPT !.state = "superseded", !.supersededBy = new]
<1>2. i \in DOMAIN snaps[s] =>
        row.state = "superseded" /\ row.version = snaps[s][i].version /\ row.supersededBy = new
  BY <1>1 DEF SnapRow
<1>3. snaps' = [snaps EXCEPT ![s][i] = row]
  BY DEF SupersedeSnapshot
<1> HIDE DEF row
<1>4. snaps'[s] = [snaps[s] EXCEPT ![i] = row] /\ \A r \in Sources : r # s => snaps'[r] = snaps[r]
  BY <1>1, <1>3
<1>5. DOMAIN snaps'[s] = DOMAIN snaps[s] /\ Len(snaps'[s]) = Len(snaps[s])
  BY <1>1, <1>4, SameLength
<1> QED BY <1>2, <1>4, <1>5 DEF SnapReplaced

LEMMA SnapInserted ==
  ASSUME Typed, NEW s \in Sources, NEW v, NEW evidence, InsertSnapshot(s, v, evidence)
  PROVE  /\ Len(snaps[s]) \in Nat
         /\ DOMAIN snaps[s] = 1..Len(snaps[s])
         /\ DOMAIN snaps'[s] = 1..(Len(snaps[s]) + 1)
         /\ \A i \in DOMAIN snaps[s] : snaps'[s][i] = snaps[s][i]
         /\ snaps'[s][Len(snaps[s]) + 1].state = "draft"
         /\ snaps'[s][Len(snaps[s]) + 1].version = v
         /\ \A r \in Sources : r # s => snaps'[r] = snaps[r]
<1>1. snaps \in [Sources -> Seq(SnapRow)] /\ snaps[s] \in Seq(SnapRow)
  BY TablesTyped
<1> DEFINE row == [version |-> v, state |-> "draft", payload |-> evidence, supersededBy |-> 0]
<1>2. row.state = "draft" /\ row.version = v
  OBVIOUS
<1>3. snaps' = [snaps EXCEPT ![s] = Append(snaps[s], row)]
  BY DEF InsertSnapshot
<1> HIDE DEF row
<1>4. snaps'[s] = Append(snaps[s], row) /\ \A r \in Sources : r # s => snaps'[r] = snaps[r]
  BY <1>1, <1>3
<1> QED BY <1>1, <1>2, <1>4, Appended

\* The rows and numbers a request names when it starts.
LEMMA RequestSets ==
  ASSUME Typed, NEW p \in Procs, NEW s \in Sources
  PROVE  /\ Confirm(p, s) => /\ loc'[p].row \in DOMAIN events[s]
                             /\ events[s][loc'[p].row].state \in ConfirmableStates
         /\ Publish(p, s) => /\ loc'[p].snap \in DOMAIN snaps[s]
                             /\ snaps[s][loc'[p].snap].state = "draft"
         /\ Supersede(p, s) => /\ loc'[p].row \in DOMAIN snaps[s]
                               /\ snaps[s][loc'[p].row].state = "published"
         /\ Close(p, s) => /\ loc'[p].row \in DOMAIN events[s]
                           /\ events[s][loc'[p].row].state \in ClosableStates
<1>1. \A op : DOMAIN Request(op, s) = DOMAIN Blank /\ "row" \in DOMAIN Blank /\ "snap" \in DOMAIN Blank
  BY DEF Request, Blank
<1>2. ASSUME Confirm(p, s)
      PROVE  loc'[p].row \in DOMAIN events[s] /\ events[s][loc'[p].row].state \in ConfirmableStates
  <2>1. PICK i \in DOMAIN events[s] :
          /\ events[s][i].state \in ConfirmableStates
          /\ Arrive(p, "confirm", s, "confirm", [Request("confirm", s) EXCEPT !.row = i])
    BY <1>2 DEF Confirm
  <2>2. loc'[p].row = i
    BY <1>1, <2>1, Starting
  <2> QED BY <2>1, <2>2
<1>3. ASSUME Publish(p, s)
      PROVE  loc'[p].snap \in DOMAIN snaps[s] /\ snaps[s][loc'[p].snap].state = "draft"
  <2>1. PICK i \in DOMAIN snaps[s] :
          /\ snaps[s][i].state = "draft"
          /\ Arrive(p, "publish", s, "snap_publish", [Request("publish", s) EXCEPT !.snap = i])
    BY <1>3 DEF Publish
  <2>2. loc'[p].snap = i
    BY <1>1, <2>1, Starting
  <2> QED BY <2>1, <2>2
<1>4. ASSUME Supersede(p, s)
      PROVE  loc'[p].row \in DOMAIN snaps[s] /\ snaps[s][loc'[p].row].state = "published"
  <2>1. PICK i \in DOMAIN snaps[s] :
          /\ snaps[s][i].state = "published"
          /\ Arrive(p, "supersede", s, "snap_version", [Request("supersede", s) EXCEPT !.row = i])
    BY <1>4 DEF Supersede
  <2>2. loc'[p].row = i
    BY <1>1, <2>1, Starting
  <2> QED BY <2>1, <2>2
<1>5. ASSUME Close(p, s)
      PROVE  loc'[p].row \in DOMAIN events[s] /\ events[s][loc'[p].row].state \in ClosableStates
  <2>1. PICK i, at :
          /\ i \in DOMAIN events[s]
          /\ events[s][i].state \in ClosableStates
          /\ Arrive(p, "close", s, "close", [Request("close", s) EXCEPT !.row = i, !.confirmed = at])
    BY <1>5, Zenon DEF Close
  <2> DEFINE l == [Request("close", s) EXCEPT !.row = i, !.confirmed = at]
  <2>2. l.row = i /\ Arrive(p, "close", s, "close", l)
    BY <1>1, <2>1
  <2> HIDE DEF l
  <2>3. loc'[p].row = i
    BY <2>2, Starting
  <2> QED BY <2>1, <2>3
<1> QED BY <1>2, <1>3, <1>4, <1>5

LEMMA ReevaluateSets ==
  ASSUME Typed, NEW p \in Procs, NEW s \in Sources, Reevaluate(p, s)
  PROVE  \E q \in Seqs, failed \in SUBSET Categories :
           /\ loc'[p].seq = q
           /\ loc'[p].status = StatStatus(failed)
           /\ loc'[p].anomaly = StatAnomaly(AlphaOrder, failed)
           /\ ListByWindow(s, q) # {}
           /\ failed = {t.category : t \in {u \in ListByWindow(s, q) : ~u.passed}}
<1>1. DOMAIN Request("reevaluate", s) = DOMAIN Blank /\ {"seq", "status", "anomaly"} \subseteq DOMAIN Blank
  BY DEF Request, Blank
<1>2. \E q \in Seqs : \E failed, st, an :
        /\ ListByWindow(s, q) # {}
        /\ failed = {t.category : t \in {u \in ListByWindow(s, q) : ~u.passed}}
        /\ st = StatStatus(failed) /\ an = StatAnomaly(AlphaOrder, failed)
        /\ Arrive(p, "reevaluate", s, "reevaluate",
                  [Request("reevaluate", s) EXCEPT !.seq = q, !.status = st, !.anomaly = an])
  BY Zenon DEF Reevaluate
<1>3. PICK q, failed, st, an :
        /\ q \in Seqs
        /\ ListByWindow(s, q) # {}
        /\ failed = {t.category : t \in {u \in ListByWindow(s, q) : ~u.passed}}
        /\ st = StatStatus(failed) /\ an = StatAnomaly(AlphaOrder, failed)
        /\ Arrive(p, "reevaluate", s, "reevaluate",
                  [Request("reevaluate", s) EXCEPT !.seq = q, !.status = st, !.anomaly = an])
  BY <1>2
<1>4. loc'[p] = [Request("reevaluate", s) EXCEPT !.seq = q, !.status = st, !.anomaly = an]
  BY <1>3, Starting
<1>5. loc'[p].seq = q /\ loc'[p].status = st /\ loc'[p].anomaly = an
  BY <1>1, <1>4
<1>6. failed \in SUBSET Categories
  <2>1. tests[s] \in Seq(StoredTest)
    BY TablesTyped
  <2>2. \A t \in ListByWindow(s, q) : t.category \in Categories
    <3>1. \A i \in DOMAIN tests[s] : tests[s][i] \in StoredTest
      BY <2>1, SeqElement
    <3> QED BY <3>1 DEF ListByWindow, StoredTest
  <2> QED BY <1>3, <2>2
<1> QED BY <1>3, <1>5, <1>6

-----------------------------------------------------------------------------
(* Progress of one request *)

\* A step of p is a step of p alone, and undoes nothing.
LEMMA AloneAndGrowing ==
  ASSUME IInv, NEW p \in Procs, Accept(p) \/ Acts(p)
  PROVE  Moves(p) /\ Grows
<1>0. Typed /\ pc \in [Procs -> Labels] /\ loc \in [Procs -> Local]
  BY LocalTyped DEF IInv
<1>1. CASE Aside(p)
  BY <1>1 DEF Aside, Keeps
<1>2. CASE Acquire(p) \/ Admit(p) \/ Return(p)
  <2>1. Grows
    BY <1>2, OtherTablesKeep DEF Acquire, Admit, Return, tables, Keeps
  <2>2. Moves(p)
    BY <1>0, <1>2 DEF Acquire, Admit, Return, Goto, Moves
  <2> QED BY <2>1, <2>2
<1>3. CASE CreateWindow(p)
  <2>1. loc[p].src \in Sources /\ loc[p].seq \in Seqs
    BY <1>3, InsideIngest DEF CreateWindow, At, UnconfirmedLabels
  <2>2. Grows
    BY <1>0, <1>3, <2>1, InsertWindowKeeps DEF CreateWindow, notWindows, Keeps
  <2>3. Moves(p)
    BY <1>0, <1>3 DEF CreateWindow, Goto, Moves
  <2> QED BY <2>2, <2>3
<1>4. CASE StoreTest(p)
  <2>1. loc[p].src \in Sources /\ loc[p].seq \in Seqs
    BY <1>4, InsideIngest DEF StoreTest, At, UnconfirmedLabels
  <2>2. Grows
    BY <1>0, <1>4, <2>1, InsertTestKeeps DEF StoreTest, Keeps
  <2>3. Moves(p)
    BY <1>0, <1>4 DEF StoreTest, Goto, Moves
  <2> QED BY <2>2, <2>3
<1>5. CASE StoreStatus(p)
  <2>1. loc[p].src \in Sources /\ loc[p].seq \in Seqs /\ loc[p].sample \in Samples
    BY <1>5, InsideIngest DEF StoreStatus, At, UnconfirmedLabels
  <2>2. ResolvedStatus(loc[p].replay, loc[p].sample) \in FinalStatuses
    BY <1>0, <2>1, ResolvedTyped, LocalTyped DEF Local
  <2>3. Grows
    BY <1>0, <1>5, <2>1, <2>2, UpdateStatusKeeps DEF StoreStatus, notWindows, Keeps
  <2>4. Moves(p)
    BY <1>0, <1>5 DEF StoreStatus, Goto, Moves
  <2> QED BY <2>3, <2>4
<1>6. CASE StoreLastSeq(p)
  <2>1. Grows
    BY <1>6, StoreLastSeqMoves DEF StoreLastSeq, notSources, Grows, ListByWindow
  <2>2. Moves(p)
    BY <1>0, <1>6 DEF StoreLastSeq, Goto, Moves
  <2> QED BY <2>1, <2>2
<1> QED BY <1>1, <1>2, <1>3, <1>4, <1>5, <1>6, RequestSteps DEF Acts

\* A request serves one operation on one source until it is over, and is over
\* when it is answered; Return alone goes on to another window.
LEMMA SameRequest ==
  ASSUME Typed, NEW p \in Procs, Acts(p)
  PROVE  pc'[p] = "idle" \/ (loc'[p].op = loc[p].op /\ loc'[p].src = loc[p].src)
<1>1. {"op", "src"} \subseteq DOMAIN Blank
  BY DEF Blank
<1>2. Return(p) => loc[p].op = "ingest"
  BY LocalTyped DEF Return, At, LocalsFit, IngestLabels
<1>3. Leaves(p, {}) => loc'[p].op = loc[p].op /\ loc'[p].src = loc[p].src
  BY <1>1 DEF Leaves
<1>4. ASSUME NEW fs, "op" \notin fs, "src" \notin fs, Leaves(p, fs)
      PROVE  loc'[p].op = loc[p].op /\ loc'[p].src = loc[p].src
  BY <1>1, <1>4 DEF Leaves
<1> QED BY <1>2, <1>3, <1>4, Locals

-----------------------------------------------------------------------------
(* Which operation is at which statement *)

Role(p) ==
  LET op == loc[p].op IN
  /\ pc[p] # "idle" => op \in Ops
  /\ pc[p] = "set_degraded" => op \in {"degrade", "ingest"}
  /\ pc[p] = "set_isolated" => op = "isolate"
  /\ pc[p] = "set_sealed" => op = "seal"
  /\ pc[p] \in {"baseline", "set_observing", "set_baseline"} => op = "recover"
  /\ pc[p] = "insert_source" => op = "register"
  /\ pc[p] = "restart_insert" => op = "restart"
  /\ pc[p] = "confirm" => op = "confirm"
  /\ pc[p] = "close" => op = "close"
  /\ pc[p] = "reevaluate" => op = "reevaluate"
  /\ pc[p] \in {"snap_version", "snap_insert"} => op \in {"draft", "supersede"}
  /\ pc[p] \in {"snap_source", "snap_windows", "snap_tests", "snap_events"}
       => op \in {"draft", "supersede", "analysis"}
  /\ pc[p] = "snap_publish" => op \in {"publish", "supersede"}
  /\ pc[p] = "snap_supersede" => op = "supersede"
  /\ pc[p] = "view_restarts" => op = "analysis"

Roles == \A p \in Procs : Role(p)

LEMMA RoleStep ==
  ASSUME IInv, Roles, NEW p \in Procs, Accept(p) \/ Acts(p)
  PROVE  Role(p)'
<1>0. Typed /\ Role(p) /\ LocalsFit(pc[p], loc[p])
  BY LocalTyped DEF IInv, Roles
<1>1. CASE Accept(p)
  <2>1. PICK s : \E fs :
           \/ Starts(p, "ingest", s, "lock", fs) \/ Starts(p, "degrade", s, "set_degraded", fs)
           \/ Starts(p, "isolate", s, "set_isolated", fs) \/ Starts(p, "seal", s, "set_sealed", fs)
           \/ Starts(p, "recover", s, "baseline", fs) \/ Starts(p, "register", s, "insert_source", fs)
           \/ Starts(p, "restart", s, "restart_insert", fs) \/ Starts(p, "confirm", s, "confirm", fs)
           \/ Starts(p, "close", s, "close", fs) \/ Starts(p, "reevaluate", s, "reevaluate", fs)
           \/ Starts(p, "draft", s, "snap_version", fs) \/ Starts(p, "publish", s, "snap_publish", fs)
           \/ Starts(p, "supersede", s, "snap_version", fs)
           \/ Starts(p, "analysis", s, "snap_source", fs)
    BY <1>0, <1>1, Accepted
  <2> QED BY <2>1 DEF Starts, Role
<1>2. CASE Acts(p) /\ pc'[p] # "idle"
  <2>1. loc'[p].op = loc[p].op
    BY <1>0, <1>2, SameRequest
  <2>2. loc[p].op \in Ops
    BY <1>0, <1>2, Busy DEF Role
  <2>3. pc'[p] = "set_degraded" => loc[p].op = "ingest"
    BY <1>0, <1>2, Paths DEF AutoDegrade, At, LocalsFit, IngestLabels
  <2>4. pc'[p] \in {"set_observing", "set_baseline"} => loc[p].op = "recover"
    BY <1>0, <1>2, Paths DEF ReadBaseline, SetRecovered, WriteState, At, Role
  <2>5. pc'[p] \in {"snap_source", "snap_windows", "snap_tests", "snap_events"}
          => loc[p].op \in {"draft", "supersede", "analysis"}
    BY <1>0, <1>2, Paths DEF ReadVersion, ReadSource, ReadWindows, ReadTests, At, Role
  <2>6. pc'[p] = "snap_insert" => loc[p].op \in {"draft", "supersede"}
    BY <1>0, <1>2, Paths, GoesTo DEF ReadEvents, At, Role
  <2>7. pc'[p] = "view_restarts" => loc[p].op = "analysis"
    BY <1>0, <1>2, Paths, GoesTo DEF ReadEvents, At, Role
  <2>8. pc'[p] = "snap_publish" => loc[p].op = "supersede"
    BY <1>0, <1>2, Paths, AnswerGoesTo DEF InsertDraft, At, Role
  <2>9. pc'[p] = "snap_supersede" => loc[p].op = "supersede"
    BY <1>0, <1>2, Paths, AnswerGoesTo DEF SetPublished, At, Role
  <2> QED
    BY <1>0, <1>2, <2>1, <2>2, <2>3, <2>4, <2>5, <2>6, <2>7, <2>8, <2>9, Paths DEF Role
<1>3. CASE pc'[p] = "idle"
  BY <1>3 DEF Role
<1> QED BY <1>1, <1>2, <1>3

LEMMA RolesKept == IInv /\ Roles /\ [Next]_vars => Roles'
<1> SUFFICES ASSUME IInv, Roles, [Next]_vars PROVE Roles'
  OBVIOUS
<1>1. ASSUME NEW p \in Procs, Accept(p) \/ Acts(p) PROVE Roles'
  <2>1. Role(p)' /\ Moves(p)
    BY <1>1, RoleStep, AloneAndGrowing
  <2>2. \A q \in Procs : q # p => Role(q)'
    BY <2>1 DEF Roles, Role, Moves
  <2> QED BY <2>1, <2>2 DEF Roles
<1>2. CASE Crash
  BY <1>2 DEF Crash, Roles, Role
<1>3. CASE UNCHANGED vars
  BY <1>3 DEF vars, Roles, Role
<1> QED BY <1>1, <1>2, <1>3 DEF Next, Acts

\* Every handler runs the statements of its own operation.
THEOREM RolesInvariant == Spec => []Roles
<1>1. Init => Roles
  BY DEF Init, RequestsInit, Roles, Role
<1>2. IInv /\ Roles /\ [Next]_vars => Roles'
  BY RolesKept
<1> QED BY <1>1, <1>2, IngestInvariant, PTL DEF Spec

\* Ingest answers with success at five places.
LEMMA Success ==
  ASSUME IInv, Roles, NEW p \in Procs, Acts(p), pc'[p] = "done", loc'[p].reply = "ok"
  PROVE  /\ loc[p].op = "ingest"
         /\ \/ NothingToSettle(p) \/ SettleClose(p) \/ CreateEvent(p) \/ ExtendRun(p)
            \/ SetDegraded(p)
<1> USE DEF At
<1>0. Typed /\ Role(p) /\ LocalsFit(pc[p], loc[p]) /\ pc \in [Procs -> Labels]
  BY LocalTyped DEF IInv, Roles
<1>1. /\ \A label : Goto(p, label) => label = "done"
      /\ \A reply : Answer(p, reply) => reply = "ok" /\ loc[p].op = "ingest"
  BY <1>0, GoesTo, AnswerGoesTo
<1>2. CASE Fail(p)
  BY <1>1, <1>2 DEF Fail
<1>3. CASE IsolateStep(p)
  BY <1>0, <1>1, <1>3
  DEF IsolateStep, SetDegraded, SetIsolated, SetSealed, ReadBaseline, SetRecovered, SetBaseline,
      Observe, SetObserving, AutoDegrade, AutoDegradeRefused, WriteState, Role
<1>4. CASE CorrelatorStep(p)
  BY <1>0, <1>1, <1>4
  DEF CorrelatorStep, CountRun, ReadRestart, NothingToSettle, FindSettled, Settle,
      SettleClose, NoOpenEvent, FindOpenEvent, CreateEvent, Raise, ExtendRun,
      LocalsFit, IngestLabels
<1>5. CASE IngestStep(p)
  <2>1. ~Refuse(p)
    <3> DEFINE verdict == Verdict(sources[loc[p].src], loc[p].seq, loc[p].sample)
    <3>1. verdict # "ok"
      BY Zenon DEF Verdict
    <3>2. Refuse(p) => Answer(p, verdict)
      BY DEF Refuse
    <3> HIDE DEF verdict
    <3> QED BY <1>1, <3>1, <3>2
  <2>2. ~Acquire(p) /\ ~Admit(p) /\ ~CreateWindow(p) /\ ~StoreStatus(p)
    BY <1>0, GoesTo DEF Acquire, Admit, CreateWindow, StoreStatus
  <2>5. ~CreateConflict(p)
    BY <1>1 DEF CreateConflict
  <2>3. ~StoreTest(p)
    BY <1>0, <1>1 DEF StoreTest
  <2>4. ~StoreLastSeq(p) /\ ~Return(p)
    BY <1>1 DEF StoreLastSeq, Return
  <2> QED BY <1>5, <2>1, <2>2, <2>3, <2>4, <2>5 DEF IngestStep
<1>6. CASE ServiceStep(p)
  BY <1>0, <1>1, <1>6
  DEF ServiceStep, InsertedSource, DuplicateSource, InsertedRestart, SetConfirmed, SetClosed,
      SetReevaluated, Role
<1>7. CASE SnapshotStep(p) \/ ViewStep(p)
  BY <1>0, <1>1, <1>7
  DEF SnapshotStep, ReadVersion, SnapshotOfNothing, ReadSource, ReadWindows, ReadTests,
      ReadEvents, InsertDraft, SetPublished, SetSuperseded, ViewStep, CountRestarts, Role
<1> QED BY <1>2, <1>3, <1>4, <1>5, <1>6, <1>7 DEF Step, Acts
-----------------------------------------------------------------------------
(* Which steps change what of a row *)

\* Only six statements write the state of a source, one its confirmed number,
\* and two its baseline.
LEMMA SourceSteps ==
  ASSUME IInv, NEW p \in Procs, Acts(p), NEW s \in Sources
  PROVE  /\ \/ sources'[s].state = sources[s].state
            \/ /\ s = loc[p].src
               /\ \/ InsertedSource(p) /\ sources[s].state = "absent" /\ sources'[s].state = "enabled"
                  \/ SetObserving(p) /\ sources'[s].state = "observing"
                  \/ SetRecovered(p) /\ sources'[s].state = "observing"
                  \/ SetDegraded(p) /\ sources'[s].state = "degraded"
                  \/ SetIsolated(p) /\ sources'[s].state = "isolated"
                  \/ SetSealed(p) /\ sources'[s].state = "sealed"
         /\ \/ sources'[s].lastSeq = sources[s].lastSeq
            \/ s = loc[p].src /\ StoreLastSeq(p) /\ sources'[s].lastSeq = loc[p].seq
         /\ \/ sources'[s].baseline = sources[s].baseline
            \/ /\ s = loc[p].src
               /\ \/ SetBaseline(p) /\ sources'[s].baseline = loc[p].baseline
                  \/ InsertedSource(p) /\ sources'[s].baseline = NULL
<1>0. Typed /\ pc[p] # "idle" /\ loc[p].src \in Sources
  <2>1. Typed /\ pc[p] # "idle"
    BY Busy DEF IInv
  <2> QED BY <2>1, LocalTyped DEF LocalsFit
<1>1. CASE UNCHANGED sources
  BY <1>1
<1>2. CASE StoreLastSeq(p)
  BY <1>0, <1>2, LastSeqWritten DEF StoreLastSeq
<1>3. CASE SetBaseline(p)
  BY <1>0, <1>3, BaselineWritten DEF SetBaseline
<1>4. CASE InsertedSource(p)
  <2>1. sources[loc[p].src].state = "absent" /\ sources[loc[p].src].lastSeq = 0
    BY <1>0, <1>4 DEF InsertedSource, IInv, Unregistered
  <2>2. InsertSource(loc[p].src)
    BY <1>4 DEF InsertedSource
  <2> QED BY <1>0, <1>4, <2>1, <2>2, SourceInserted
<1>5. ASSUME NEW l, NEW st, WriteState(p, l, st)
      PROVE  /\ sources'[s].state = sources[s].state \/ (s = loc[p].src /\ sources'[s].state = st)
             /\ sources'[s].lastSeq = sources[s].lastSeq
             /\ sources'[s].baseline = sources[s].baseline
  BY <1>0, <1>5, StateWritten DEF WriteState
<1>6. CASE SetObserving(p) \/ SetRecovered(p) \/ SetDegraded(p) \/ SetIsolated(p) \/ SetSealed(p)
  BY <1>5, <1>6 DEF SetObserving, SetRecovered, SetDegraded, SetIsolated, SetSealed
<1> QED BY <1>1, <1>2, <1>3, <1>4, <1>6, Writers

\* The event i of s is about the run p has found.
RunOf(p, s, i) ==
  /\ events'[s][i].anomaly = loc[p].anomaly
  /\ events'[s][i].firstSeq = loc[p].firstSeq
  /\ events'[s][i].lastSeq = loc[p].seq
  /\ events'[s][i].windowCount = loc[p].runLen
  /\ events'[s][i].afterRestart = loc[p].after

SameRun(s, i) ==
  /\ events'[s][i].anomaly = events[s][i].anomaly
  /\ events'[s][i].firstSeq = events[s][i].firstSeq
  /\ events'[s][i].lastSeq = events[s][i].lastSeq
  /\ events'[s][i].windowCount = events[s][i].windowCount
  /\ events'[s][i].afterRestart = events[s][i].afterRestart

\* An event is never deleted; one statement inserts, one rewrites the run and
\* five the state.
LEMMA EventSteps ==
  ASSUME Typed, NEW p \in Procs, Acts(p), NEW s \in Sources
  PROVE  /\ \A i \in DOMAIN events[s] :
              /\ i \in DOMAIN events'[s]
              /\ \/ SameRun(s, i)
                 \/ ExtendRun(p) /\ s = loc[p].src /\ i = loc[p].row /\ RunOf(p, s, i)
              /\ \/ events'[s][i].state = events[s][i].state
                 \/ /\ s = loc[p].src /\ i = loc[p].row
                    /\ \/ Settle(p) /\ events'[s][i].state = "transient"
                       \/ SettleClose(p) /\ events'[s][i].state = "closed"
                       \/ Raise(p) /\ events'[s][i].state = RaisedState(p)
                       \/ SetConfirmed(p) /\ events'[s][i].state = "confirmed"
                       \/ SetClosed(p) /\ events'[s][i].state = "closed"
         /\ \/ DOMAIN events'[s] = DOMAIN events[s] /\ Len(events'[s]) = Len(events[s])
            \/ /\ CreateEvent(p) /\ s = loc[p].src
               /\ Len(events[s]) \in Nat
               /\ DOMAIN events[s] = 1..Len(events[s])
               /\ DOMAIN events'[s] = 1..(Len(events[s]) + 1)
               /\ Len(events'[s]) = Len(events[s]) + 1
               /\ events'[s][Len(events[s]) + 1].state = RunState(p)
               /\ RunOf(p, s, Len(events[s]) + 1)
<1>0. pc[p] # "idle" /\ loc[p].src \in Sources
  <2>1. pc[p] # "idle"
    BY Busy
  <2> QED BY <2>1, LocalTyped DEF LocalsFit
<1>1. CASE events'[s] = events[s]
  BY <1>1 DEF SameRun
<1>2. CASE CreateEvent(p)
  <2> DEFINE row == [state |-> RunState(p), anomaly |-> loc[p].anomaly,
                     firstSeq |-> loc[p].firstSeq, lastSeq |-> loc[p].seq,
                     windowCount |-> loc[p].runLen, afterRestart |-> loc[p].after,
                     confirmedAt |-> FALSE, closedAt |-> FALSE]
  <2>1. InsertEvent(loc[p].src, row)
    BY <1>2 DEF CreateEvent
  <2>2. /\ row.state = RunState(p) /\ row.anomaly = loc[p].anomaly
        /\ row.firstSeq = loc[p].firstSeq /\ row.lastSeq = loc[p].seq
        /\ row.windowCount = loc[p].runLen /\ row.afterRestart = loc[p].after
    OBVIOUS
  <2> HIDE DEF row
  <2>3. CASE s = loc[p].src
    <3>1. /\ Len(events[s]) \in Nat
          /\ DOMAIN events[s] = 1..Len(events[s])
          /\ DOMAIN events'[s] = 1..(Len(events[s]) + 1)
          /\ Len(events'[s]) = Len(events[s]) + 1
          /\ \A i \in DOMAIN events[s] : events'[s][i] = events[s][i]
          /\ events'[s][Len(events[s]) + 1] = row
      BY <2>1, <2>3, EventInserted
    <3>2. RunOf(p, s, Len(events[s]) + 1)
      BY <2>2, <3>1 DEF RunOf
    <3>3. \A i \in DOMAIN events[s] : i \in DOMAIN events'[s] /\ SameRun(s, i)
      BY <3>1 DEF SameRun
    <3> QED BY <1>2, <2>2, <2>3, <3>1, <3>2, <3>3
  <2>4. CASE s # loc[p].src
    BY <1>0, <1>1, <2>1, <2>4, EventInserted
  <2> QED BY <2>3, <2>4
<1>3. ASSUME NEW st, NEW a, NEW b, SetState(loc[p].src, loc[p].row, st, a, b)
      PROVE  /\ DOMAIN events'[s] = DOMAIN events[s] /\ Len(events'[s]) = Len(events[s])
             /\ \A i \in DOMAIN events[s] :
                  /\ SameRun(s, i)
                  /\ \/ events'[s][i].state = events[s][i].state
                     \/ s = loc[p].src /\ i = loc[p].row /\ events'[s][i].state = st
  <2>1. CASE s = loc[p].src
    BY <1>0, <1>3, <2>1, StateSet DEF RowReplaced, SameRun
  <2>2. CASE s # loc[p].src
    <3>1. events'[s] = events[s]
      BY <1>0, <1>3, <2>2, StateSet DEF RowReplaced
    <3> QED BY <3>1 DEF SameRun
  <2> QED BY <2>1, <2>2
<1>4. CASE Settle(p) \/ SettleClose(p) \/ Raise(p)
  BY <1>3, <1>4 DEF Settle, SettleClose, Raise
<1>5. CASE SetConfirmed(p) \/ SetClosed(p)
  BY <1>3, <1>5 DEF SetConfirmed, SetClosed
<1>6. CASE ExtendRun(p)
  <2>1. UpdateRun(loc[p].src, loc[p].row, loc[p].firstSeq, loc[p].seq, loc[p].runLen,
                  loc[p].anomaly, loc[p].after)
    BY <1>6 DEF ExtendRun
  <2>2. CASE s = loc[p].src
    BY <1>0, <1>6, <2>1, <2>2, RunUpdated DEF RowReplaced, SameRun, RunOf
  <2>3. CASE s # loc[p].src
    BY <1>0, <1>1, <2>1, <2>3, RunUpdated DEF RowReplaced
  <2> QED BY <2>2, <2>3
<1> QED BY <1>1, <1>2, <1>4, <1>5, <1>6, Writers

\* A snapshot is never deleted and keeps its version.
LEMMA SnapSteps ==
  ASSUME Typed, NEW p \in Procs, Acts(p), NEW s \in Sources
  PROVE  /\ \A i \in DOMAIN snaps[s] :
              /\ i \in DOMAIN snaps'[s]
              /\ snaps'[s][i].version = snaps[s][i].version
              /\ \/ snaps'[s][i] = snaps[s][i]
                 \/ /\ SetPublished(p) /\ s = loc[p].src /\ i = loc[p].snap
                    /\ snaps'[s][i].state = "published"
                 \/ /\ SetSuperseded(p) /\ s = loc[p].src /\ i = loc[p].row
                    /\ snaps'[s][i].state = "superseded" /\ snaps'[s][i].supersededBy = loc[p].snap
         /\ \/ DOMAIN snaps'[s] = DOMAIN snaps[s]
            \/ /\ InsertDraft(p) /\ s = loc[p].src
               /\ Len(snaps[s]) \in Nat
               /\ DOMAIN snaps[s] = 1..Len(snaps[s])
               /\ DOMAIN snaps'[s] = 1..(Len(snaps[s]) + 1)
               /\ snaps'[s][Len(snaps[s]) + 1].state = "draft"
               /\ snaps'[s][Len(snaps[s]) + 1].version = loc[p].version
<1>0. pc[p] # "idle" /\ loc[p].src \in Sources
  <2>1. pc[p] # "idle"
    BY Busy
  <2> QED BY <2>1, LocalTyped DEF LocalsFit
<1>1. CASE snaps'[s] = snaps[s]
  BY <1>1
<1>2. CASE InsertDraft(p)
  <2>1. InsertSnapshot(loc[p].src, loc[p].version, loc[p].payload)
    BY <1>2 DEF InsertDraft
  <2>2. CASE s = loc[p].src
    BY <1>0, <1>2, <2>1, <2>2, SnapInserted, SMTT(30)
  <2>3. CASE s # loc[p].src
    BY <1>0, <1>1, <2>1, <2>3, SnapInserted
  <2> QED BY <2>2, <2>3
<1>3. CASE SetPublished(p)
  BY <1>0, <1>1, <1>3, SnapPublished DEF SetPublished, SnapReplaced
<1>4. CASE SetSuperseded(p)
  BY <1>0, <1>1, <1>4, SnapSuperseded DEF SetSuperseded, SnapReplaced
<1> QED BY <1>1, <1>2, <1>3, <1>4, Writers
=============================================================================
