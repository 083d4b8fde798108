----------------------------- MODULE RngHealth -----------------------------
(***************************************************************************)
(* The whole service: concurrent HTTP requests over one database, with     *)
(* crashes and failing statements, and what must be true of it.            *)
(***************************************************************************)
EXTENDS Ingest, Service, Views

Init == DatabaseInit /\ RequestsInit

\* A client's request begins.
Accept(p) ==
  \E s \in Sources :
    \/ Submit(p, s) \/ IsolateRequest(p, s) \/ ServiceRequest(p, s)
    \/ SnapshotRequest(p, s) \/ ViewRequest(p, s)

\* A request in flight runs its next statement.
Step(p) ==
  \/ IsolateStep(p) \/ CorrelatorStep(p) \/ IngestStep(p)
  \/ ServiceStep(p) \/ SnapshotStep(p) \/ ViewStep(p)

Next == Crash \/ \E p \in Procs : Accept(p) \/ Step(p) \/ Fail(p)

Spec == Init /\ [][Next]_vars

\* The Go scheduler runs every goroutine that is ready and every statement
\* returns; sync.Mutex hands a mutex to a waiter that has starved for 1 ms.
Fairness == \A p \in Procs : WF_vars(Step(p)) /\ SF_vars(Acquire(p))

FairSpec == Spec /\ Fairness

-----------------------------------------------------------------------------
(* Types *)

Labels == {"idle", "lock", "get", "create", "evaluate", "status", "lastseq", "observe",
           "observe_set", "recent", "restart", "open", "settle", "settle_close",
           "create_event", "raise", "update_run", "degrade", "set_degraded", "done",
           "set_isolated", "set_sealed", "baseline", "set_observing", "set_baseline",
           "insert_source", "restart_insert", "confirm", "close", "reevaluate",
           "snap_version", "snap_source", "snap_windows", "snap_tests", "snap_events",
           "snap_insert", "snap_publish", "snap_supersede", "view_restarts"}

TablesOK ==
  /\ sources  \in [Sources -> SourceRow]
  /\ windows  \in [Sources -> [Seqs -> WindowRow]]
  /\ tests    \in [Sources -> Seq(StoredTest)]
  /\ events   \in [Sources -> Seq(EventRow)]
  /\ restarts \in [Sources -> SUBSET RestartRow]
  /\ snaps    \in [Sources -> Seq(SnapRow)]

ProcsOK ==
  /\ pc   \in [Procs -> Labels]
  /\ loc  \in [Procs -> Local]
  /\ lock \in [Sources -> Procs \cup {None}]

\* Every row and every local value has its type: in particular no handler stores
\* a window, an event or a snapshot built from a local it has not set.
TypeOK == TablesOK /\ ProcsOK

-----------------------------------------------------------------------------
(* Ingest *)

\* The part of Ingest between lockFor and the deferred unlock.
Inside(p) == loc[p].op = "ingest" /\ pc[p] \notin {"idle", "lock"}

\* lockFor: the mutex of a source is held by exactly the request that is inside
\* Ingest for that source, so no two windows of one source are processed at once,
\* and an answer, an error or a crash never leaves the mutex behind.
LockDiscipline ==
  \A p \in Procs, s \in Sources : (lock[s] = p) <=> (Inside(p) /\ loc[p].src = s)

\* SetLastSeq: the confirmed sequence number of a source never goes back, though
\* Ingest writes it several statements after it compared it.
LastSeqMonotone == [][\A s \in Sources : sources'[s].lastSeq >= sources[s].lastSeq]_vars

TestsStored(s, q) == \A c \in Categories : \E t \in ListByWindow(s, q) : t.category = c

\* Ingest confirms a number (SetLastSeq) only after the window is evaluated: at
\* any crash point the confirmed window has a final status and all four results.
ConfirmedSeqEvaluated ==
  \A s \in Sources :
    LET q == sources[s].lastSeq
    IN  q # 0 => windows[s][q].status \notin {"none", "new"} /\ TestsStored(s, q)

\* README, "window numbers are idempotent": no test of a window is stored twice,
\* though a client repeats a request it got no answer for, or a 500, and a crash or
\* an error leaves a window stored whose number is not confirmed.
EvaluatedOnce ==
  \A s \in Sources : \A i, j \in DOMAIN tests[s] :
    /\ tests[s][i].seq = tests[s][j].seq
    /\ tests[s][i].category = tests[s][j].category
    => i = j

\* ReevaluateWindow and Evaluate: a verdict rests on stored results, whatever crashed
\* or ran in between.  A window called valid has a test it passed, one called a
\* statistical anomaly has failed the very test it is named after.
VerdictFromTests ==
  \A s \in Sources : \A q \in Recorded(s) :
    /\ windows[s][q].status = "valid" => \E t \in ListByWindow(s, q) : t.passed
    /\ windows[s][q].status = "stat_anomaly" =>
         \E t \in ListByWindow(s, q) : t.category = windows[s][q].anomaly /\ ~t.passed

\* Observe: a source with a window answered with success is no longer "enabled", also
\* when an earlier Ingest died between SetLastSeq and Observe.
ObservedOnSuccess ==
  \A p \in Procs :
    At(p, "done") /\ loc[p].reply = "ok" => sources[loc[p].src].state # "enabled"

\* DetectRepetition: as long as no statement fails, a window whose sample equals
\* that of one of the Lookback recorded windows before it is a repeat anomaly,
\* in whatever order concurrent requests for the source were let in.
ReplayFlagged ==
  \A s \in Sources : \A q \in Recorded(s) :
    /\ windows[s][q].status # "new"
    /\ \E r \in RecentWindows(s, q - 1, Lookback) : windows[s][r].sample = windows[s][q].sample
    => windows[s][q].status = "repeat_anomaly"

\* As long as no statement fails, every window left behind when the mutex is free
\* is evaluated and confirmed, and a source that has one is no longer "enabled".
NoOrphans ==
  \A s \in Sources : lock[s] = None =>
    \A q \in Recorded(s) : /\ windows[s][q].status # "new"
                           /\ q <= sources[s].lastSeq
                           /\ sources[s].state # "enabled"

-----------------------------------------------------------------------------
(* Events *)

\* The windows of an event, by its stored interval.
Evidence(s, ev) == {q \in Recorded(s) : ev.firstSeq <= q /\ q <= ev.lastSeq}

\* What the run of an event counts: anomalous windows and, since OnWindow only stops
\* at a valid one, those an Ingest that failed or died has left unevaluated.
Counted(s, q) ==
  \/ windows[s][q].status \in {"repeat_anomaly", "stat_anomaly"}
  \/ Faults # {} /\ windows[s][q].status = "new"

\* event.go: first_seq..last_seq is the closed interval of the windows an event is
\* about and window_count their number.  As long as nothing is re-evaluated, the count
\* is exact, the interval starts and ends with windows of the run, and it holds
\* anomalous windows only: all of them as long as no statement fails and the process
\* does not die, else all but those left unevaluated, the last one always.  So it is
\* between the two statements that update an event, too, and for a run longer than
\* the correlator looks back.
RunEvidence ==
  \A s \in Sources : \A i \in DOMAIN events[s] :
    LET ev == events[s][i] IN
      /\ ev.windowCount = Cardinality(Evidence(s, ev))
      /\ {ev.firstSeq, ev.lastSeq} \subseteq Evidence(s, ev)
      /\ \A q \in Evidence(s, ev) : Counted(s, q)
      /\ windows[s][ev.lastSeq].status # "new"

\* An anomalous window that Ingest answers with success is on record: it is
\* confirmed, and an event ends with it and carries its anomaly.
AnomalyReported ==
  \A p \in Procs :
    At(p, "done") /\ loc[p].reply = "ok" /\ Anomalous(p) =>
      LET s == loc[p].src IN
      /\ sources[s].lastSeq = loc[p].seq
      /\ \E i \in DOMAIN events[s] : /\ events[s][i].lastSeq = loc[p].seq
                                     /\ events[s][i].anomaly = loc[p].anomaly

\* after_restart is only claimed when a restart boundary lies inside the run or
\* right before it.
RestartAttributed ==
  \A s \in Sources : \A i \in DOMAIN events[s] :
    LET ev == events[s][i] IN
    ev.afterRestart =>
      \E rb \in restarts[s] : ev.firstSeq - 1 <= rb.atSeq /\ rb.atSeq <= ev.lastSeq

\* OpenForSource takes the newest open event for the only one, and a snapshot looks
\* for open events among the newest: without concurrent requests only the newest
\* event of a source is ever open, whatever fails and wherever it crashes.
OpenEventNewest ==
  \A s \in Sources : \A i \in DOMAIN events[s] : Open(s, i) => i = Len(events[s])

\* event.go, "... -> closed" is the last state of an event.
ClosedIsFinal ==
  [][\A s \in Sources : \A i \in DOMAIN events[s] :
       events[s][i].state = "closed" => events'[s][i].state = "closed"]_vars

-----------------------------------------------------------------------------
(* Sources *)

\* statemachine.go: no state follows "sealed".
SealedIsFinal ==
  [][\A s \in Sources : sources[s].state = "sealed" => sources'[s].state = "sealed"]_vars

\* The requests about to write the state of s by an earlier read of it, to anything but
\* "sealed".  UpdateState asks for no state it must still have.
Unsealing(s) ==
  {p \in Procs : /\ loc[p].src = s
                 /\ pc[p] \in {"set_degraded", "set_isolated", "baseline", "set_observing",
                               "observe_set"}}

\* statemachine.go, recovery.go: a request that has read the source before it was sealed
\* takes it out of "sealed" again (run seal_race), and nothing else does.  While a
\* source is sealed no request joins those about to write its state, neither a new one
\* nor an Ingest that was let in before the seal and goes on, and one that unseals it
\* is one of them no longer: when they have run out, the seal holds.
SealUndoneByStaleReads ==
  [][\A s \in Sources : sources[s].state = "sealed" =>
       /\ Unsealing(s)' \subseteq Unsealing(s)
       /\ sources'[s].state # "sealed" => Unsealing(s)' # Unsealing(s)]_vars

\* The windows and the restart boundaries of s: those stored, and those a request past
\* its check of the source is about to store.
Taken(s) ==
  Recorded(s) \cup {loc[p].seq : p \in {r \in Procs : At(r, "create") /\ loc[r].src = s}}
Marked(s) ==
  {rb.atSeq : rb \in restarts[s]} \cup
  {loc[p].seq : p \in {r \in Procs : At(r, "restart_insert") /\ loc[r].src = s}}

\* ingest.go and service.go: Ingest and RecordRestart check for "sealed" once, and store
\* many statements later.  What a sealed source still takes is what they had let in
\* before the seal: no window of a request that has waited for the mutex since, and no
\* boundary.
SealStopsIntake ==
  [][\A s \in Sources : sources[s].state = "sealed" =>
       Taken(s)' \subseteq Taken(s) /\ Marked(s)' \subseteq Marked(s)]_vars

\* None of the last PersistentThreshold windows recorded up to q is valid.
Degrading(s, q) ==
  LET last == RecentWindows(s, q, PersistentThreshold)
  IN  Cardinality(last) = PersistentThreshold
      /\ \A r \in last : windows[s][r].status # "valid"

\* README, "a persistent anomaly degrades the source automatically": when Ingest
\* answers with success and none of the last PersistentThreshold windows is valid,
\* the source does not count as healthy any more, also when an earlier Ingest died
\* between the persistent event and the degradation.  A window left unevaluated
\* counts, as it does for OnWindow.
PersistentDegrades ==
  \A p \in Procs :
    At(p, "done") /\ loc[p].reply = "ok" /\ Degrading(loc[p].src, loc[p].seq) =>
      sources[loc[p].src].state \notin {"enabled", "observing"}

\* recovery.go: a recovery baseline other than 0 names a valid window, which no
\* later request invalidates as long as nothing is re-evaluated.
RecoveryBaselineValid ==
  \A s \in Sources :
    sources[s].baseline \notin {NULL, 0} => sources[s].baseline \in ValidSeqs(s)

-----------------------------------------------------------------------------
(* Snapshots *)

\* publisher.go, "keeps the evidence chain": a superseded snapshot points to a
\* later one of the same source, of a higher version, that has been published.
EvidenceChain ==
  \A s \in Sources : \A i \in DOMAIN snaps[s] :
    snaps[s][i].state = "superseded" =>
      LET n == snaps[s][i].supersededBy IN
      /\ n \in DOMAIN snaps[s]
      /\ n > i
      /\ snaps[s][n].version > snaps[s][i].version
      /\ snaps[s][n].state # "draft"

\* builder.go and analysis.go: the evidence is read by several queries while windows
\* arrive and recoveries run, the source first.  A recovery baseline it shows is
\* therefore among the valid windows it counts, as long as nothing is re-evaluated.
BaselineCounted ==
  \A p \in Procs :
    /\ pc[p] \in {"snap_tests", "snap_events", "snap_insert", "view_restarts"}
    /\ loc[p].payload.baseline \notin {NULL, 0}
    => loc[p].payload.valid > 0

-----------------------------------------------------------------------------
(* Liveness *)

\* Every request is answered: no statement order leaves a request waiting for a
\* mutex for ever.
RequestsComplete == \A p \in Procs : pc[p] # "idle" ~> pc[p] = "idle"
-----------------------------------------------------------------------------
(* The inductive invariant behind TypeOK, LockDiscipline, LastSeqMonotone  *)
(* and ConfirmedSeqEvaluated.                                              *)

FinalStatuses == WindowStatuses \ {"new"}

\* The labels only a request inside Ingest, or on its way in, can be at ...
IngestLabels == {"lock", "get", "create", "evaluate", "status", "lastseq", "observe",
                 "observe_set", "recent", "restart", "open", "settle", "settle_close",
                 "create_event", "raise", "update_run", "degrade", "done"}

\* ... those at which its window is admitted and not yet confirmed ...
UnconfirmedLabels == {"create", "evaluate", "status", "lastseq"}

\* ... and those at which OnWindow knows the run.
RunLabels == {"restart", "open", "settle", "settle_close", "create_event", "raise", "update_run"}

CorrelatedLabels == {"observe", "observe_set", "recent"} \cup RunLabels

\* What a handler has set among its locals l before the statement at a label.
LocalsFit(label, l) ==
  /\ label # "idle" => l.src \in Sources
  /\ label # "idle" /\ l.op = "ingest" => l.sample \in Samples
  /\ label \in IngestLabels => l.op = "ingest"
  /\ label \in UnconfirmedLabels \cup CorrelatedLabels \cup {"restart_insert", "reevaluate"}
       => l.seq \in Seqs
  /\ label \in RunLabels => l.firstSeq \in Seqs
  /\ label = "raise" => l.rowState \in EventStates
  /\ label = "reevaluate" => l.status \in FinalStatuses

Typed == TypeOK /\ \A p \in Procs : LocalsFit(pc[p], loc[p])

\* A window that is admitted stays ahead of the confirmed number until its own
\* SetLastSeq: the mutex keeps every other SetLastSeq of the source away.
Ahead(p) ==
  pc[p] \in UnconfirmedLabels =>
    /\ sources[loc[p].src].state # "absent"
    /\ loc[p].seq > sources[loc[p].src].lastSeq

\* The tests stored so far, and the status, of the window being evaluated.
Evaluating(p) ==
  LET s == loc[p].src
      q == loc[p].seq
  IN  /\ pc[p] = "evaluate" =>
           /\ windows[s][q].status # "none"
           /\ \A k \in 1..(loc[p].test - 1) :
                \E t \in ListByWindow(s, q) : t.category = RunOrder[k]
      /\ pc[p] = "status"  => windows[s][q].status # "none" /\ TestsStored(s, q)
      /\ pc[p] = "lastseq" => windows[s][q].status \in FinalStatuses /\ TestsStored(s, q)

Unregistered == \A s \in Sources : sources[s].state = "absent" => sources[s].lastSeq = 0

IInv ==
  /\ Typed
  /\ LockDiscipline
  /\ \A p \in Procs : Ahead(p) /\ Evaluating(p)
  /\ Unregistered
  /\ ConfirmedSeqEvaluated
=============================================================================
