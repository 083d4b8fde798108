# A model of rnghealth

`rnghealth` traces the health of hardware random number generators. Clients
register entropy sources and post numbered windows of bytes; the service tests
each window, correlates anomalous windows into events, degrades a source with a
persistent anomaly, and freezes evidence into diagnostic snapshots. It is one Go
process over one SQLite file. This directory holds a TLA+ model of it, the
configurations that check the model with TLC, and proofs, for every value of the
constants, of every safety and action property those runs check and of the refinement.

## 1. The system

| Part | Source | State it keeps | Operations |
|---|---|---|---|
| Domain model | `internal/model` | – | states and transition predicates of sources, windows, events, snapshots |
| Store | `internal/store` | six tables | one SQL statement per method |
| Health tests | `internal/health` | – | four statistics, repetition detection; `Evaluate` stores the results |
| Ingest | `internal/ingest` | one mutex per source | `Ingest`, `Batch` |
| Correlation | `internal/correlate` | – | `OnWindow`, called by `Ingest` |
| Isolation | `internal/isolate` | – | `Degrade`, `Observe`, `Isolate`, `Seal`, `Recovery.Confirm` |
| Service | `internal/service` | – | registration, restarts, events, re-evaluation; facade of the rest |
| Snapshots | `internal/snapshot` | – | `Draft`, `Publish`, `Supersede`; `BuildPayload` |
| HTTP API | `internal/httpapi` | – | one goroutine per request |
| Views, command | `internal/service/analysis.go`, `cmd/rnghealth` | – | reports, start, smoke test |

All state is in the tables and in `Ingestor.mu`; handlers hold what they have
read in local variables. `db.go` opens the database with one connection and no
handler opens a transaction. So **a single SQL statement is atomic and nothing
larger is**, except that two `Ingest` calls for one source exclude each other.

What is hard in it follows from that:

* every operation reads, decides and writes in different statements, and only
  `Ingest` is serialised, and only against itself;
* `Ingest` is a chain of nine or more statements over five tables; an error or
  a crash anywhere leaves the statements before it in place;
* `OnWindow` decides from the source and the event as they were read earlier,
  and writes the event in two statements;
* some errors are swallowed (hashes, restart boundary, the open event of a valid
  window), others are returned;
* a run of anomalies is counted over `PersistentThreshold + 2` windows only;
* a snapshot payload is read by four queries, its version by a fifth.

`PROJECT.json` lists these hazards at their lines.

What makes each part correct: a confirmed number (`last_seq`) never goes back
and names an evaluated window; replays are flagged whatever the interleaving; an
anomaly that is answered with success is on record in an event whose interval
and count agree with the windows; no window is evaluated twice, however often a
client repeats it; a verdict rests on stored results; only the newest event of a
source is open; a persistent run degrades the source; a closed event stays closed; a
sealed source takes nothing new, and only requests that read it before the seal undo it;
a recovery baseline names a valid window; a superseded snapshot leads to a later
published one; every request is answered; the statistics compute what they are
named after.

## 2. The modules

    Domain        states, predicates, what a sample's bytes mean to the service
    Database      the tables as variables; queries as operators, statements as
                  one-table updates
    Requests      requests as processes: pc, locals, the mutex; Fail and Crash
    Isolate       the state machine and recovery       (extends Requests)
    Correlator    OnWindow                             (extends Requests)
    Ingest        Ingest and Batch                     (extends Isolate, Correlator)
    Service       registration, restarts, events, re-evaluation
    Snapshot      drafts, publication, succession
    Views         the analysis of a source             (extends Snapshot)
    RngHealth     the whole: Init, Next, fairness, properties, IInv
    Tracker       what Ingest promises: an abstract specification
    Refinement    the mapping of RngHealth to Tracker
    Claims        what comments and documents say and the code does not keep
    MCRngHealth   constants for TLC

    HealthTests   the statistics and DetectRepetition, byte by byte
    MCHealthTests samples for TLC

    TypeProofs    type correctness
    IngestProofs  what the mutex protects              (extends TypeProofs)
    StepProofs    what each statement changes, and who runs it  (extends IngestProofs)
    OnceProofs    test results and verdicts            (extends StepProofs)
    EventProofs   what success promises; the events    (extends StepProofs)
    LifecycleProofs  snapshots, baselines, sealed and closed
                                                       (extends EventProofs, OnceProofs)
    RefinementProofs  orphans, replays, the refinement
                                                       (extends Refinement, LifecycleProofs)
    HealthProofs  the statistics and DetectRepetition  (extends HealthTests)

**Database.** `sources`, `windows`, `tests`, `events`, `restarts` and `snaps` are
the six tables, each a function of the source. A window is named by
`(source, seq)`, which the unique index makes a key; the other tables are
sequences in id order. A query is the set of its results (empty for `ErrNoRows`).
Kept are the columns some decision or property reads. A time column is only NULL
or not. One conversion matters: `nullTimeVal` hands the driver a `time.Time`,
whose stored text `scanNullTimeStr` cannot parse as RFC 3339, so a time reads back
as nil. The constant `TimesReadable` says which of the two holds; the runs take
`FALSE`, what the pinned driver does, and the proofs hold for both.

**Requests.** Each `p \in Procs` is the goroutine of a request. `pc[p]` is the
statement it runs next, `loc[p]` its locals. A request starts with its first
query, because nothing can happen between its arrival and that. Requests that are
refused before they write are stuttering steps and have no action, save in
`Ingest`, where they hold the mutex. `Fail(p)` is the failure of the next
statement: the handler returns and nothing is undone. Statements whose error is
swallowed say so in their own action (`ErrorIgnored`). `Crash` ends all requests
and frees every mutex; the tables stay.

**Ingest and Correlator** follow the code statement by statement:
`lock, get, create, evaluate (x4), status, lastseq, [observe, observe_set],
recent, [restart], open, ...` to `done`, the deferred unlock, after which `Batch`
takes its next item. The two hash queries before the INSERT are read in the step
of the INSERT: they read `windows` only, and the holder of the mutex is the only
request that inserts windows of the source, so no other step can change their
result in between.

**Samples** are model values. Equality stands for equality of the SHA-256,
`FailedBy[x]` for the statistical tests that `x` fails, `Degenerate` for the
samples that `DetectRepetition` flags on their own, `WellSized` for those that
`Validate` accepts.

**Views.** `Service.Analysis` runs the four queries of a snapshot payload in the same
order, so it shares their actions, and one more. It writes nothing; what it shows is
checked (`BaselineCounted`).

**Tracker and Refinement.** `Tracker` is Ingest without statements, mutexes or
requests: `Judge` logs a window with its verdict, `ReportWindow` brings the events up
to it, `Degrade` sounds the alarm. `Refinement` says which tables and locals show the
tracker's state: a window is logged from the statement that confirms its number, is
pending until the last statement that writes its event, and an event between its two
UPDATEs is shown as it was. Only the holder of the mutex can be in between, which is
what makes the mapping possible.

**HealthTests** is separate from the rest: one sample, and the loops of `Monobit`,
`Runs`, `Poker`, `LongRun`, `maxIdenticalRun` and `dominantByteRatio` side by side, one
byte a step, their verdicts in a last one. The quotients the code compares with a
limit are multiplied out. Doing so is exact for monobit (equality needs a perfect
square, whose root is exact), for runs (never equal), for the score (0.9 is the double
nearest to 9/10, and division rounds correctly). For poker, an exact 32.8 is decided by
rounding, differently at different lengths, and `PokerVerdicts` allows both. The
constants `FailedBy` and `Degenerate` of `Domain` stand for what this module computes.

Definitions whose comment starts with "Variant:" are no part of the
specification. Each is a plausible slip in the definition below it; exchanging
the two must break a property, which shows that the property depends on the code
it is about (`mutants` in `PROJECT.json`).

## 3. What is checked

All runs but `health` are of `MCRngHealth` with one source: every table, query and
mutex is keyed by the source, so that two sources do not interact. `good` and `other`
pass all tests, `bad` fails two, `stuck` is degenerate, `short` is refused. `MaxSeq`
bounds the numbers clients send; `PersistentThreshold` and `Lookback` are 2 instead of 3
and 8 so that runs and look-backs of full length fit in few windows. Two requests
suffice for every check-then-act race of the code: each pairs one stale read with one
write.

| Run | Instance | Shows |
|---|---|---|
| `serial` | one request at a time, errors and crashes, 3 windows | `OpenEventNewest`, `RunEvidence`, `PersistentDegrades`, `ClosedIsFinal`: partial failures alone break no event and prevent no degradation |
| `ingest_race` | two clients ingest 5 windows of 3 samples | `ReplayFlagged`, `NoOrphans`, `RunEvidence`, `ImplementsTracker`: the mutex makes ingestion sound against itself, and all of it looks like one window at a time. With five windows a run is longer than the correlator's query (`PersistentThreshold + 2`) |
| `concurrent` | two requests, seven operations, 3 windows | `AnomalyReported`, `RestartAttributed`, `SealUndoneByStaleReads`, `SealStopsIntake`: what survives races with the engineer's operations, which take no mutex. With three windows a run starts later than 1, so that a restart boundary can lie before it |
| `crashes` | two requests, errors and crashes, with re-evaluation | `TypeOK`, `LockDiscipline`, `ConfirmedSeqEvaluated`, `EvaluatedOnce`, `VerdictFromTests`, `ObservedOnSuccess`, `LastSeqMonotone`, and `IInv`, the invariant of the proofs. Clients may repeat any request at any time |
| `recovery` | two requests: ingestion, recovery, sealing, analysis; errors and crashes; a single anomaly degrades (threshold 1), so that two windows suffice for degradation and recovery | `RecoveryBaselineValid`, `BaselineCounted`, `SealUndoneByStaleReads`: recoveries, seals and views race with ingestion and with each other |
| `snapshots` | two requests, up to 2 snapshots (3 with a late insert), errors and crashes | `EvidenceChain`: a supersession that fails half-way never leaves a chain into a draft |
| `liveness` | two clients, batches of two | `RequestsComplete`, `AnomaliesReported`: every confirmed anomaly gets an event that reaches it |
| `health` | 282 samples: all sequences of four 16-byte words (two noises, stuck at zero, alternating bits), shares of 57 and 58 of 64 bytes, runs of 31 and 32 bits, exact poker ties | `LoopsExact`, `DegenerateFails`, `DominanceDecides` |

`LoopsExact` compares the locals of each loop with definitions by counting and by
quantifiers after every byte. `DegenerateFails` relates two parts of the code that know
nothing of each other: a sample flagged without history fails the poker test as well,
so that its stored tests never look healthy. `DominanceDecides` records that the search
for a stretch of identical bytes (repetition.go:45) has no effect: its score is a share
of the sample that the dominant byte also reaches.

`MaxSnaps` bounds the snapshots a client asks for. Where it does, a state in which
every request was refused may have no successor, and the configuration says
`CHECK_DEADLOCK FALSE`, as does `health`, where a judged sample is the end; in all other
runs deadlock is checked.

*Fairness.* `FairSpec` assumes weak fairness of the steps of each request in
flight (the Go scheduler runs a ready goroutine and a statement returns) and
strong fairness of `Acquire` (`sync.Mutex` in starvation mode hands the mutex to
the longest waiter). Nothing makes a client send a request, and no fairness is
put on `Fail` or `Crash`; the liveness run has neither, since after a crash between
`SetLastSeq` and the event nothing reports the window.

Some properties are claimed under conditions, and the configurations keep to
them. `ReplayFlagged` and `NoOrphans` assume that no statement fails: errors of
the hash queries are swallowed, and a crash after the INSERT leaves a `new` window.
So does `ImplementsTracker`, and that no engineer intervenes: the tracker has no steps
for either.
`RunEvidence`, `RecoveryBaselineValid` and `BaselineCounted` assume that nothing is
re-evaluated, `PersistentDegrades` also that nothing is recovered. What `RunEvidence` says
depends on the faults: without them (`ingest_race`) every window of an event is anomalous,
with them (`serial`) it may also be one that an Ingest has left unevaluated, save the last
(section 4). `PersistentDegrades` takes such windows for part of the run as well, as the
code does. `ClosedIsFinal` and `OpenEventNewest` hold for one request at a time or for any
number as long as no engineer confirms or closes an event; else the code breaks them
(section 4). The theorems of section 5 name the same conditions.

*Seals.* That a sealed source stays sealed is false (run `seal_race`), and so is that it
takes no writes (section 4). What the code does keep, with any requests and faults, is
checked instead. `SealUndoneByStaleReads`: while a source is sealed no request joins those
that are about to write its state by an earlier read, and one that unseals it is one of
them no longer, so that a seal holds once they have run out. `SealStopsIntake`: the windows
and boundaries that are stored for a sealed source are those whose request had passed its
check before the seal; a request that was waiting for the mutex then is refused.

## 4. Where code and comments disagree

Each run below checks one sentence of the repository and TLC refutes it.

| Run | Sentence | What happens |
|---|---|---|
| `seal_race` | statemachine.go:11, transitions of a source are serialised by the service layer | nobody serialises them: an `Isolate` that read the source before a `Seal` takes it out of `sealed` afterwards |
| `confirmed_event` | event.go:5, confirmed is followed by closed | with the third anomalous window of a run `OnWindow` writes `persistent` over `confirmed`; no concurrency is needed |
| `long_run` | correlator.go:51, the walk ends at the start of the run | it ends after `PersistentThreshold + 2` windows; `first_seq` and `window_count` of a longer event slide |
| `version_race` | snapshot_store.go:18, versions are monotone | two drafts read the same `MAX(version) + 1`, and no index forbids the duplicate |

More of this kind was read in the code, and has no run of its own:

* A run of "consecutive anomalous windows" (correlator.go:12, correlator.go:47) also counts
  windows at `new`, since `OnWindow` stops at a valid one only. Such a window is what an
  Ingest leaves behind that fails or dies after the INSERT; it is "stored, not evaluated"
  (window.go:7), is counted in the `window_count` of an event, may be its `first_seq`, and
  brings the source nearer to its degradation.
* A sealed source "rejects all writes" (source.go:11), but only `Ingest`, `RecordRestart` and
  the state machine look at its state. Its windows can still be re-evaluated, its events
  confirmed and closed, and snapshots of it drafted, published and superseded, without any
  concurrency.

And in short: recovery without a
valid window stores baseline 0, and the snapshot marks NULL only (recovery.go:22,
builder.go:82); a crash between the persistent event and the degradation leaves the
source `observing` until the next anomalous window (README.md:10 of the repository,
ingest.go:115); a stretch of 32 identical bytes in a longer sample is not flagged
(window.go:9, "长重复串"); an operator's concurrent degradation makes Ingest answer
`transition` for a window it has stored (statemachine.go:30); a window or a
restart boundary stored after the seal because `Ingest` and `RecordRestart` check it
first (source.go:11); an event closed by an engineer and written back open by
`OnWindow` (event.go:5); a re-evaluation that makes a replay valid, or that judges a
window from the results stored so far (window.go:8); `baseline_missing` set whatever
the next window is (restart.go:14); a summary limited in rows where its comment says
windows (healthtest_store.go:55); a crash between `SetLastSeq` and `Observe`
(source.go:7); a late `Publish` that revives a superseded snapshot, and a second
`Supersede` that replaces the recorded successor (snapshot.go:5, publisher.go:60);
a payload whose four parts belong to different moments (snapshot.go:18).

## 5. What is proved

Every invariant and action property of a passing run is a theorem, and so is the
refinement. The theorems hold for every value of the constants that satisfies the four
named assumptions (`DomainAssumption`, `DatabaseAssumption`, `RequestsAssumption`,
`SnapshotAssumption`) or, in `HealthProofs`, `HealthAssumption`: any sources, samples,
requests, thresholds and bounds, and any faults and operations unless the theorem
says otherwise. Some do, because the property is false without the condition: TLC
refutes each of these properties within seconds on an instance of two or three windows
that drops it.

| Condition | Theorems | Satisfied by | Why it is needed |
|---|---|---|---|
| nothing is re-evaluated | `EvidenceExact`, `PersistentAnomalyDegrades`, `BaselinesAreValid`, `BaselinesAreCounted`, `ReplaysAreFlagged` | all runs but `crashes` | `SetReevaluated` overwrites a verdict and leaves events and baselines alone |
| nothing is recovered | `PersistentAnomalyDegrades` | `serial` | a recovery may follow the degradation before Ingest answers |
| `Faultless`: no statement fails, no crash | `NothingLeftBehind`, `ReplaysAreFlagged` | `ingest_race` | a crash after the INSERT leaves a `new` window, an error of a hash query is swallowed |
| `Quiet`: `Faultless`, and no operation of `Engineered` | `IngestImplementsTracker` | `ingest_race` | the tracker has no steps for either; registration, restarts, snapshots and views are allowed |
| `EventsAlone`: one request at a time, or no engineer confirms or closes events | `NewestIsOpen`, `ClosedStaysClosed` | `serial`, `ingest_race` | `OnWindow` writes back the event it read |

`TypeProofs`: `TypedInvariant` and `TypeCorrect`. `TypeOK` is not inductive: that
`CreateEvent` stores an event with a `firstSeq` in `Seqs`, say, holds because
`CountRun` has set the local before. `Typed` adds, for each label, the locals that
are set there (`LocalsFit`) and is inductive: one lemma per statement about the
tables, one per component about its actions.

`IngestProofs`: what the mutex of a source protects, for any number of concurrent
requests, failing statements and crashes. `MutualExclusion` (`LockDiscipline`),
`ConfirmedIsEvaluated` (`ConfirmedSeqEvaluated`) and `ConfirmedNeverBack`
(`LastSeqMonotone`) follow from one inductive invariant, `IInv` (run `crashes` checks
it), since none of the three is inductive:

* That `SetLastSeq`, which compares nothing, does not lower `last_seq` needs `Ahead`:
  from `Admit` on, the number of a window is above the confirmed one. That `Ahead`
  survives the steps of the other requests needs the mutex: only its holder can be
  at `SetLastSeq` for that source. That a registration does not lower it needs
  `Unregistered`.
* That the confirmed window is evaluated needs `Evaluating`, the loop invariant of
  `Evaluate` (the first `test - 1` results are stored) and what follows it. That it
  stays so needs that no statement removes a test or takes back a final status;
  `SetReevaluated`, which writes statuses without the mutex, writes only final ones.
* Most steps touch nothing of this. `Aside(p)` says what such a step may do;
  `AsideKeeps` proves that it keeps `IInv`, and one lemma per component proves that
  its steps are aside. The seven statements of Ingest that are not (`Acquire`,
  `Admit`, `CreateWindow`, `StoreTest`, `StoreStatus`, `StoreLastSeq`, `Return`)
  have a lemma each, on top of `StepKeeps`, which carries the part about the other
  requests.

`StepProofs` has no property of a run. It states once what the other proofs keep needing:
for each statement, which tables and which locals of its request it can change
(`Leaves`), from which statements each is reached (`Paths`), what an inserted or updated
row becomes (`RowReplaced`, `SnapReplaced`), and that a handler is only ever at a
statement of its own operation (`RolesInvariant`). The invariants below are about a few
statements each; that the others keep them is cited from here.

`OnceProofs`: `NeverEvaluatedTwice` (`EvaluatedOnce`), on top of `IInv`. It needs two more
facts: results are stored for recorded windows only (`TestsOfWindows`), so that a
window that passes the unique index has none; and the request that evaluates a window has
only results of the tests it has passed by (`OnlyEarlier`), which no other request can
add to, because of the mutex. `VerdictsRestOnTests` (`VerdictFromTests`): a request that
is about to store a verdict has stored the results it rests on, or read them
(`VerdictDue`), and no statement removes a result.

`EventProofs`, for any number of requests:

* `SuccessIsObserved` (`ObservedOnSuccess`): what an Ingest read as not `enabled` stays so
  (`SeenInv`); one that read `enabled` passes `SetObserving`.
* `RestartsJustified` (`RestartAttributed`): a request claims a restart only after it has
  read the boundary, and boundaries are never removed (`AfterInv`).
* `EventRowsExist`: the event a statement addresses by its id exists.
* `SuccessIsOnRecord` (`AnomalyReported`): from `SetLastSeq` to the answer the window is the
  confirmed one (`ReportInv`), and no other statement moves the end of its event.
* `EvidenceInvariant`, most of `RunEvidence`: the run a request has counted is the one the
  tables show (`RunInv`), since the windows below the confirmed number are settled (`Settles`); no
  event reaches beyond that number (`EventsConfirmed`). The correlator counts over a
  limited query; the lemmas about `TailRun` show that what it counts is a run of
  consecutive recorded windows that ends at the one at hand.
* `PersistentAnomalyDegrades` (`PersistentDegrades`): a run that reaches the threshold sends
  Ingest to the degradation unless it read the source as past it, and what is past
  it stays (`DegradeInv`), whatever an earlier, crashed Ingest left undone.

`LifecycleProofs`:

* `SupersededIsReplaced` (`EvidenceChain`): `SnapInv` follows Supersede from the row it
  replaces over the version it has read to the row it has inserted and published. A
  published row is not made a draft again, nor is a version changed.
* `BaselinesAreValid` and `BaselinesAreCounted`: a valid window stays valid, since a status
  is written once, by the request that stored the window (`NewInv`); so a baseline
  is sound in the locals of a recovery and of a reader as well as in the table (`BaseInv`).
* `OnlyStaleReadsUnseal` (`SealUndoneByStaleReads`), `SealedTakesNoMore`
  (`SealStopsIntake`), without condition and for any number of requests: every statement
  that writes a state other than `sealed` comes after a read of the source in the same
  operation, which turns back when it reads `sealed` (`Observe` and `Degrade` read it again
  inside Ingest; `UnsealingStep`). Only the INSERT of Ingest adds a window, and only a request
  that read the source as not sealed comes to it (`WindowAdded`, `IntakeStep`).
* `NewestIsOpen`, `ClosedStaysClosed`: what a handler has read of an event still holds when
  it writes (`OpenInv`), because of the condition, and although it may die anywhere in
  between.

`RefinementProofs`:

* `NothingLeftBehind` (`NoOrphans`): every window beyond the confirmed number, or without a
  verdict, belongs to a request that is at work on it (`Frontier`).
* `EvidenceExact` (`RunEvidence`): `EvidenceInvariant`, and `Frontier` for what faults decide:
  without them a window at `new` is beyond the confirmed number, and so in no event.
* `ReplaysAreFlagged` (`ReplayFlagged`): a request that is admitted comes after all
  recorded windows (`AboveAll`), so that the windows it compares with are those that
  precede its own for good, and every verdict is the one the samples call for
  (`Judged`, `JudgeInv`).
* `IngestImplementsTracker` (`ImplementsTracker`): Init maps to Init and every step to a
  step or a stutter. The registration is `Register`, `SetLastSeq` is
  `Judge`, the last statement that writes the event, or the query that finds none to write,
  is `ReportWindow`, and `SetDegraded` is `Degrade`; everything else stutters. The proof
  of a step rests on the invariants above (`Support`) and on `KnownInv`: what Ingest has
  read of its source and its event still holds.

`HealthProofs`, for any set of samples of admissible length:

* `DominanceSuffices` (`DominanceDecides`): the stretch that ends at the last byte read
  is no longer than the count of that byte, and the longest so far no longer than the count
  of some byte (`StretchCounted`).
* `LoopsAreExact` (`LoopsExact`): the invariant adds the stretch that may still grow
  (`Stretches`: it ends here, and cannot be extended to the left) to what each loop has
  counted. `StretchTurn` is one turn of a loop over stretches, for bits and bytes alike;
  `ByteTurnsExact` composes the eight turns a byte takes.
* `DegenerateIsAnomalous` (`DegenerateFails`): a byte with a share above 0.9 adds that much
  to two nibbles, or twice to one, so that the sum of squares is at least twice the square
  of its count, and chi-square above the limit for every length of at least 64. The
  fold that takes the sum is a recursive function over sets of nibbles; that it is defined
  and bounded is shown for sets of up to `n` nibbles, for `n` from 0 to 16
  (`SumsExtend`, `SumsBound`), without induction over data.

Only model-checked: `RequestsComplete` and `AnomaliesReported`, liveness under fairness,
which is beyond the prover, and everything in section 4, which is a counterexample.

## 6. What is not modelled

* Entropy: logarithms whose result is stored and averaged and decides nothing. The
  score, statistic and threshold columns, which no decision reads.
* HTTP routing, decoding and status codes; JSON; listing operations; `GlobalStats` and
  `SelfCheck`, counts over all sources that nothing relates to each other. They change
  nothing.
* The link from `HealthTests` to the constants `FailedBy` and `Degenerate`: that they are
  what that module computes is a matter of reading, not of a refinement.
* The smoke test of the command, which is a client of the service.
* Event notes (`SetNote`, whose error is ignored), names, creation times, the baseline
  columns of a restart boundary.
* What `mapErr` makes of error texts. The model has the three errors the code decides by
  (no row, a duplicate number, a duplicate source) and one that stands for all others. A
  broken schema whose error says "no such ..." is a `ErrNotFound` to the code, and any failed
  constraint an `ErrConflict`; the schema is created at start, so neither occurs.
* `StateMachine.Recover`, `model.(*EntropySource).Seal` and `CanWrite`,
  `CountAnomalousSince` and other methods without a caller.
* SQLite itself: a statement either happens or fails. A crash loses no committed
  statement.

## 7. Plan

Order of work: the data (`Domain`, `Database`), requests and faults (`Requests`),
the ingest path (`Isolate`, `Correlator`, `Ingest`), the other operations
(`Service`, `Snapshot`, `Views`), the whole (`RngHealth`) with its runs, type correctness
(`TypeProofs`), the mutex (`IngestProofs`), the statistics (`HealthTests`), the abstract
specification (`Tracker`, `Refinement`), the proofs on top (`StepProofs`, `OnceProofs`,
`EventProofs`, `LifecycleProofs`, `RefinementProofs`, `HealthProofs`). What is left:

1. A refinement with faults: a tracker that may also lose a window, or a report, so that
   `IngestImplementsTracker` needs no `Faultless`.
2. The two hash queries of Ingest as steps of their own, so that a failure between them
   is a state.
