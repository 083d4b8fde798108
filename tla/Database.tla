------------------------------ MODULE Database ------------------------------
(***************************************************************************)
(* internal/store: the six tables of the SQLite database, the queries the  *)
(* handlers run and the statements that change a row.  db.go allows one    *)
(* connection (SetMaxOpenConns(1)) and no handler opens a transaction, so   *)
(* one statement is one atomic step and nothing larger is.                 *)
(*                                                                         *)
(* A row id is the position of the row within its source, which keeps the  *)
(* order "ORDER BY id" sees; a window is named by (source, seq), which the *)
(* index uq_windows_source_seq makes unique.  A time column is only NULL   *)
(* or not.  Columns no decision reads (names, hashes other than for        *)
(* equality, entropy, scores, notes, creation times) are left out.         *)
(***************************************************************************)
EXTENDS Domain

CONSTANTS
  TimesReadable,  \* does a time column read back as written?  (see ReadTime)
  SummaryLimit,   \* rows SummaryForSource reads (5000)
  EventPage       \* rows events.List reads (50)

VARIABLES
  sources,   \* entropy_sources: state, sealed_at, last_seq, recovery_baseline_seq
  windows,   \* sample_windows
  tests,     \* health_tests, in id order per source
  events,    \* health_events, in id order per source
  restarts,  \* restart_boundaries
  snaps      \* diagnostic_snapshots, in id order per source

tables == <<sources, windows, tests, events, restarts, snaps>>

\* What a statement on one table leaves alone.
notSources  == <<windows, tests, events, restarts, snaps>>
notWindows  == <<sources, tests, events, restarts, snaps>>
notTests    == <<sources, windows, events, restarts, snaps>>
notEvents   == <<sources, windows, tests, restarts, snaps>>
notRestarts == <<sources, windows, tests, events, snaps>>
notSnaps    == <<sources, windows, tests, events, restarts>>

ASSUME DatabaseAssumption ==
  /\ TimesReadable \in BOOLEAN
  /\ SummaryLimit \in Nat
  /\ EventPage \in Nat

NULL == -1   \* a NULL recovery_baseline_seq

SourceRow == [state    : SourceStates \cup {"absent"},
              sealedAt : BOOLEAN,
              lastSeq  : 0..MaxSeq,
              baseline : NULL..MaxSeq]

StoredTest == [seq : Seqs, category : Categories, passed : BOOLEAN]

RestartRow == [atSeq : Seqs]

\* The evidence a snapshot freezes; openEvents holds event ids.
Payload == [state           : SourceStates \cup {"absent"},
            baseline        : NULL..MaxSeq,
            baselineMissing : BOOLEAN,
            total           : Nat,
            valid           : Nat,
            testFailures    : [Categories -> Nat],
            openEvents      : SUBSET Nat]

SnapRow == [version      : Nat,
            state        : SnapshotStates,
            payload      : Payload,
            supersededBy : Nat]   \* 0 is NULL

NoSource == [state |-> "absent", sealedAt |-> FALSE, lastSeq |-> 0, baseline |-> NULL]

DatabaseInit ==
  /\ sources  = [s \in Sources |-> NoSource]
  /\ windows  = [s \in Sources |-> [q \in Seqs |-> NoWindow]]
  /\ tests    = [s \in Sources |-> <<>>]
  /\ events   = [s \in Sources |-> <<>>]
  /\ restarts = [s \in Sources |-> {}]
  /\ snaps    = [s \in Sources |-> <<>>]

-----------------------------------------------------------------------------
(* Queries.  One that returns at most one row is the set of its results.   *)

\* scanNullTimeStr parses RFC 3339 and yields nil for anything else, while
\* nullTimeVal hands the driver a time.Time, whose text form is the driver's.
ReadTime(column) == column /\ TimesReadable

Recorded(s) == {q \in Seqs : windows[s][q].status # "none"}

\* RecentWindows: the n recorded windows with the largest seq up to q.
RecentWindows(s, q, n) ==
  LET upTo == {r \in Recorded(s) : r <= q}
  IN  {r \in upTo : Cardinality({t \in upTo : t > r}) < n}

\* PrevWindowHash: the sample of the window with the largest seq.
PrevWindow(s) == {q \in Recorded(s) : \A r \in Recorded(s) : r <= q}

\* Variant: the status missing from the WHERE clause.
LatestSeq(s) == IF Recorded(s) = {} THEN {0} ELSE PrevWindow(s)

\* LatestValidSeq: COALESCE(MAX(seq), 0) over the valid windows.
ValidSeqs(s) == {q \in Seqs : windows[s][q].status = "valid"}
LatestValidSeq(s) ==
  IF ValidSeqs(s) = {} THEN {0}
  ELSE {q \in ValidSeqs(s) : \A r \in ValidSeqs(s) : r <= q}

\* ListByWindow: the stored test rows of one window.
ListByWindow(s, q) == {tests[s][i] : i \in {j \in DOMAIN tests[s] : tests[s][j].seq = q}}

\* LatestBefore: the restart boundary with the largest at_seq up to q.
LatestBefore(s, q) ==
  LET upTo == {rb.atSeq : rb \in {x \in restarts[s] : x.atSeq <= q}}
  IN  {at \in upTo : \A other \in upTo : other <= at}

\* Variant: the state missing from the WHERE clause.
AnyEvent(s, i) == TRUE

\* OpenForSource: the newest event that is not closed.
Open(s, i) == events[s][i].state # "closed"
OpenForSource(s) ==
  {i \in DOMAIN events[s] :
     Open(s, i) /\ \A j \in DOMAIN events[s] : j > i => ~Open(s, j)}

\* List(source, "", EventPage, 0): the ids of the newest events, open or not.
ListEvents(s) == {i \in DOMAIN events[s] : i > Len(events[s]) - EventPage}

\* SummaryForSource: failures by category among the last SummaryLimit rows.
SummaryForSource(s) ==
  [c \in Categories |->
     Cardinality({i \in DOMAIN tests[s] : /\ i > Len(tests[s]) - SummaryLimit
                                          /\ tests[s][i].category = c
                                          /\ ~tests[s][i].passed})]

\* NextVersion: COALESCE(MAX(version), 0) + 1.
NextVersion(s) ==
  {v \in 1..(Len(snaps[s]) + 1) :
     /\ \A i \in DOMAIN snaps[s] : snaps[s][i].version < v
     /\ v = 1 \/ \E i \in DOMAIN snaps[s] : snaps[s][i].version = v - 1}

-----------------------------------------------------------------------------
(* Statements.  Each fixes the next value of one table. *)

InsertSource(s) ==
  sources' = [sources EXCEPT ![s] = [NoSource EXCEPT !.state = "enabled"]]

\* UpdateState writes state and sealed_at together; only Seal passes a time.
UpdateState(s, state, sealedAt) ==
  sources' = [sources EXCEPT ![s] = [@ EXCEPT !.state = state, !.sealedAt = sealedAt]]

SetLastSeq(s, q) == sources' = [sources EXCEPT ![s].lastSeq = q]

SetRecoveryBaseline(s, q) == sources' = [sources EXCEPT ![s].baseline = q]

InsertWindow(s, q, x) ==
  windows' = [windows EXCEPT ![s][q] = [status |-> "new", anomaly |-> "", sample |-> x]]

UpdateStatus(s, q, status, anomaly) ==
  windows' = [windows EXCEPT ![s][q] = [@ EXCEPT !.status = status, !.anomaly = anomaly]]

InsertTest(s, q, c, passed) ==
  tests' = [tests EXCEPT ![s] = Append(@, [seq |-> q, category |-> c, passed |-> passed])]

InsertEvent(s, row) == events' = [events EXCEPT ![s] = Append(@, row)]

SetState(s, i, state, confirmedAt, closedAt) ==
  events' = [events EXCEPT ![s][i] =
               [@ EXCEPT !.state = state, !.confirmedAt = confirmedAt, !.closedAt = closedAt]]

UpdateRun(s, i, first, last, count, anomaly, after) ==
  events' = [events EXCEPT ![s][i] =
               [@ EXCEPT !.firstSeq = first, !.lastSeq = last, !.windowCount = count,
                         !.anomaly = anomaly, !.afterRestart = after]]

InsertRestart(s, at) == restarts' = [restarts EXCEPT ![s] = @ \cup {[atSeq |-> at]}]

InsertSnapshot(s, version, payload) ==
  snaps' = [snaps EXCEPT ![s] =
              Append(@, [version |-> version, state |-> "draft",
                         payload |-> payload, supersededBy |-> 0])]

PublishSnapshot(s, i) == snaps' = [snaps EXCEPT ![s][i].state = "published"]

SupersedeSnapshot(s, i, new) ==
  snaps' = [snaps EXCEPT ![s][i] = [@ EXCEPT !.state = "superseded", !.supersededBy = new]]
=============================================================================
