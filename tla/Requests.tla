------------------------------ MODULE Requests ------------------------------
(***************************************************************************)
(* The requests being served.  net/http runs every request in a goroutine  *)
(* of its own; p stands for one such goroutine, pc[p] for the statement it *)
(* runs next and loc[p] for the local values it holds between statements.  *)
(* A request that is refused before it writes changes nothing and answers  *)
(* at once: it is a stuttering step and has no action.                     *)
(*                                                                         *)
(* A crash ends every goroutine and every mutex; the tables survive it.    *)
(***************************************************************************)
EXTENDS Database

CONSTANTS
  Procs,      \* the requests that can be in flight at once
  Ops,        \* the operations clients call
  Faults,     \* which of "crash" and "error" can happen
  MaxBatch    \* bound: the most windows in one batch request

VARIABLES
  pc,     \* pc[p]: the label of the next statement of p
  loc,    \* loc[p]: the locals of p
  lock    \* Ingestor.mu: lock[s] is the holder of the mutex of source s

procVars == <<pc, loc, lock>>
vars == <<sources, windows, tests, events, restarts, snaps, pc, loc, lock>>

AllOps == {"register", "ingest", "degrade", "isolate", "seal", "recover", "restart",
           "confirm", "close", "reevaluate", "draft", "publish", "supersede", "analysis"}

ASSUME RequestsAssumption ==
  /\ Procs # {}
  /\ None \notin Procs
  /\ Ops \subseteq AllOps
  /\ Faults \subseteq {"crash", "error"}
  /\ MaxBatch \in Nat \ {0}

\* One element of a batch; seq 0 stands for any number Validate rejects.
Item == [seq : 0..MaxSeq, sample : Samples]
Batches == UNION {[1..n -> Item] : n \in 1..MaxBatch}

Replies == {"none", "ok", "not_found", "sealed", "invalid", "conflict", "transition", "error"}

NoPayload == [state |-> "absent", baseline |-> NULL, baselineMissing |-> FALSE,
              total |-> 0, valid |-> 0, testFailures |-> [c \in Categories |-> 0],
              openEvents |-> {}]

Blank == [op |-> "none", src |-> None, reply |-> "none",
          \* Ingest: the window, the rest of the batch, the stale source state,
          \* the next test to store and what detection and the tests concluded
          seq |-> 0, sample |-> None, rest |-> <<>>, seen |-> "absent",
          test |-> 1, replay |-> FALSE, status |-> "none", anomaly |-> "",
          \* OnWindow: the run of anomalous windows
          runLen |-> 0, firstSeq |-> 0, after |-> FALSE,
          \* the event or snapshot row a handler has read
          row |-> 0, rowState |-> "none", confirmed |-> FALSE, closed |-> FALSE,
          \* the snapshot row Publish reads or Draft inserts
          snap |-> 0,
          \* Recovery.Confirm and Draft
          baseline |-> NULL, version |-> 0, payload |-> NoPayload]

Local == [op : AllOps \cup {"none"}, src : Sources \cup {None}, reply : Replies,
          seq : 0..MaxSeq, sample : Samples \cup {None}, rest : Seq(Item),
          seen : SourceStates \cup {"absent"}, test : 1..4, replay : BOOLEAN,
          status : WindowStatuses \cup {"none"}, anomaly : Anomalies \cup {""},
          runLen : Nat, firstSeq : 0..MaxSeq, after : BOOLEAN,
          row : Nat, rowState : EventStates \cup {"none"},
          confirmed : BOOLEAN, closed : BOOLEAN, snap : Nat,
          baseline : NULL..MaxSeq, version : Nat, payload : Payload]

RequestsInit ==
  /\ pc   = [p \in Procs |-> "idle"]
  /\ loc  = [p \in Procs |-> Blank]
  /\ lock = [s \in Sources |-> None]

-----------------------------------------------------------------------------

At(p, l) == pc[p] = l
Goto(p, l) == pc' = [pc EXCEPT ![p] = l]

\* A new request for source s starts and has run its first statements.
Arrive(p, op, s, l, locals) ==
  /\ op \in Ops
  /\ At(p, "idle")
  /\ Goto(p, l)
  /\ loc' = [loc EXCEPT ![p] = locals]

Request(op, s) == [Blank EXCEPT !.op = op, !.src = s]

\* The handler returns.  Ingest does so with its mutex still held.
Answer(p, reply) ==
  \/ /\ loc[p].op = "ingest"
     /\ Goto(p, "done")
     /\ loc' = [loc EXCEPT ![p].reply = reply]
  \/ /\ loc[p].op # "ingest"
     /\ Goto(p, "idle")
     /\ loc' = [loc EXCEPT ![p] = Blank]

\* The statements whose error OnWindow ignores: LatestBefore, and OpenForSource
\* when the window is valid.  Their actions say what happens instead.
ErrorIgnored(p) == At(p, "restart") \/ (At(p, "open") /\ loc[p].status = "valid")

\* A statement of p fails.  The handler returns the error at once and undoes nothing.
Fail(p) ==
  /\ "error" \in Faults
  /\ pc[p] \notin {"idle", "lock", "done"}
  /\ ~ErrorIgnored(p)
  /\ Answer(p, "error")
  /\ UNCHANGED <<tables, lock>>

\* The process dies and is started again on the same database file.
Crash ==
  /\ "crash" \in Faults
  /\ pc'   = [p \in Procs |-> "idle"]
  /\ loc'  = [p \in Procs |-> Blank]
  /\ lock' = [s \in Sources |-> None]
  /\ UNCHANGED tables
=============================================================================
