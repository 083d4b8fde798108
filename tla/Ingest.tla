------------------------------- MODULE Ingest -------------------------------
(***************************************************************************)
(* internal/ingest and the evaluator it calls: one window at a time per    *)
(* source, under the mutex of that source, through nine statements or      *)
(* more.  No statement is undone when a later one fails.  "done" is the    *)
(* deferred unlock.                                                        *)
(***************************************************************************)
EXTENDS Isolate, Correlator

\* POST /api/windows (one item) or /api/windows/batch.
Submit(p, s) ==
  \E batch \in Batches :
    /\ Arrive(p, "ingest", s, "lock",
              [Request("ingest", s) EXCEPT !.seq = batch[1].seq,
                                           !.sample = batch[1].sample,
                                           !.rest = Tail(batch)])
    /\ UNCHANGED <<tables, lock>>

\* Variant: lockFor makes a mutex of its own for every request.
AcquireUnshared(p) ==
  /\ At(p, "lock")
  /\ lock' = [lock EXCEPT ![loc[p].src] = p]
  /\ Goto(p, "get")
  /\ UNCHANGED <<tables, loc>>

Acquire(p) ==
  /\ At(p, "lock")
  /\ lock[loc[p].src] = None
  /\ lock' = [lock EXCEPT ![loc[p].src] = p]
  /\ Goto(p, "get")
  /\ UNCHANGED <<tables, loc>>

\* Validate of a window.
ValidWindow(q, x) == q > 0 /\ x \in WellSized

\* Variants: a sealed source, or an old number, is let through.
VerdictUnsealed(source, q, x) ==
  IF source.state = "absent" THEN "not_found"
  ELSE IF ~ValidWindow(q, x) THEN "invalid"
  ELSE IF q <= source.lastSeq THEN "conflict" ELSE "none"
VerdictUnordered(source, q, x) ==
  IF source.state = "absent" THEN "not_found"
  ELSE IF source.state = "sealed" THEN "sealed"
  ELSE IF ~ValidWindow(q, x) THEN "invalid" ELSE "none"

\* What Ingest answers on reading the source; "none" lets the window through.
Verdict(source, q, x) ==
  CASE source.state = "absent"  -> "not_found"
    [] source.state = "sealed"  -> "sealed"
    [] OTHER -> IF ~ValidWindow(q, x) THEN "invalid"
                ELSE IF q <= source.lastSeq THEN "conflict" ELSE "none"

Refuse(p) ==
  /\ At(p, "get")
  /\ LET verdict == Verdict(sources[loc[p].src], loc[p].seq, loc[p].sample)
     IN  verdict # "none" /\ Answer(p, verdict)
  /\ UNCHANGED <<tables, lock>>

Admit(p) ==
  /\ At(p, "get")
  /\ Verdict(sources[loc[p].src], loc[p].seq, loc[p].sample) = "none"
  /\ loc' = [loc EXCEPT ![p].seen = sources[loc[p].src].state]
  /\ Goto(p, "create")
  /\ UNCHANGED <<tables, lock>>

\* Variant: only the previous window counts.
PrevHashOnly(s, q) == {{windows[s][r].sample : r \in PrevWindow(s)}}

\* The samples prevHash and recentHashes return; each ignores its error.  They
\* are read in the step of the INSERT: only the holder of the mutex inserts.
Hashes(s, q) ==
  LET read(rows) == IF "error" \in Faults THEN {rows, {}} ELSE {rows}
  IN  {{windows[s][r].sample : r \in prev \cup recent} :
         prev \in read(PrevWindow(s)), recent \in read(RecentWindows(s, q - 1, Lookback))}

CreateWindow(p) ==
  /\ At(p, "create")
  /\ loc[p].seq \notin Recorded(loc[p].src)
  /\ \E hashes \in Hashes(loc[p].src, loc[p].seq) :
       loc' = [loc EXCEPT ![p] = [@ EXCEPT !.replay = IsReplay(loc[p].sample, hashes),
                                           !.test = 1]]
  /\ InsertWindow(loc[p].src, loc[p].seq, loc[p].sample)
  /\ Goto(p, "evaluate")
  /\ UNCHANGED <<notWindows, lock>>

\* Variant: INSERT OR IGNORE, and the window is evaluated once more.
CreateIgnored(p) ==
  /\ At(p, "create")
  /\ loc[p].seq \in Recorded(loc[p].src)
  /\ Goto(p, "evaluate")
  /\ UNCHANGED <<tables, loc, lock>>

\* The unique index on (source, seq).
CreateConflict(p) ==
  /\ At(p, "create")
  /\ loc[p].seq \in Recorded(loc[p].src)
  /\ Answer(p, "conflict")
  /\ UNCHANGED <<tables, lock>>

\* Variant: the status is never written.
StoreTestOnly(p) ==
  /\ At(p, "evaluate")
  /\ LET category == RunOrder[loc[p].test]
     IN  InsertTest(loc[p].src, loc[p].seq, category, category \notin FailedBy[loc[p].sample])
  /\ IF loc[p].test < Len(RunOrder)
     THEN loc' = [loc EXCEPT ![p].test = @ + 1] /\ UNCHANGED pc
     ELSE UNCHANGED loc /\ Goto(p, "lastseq")
  /\ UNCHANGED <<notTests, lock>>

\* Evaluate stores the results one by one.
StoreTest(p) ==
  /\ At(p, "evaluate")
  /\ LET category == RunOrder[loc[p].test]
     IN  InsertTest(loc[p].src, loc[p].seq, category, category \notin FailedBy[loc[p].sample])
  /\ \/ /\ loc[p].test < Len(RunOrder)
        /\ loc' = [loc EXCEPT ![p].test = @ + 1]
        /\ UNCHANGED pc
     \/ /\ loc[p].test = Len(RunOrder)
        /\ UNCHANGED loc
        /\ Goto(p, "status")
  /\ UNCHANGED <<notTests, lock>>

StoreStatus(p) ==
  LET status  == ResolvedStatus(loc[p].replay, loc[p].sample)
      anomaly == ResolvedAnomaly(loc[p].replay, loc[p].sample)
  IN  /\ At(p, "status")
      /\ UpdateStatus(loc[p].src, loc[p].seq, status, anomaly)
      /\ loc' = [loc EXCEPT ![p] = [@ EXCEPT !.status = status, !.anomaly = anomaly]]
      /\ Goto(p, "lastseq")
      /\ UNCHANGED <<notWindows, lock>>

\* Variant: the call to Observe is missing.
StoreLastSeqOnly(p) ==
  /\ At(p, "lastseq")
  /\ SetLastSeq(loc[p].src, loc[p].seq)
  /\ Goto(p, "recent")
  /\ UNCHANGED <<notSources, loc, lock>>

\* Variant: only the first window of a source calls Observe.
StoreFirstSeq(p) ==
  /\ At(p, "lastseq")
  /\ SetLastSeq(loc[p].src, loc[p].seq)
  /\ Goto(p, IF sources[loc[p].src].lastSeq = 0 /\ loc[p].seen = "enabled"
             THEN "observe" ELSE "recent")
  /\ UNCHANGED <<notSources, loc, lock>>

StoreLastSeq(p) ==
  /\ At(p, "lastseq")
  /\ SetLastSeq(loc[p].src, loc[p].seq)
  /\ Goto(p, IF loc[p].seen = "enabled" THEN "observe" ELSE "recent")
  /\ UNCHANGED <<notSources, loc, lock>>

\* Variant: the unlock is not deferred, and an early return skips it.
ReturnLocked(p) ==
  /\ At(p, "done")
  /\ lock' = IF loc[p].reply = "ok" THEN [lock EXCEPT ![loc[p].src] = None] ELSE lock
  /\ loc' = [loc EXCEPT ![p] = Blank]
  /\ Goto(p, "idle")
  /\ UNCHANGED tables

\* The deferred unlock; Batch then goes on to its next item, whatever the answer.
Return(p) ==
  /\ At(p, "done")
  /\ lock' = [lock EXCEPT ![loc[p].src] = None]
  /\ \/ /\ loc[p].rest = <<>>
        /\ loc' = [loc EXCEPT ![p] = Blank]
        /\ Goto(p, "idle")
     \/ /\ loc[p].rest # <<>>
        /\ loc' = [loc EXCEPT ![p] =
                     [Request("ingest", loc[p].src) EXCEPT !.seq = Head(loc[p].rest).seq,
                                                           !.sample = Head(loc[p].rest).sample,
                                                           !.rest = Tail(loc[p].rest)]]
        /\ Goto(p, "lock")
  /\ UNCHANGED tables

IngestStep(p) ==
  \/ Acquire(p) \/ Refuse(p) \/ Admit(p) \/ CreateWindow(p) \/ CreateConflict(p)
  \/ StoreTest(p) \/ StoreStatus(p) \/ StoreLastSeq(p) \/ Return(p)
=============================================================================
