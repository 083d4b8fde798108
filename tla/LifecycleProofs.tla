--------------------------- MODULE LifecycleProofs ---------------------------
(***************************************************************************)
(* Snapshots, recovery baselines and the last states of sources and        *)
(* events: what the service promises of them, for every value of the       *)
(* constants.                                                              *)
(***************************************************************************)
EXTENDS EventProofs, OnceProofs

-----------------------------------------------------------------------------
(* The evidence chain: Supersede holds the row it replaces and, once it    *)
(* has inserted it, the row that takes its place.                          *)

DraftLabels == {"snap_source", "snap_windows", "snap_tests", "snap_events", "snap_insert"}
ReplaceLabels == {"snap_publish", "snap_supersede"}

SnapInv(p) ==
  LET s == loc[p].src
      row == loc[p].row
      snap == loc[p].snap
  IN  /\ pc[p] \in ReplaceLabels => snap \in DOMAIN snaps[s]
      /\ loc[p].op = "supersede" =>
           /\ pc[p] \in {"snap_version"} \cup DraftLabels \cup ReplaceLabels => row \in DOMAIN snaps[s]
           /\ pc[p] \in DraftLabels => loc[p].version > snaps[s][row].version
           /\ pc[p] \in ReplaceLabels =>
                snap > row /\ snaps[s][snap].version > snaps[s][row].version
      /\ pc[p] = "snap_supersede" => snaps[s][snap].state # "draft"

\* Snapshots are not deleted, keep their version and do not become drafts again.
SnapsStay(s) ==
  \A i \in DOMAIN snaps[s] :
    /\ i \in DOMAIN snaps'[s]
    /\ snaps'[s][i].version = snaps[s][i].version
    /\ snaps[s][i].state # "draft" => snaps'[s][i].state # "draft"

LEMMA SnapsKept ==
  ASSUME IInv, NEW p \in Procs, Accept(p) \/ Acts(p), NEW s \in Sources
  PROVE  SnapsStay(s)
<1>1. Typed
  BY DEF IInv
<1>2. CASE Accept(p)
  BY <1>1, <1>2, Accepted DEF tables, SnapsStay
<1>3. CASE Acts(p)
  BY <1>1, <1>3, SnapSteps DEF SnapsStay
<1> QED BY <1>2, <1>3

LEMMA SnapStarts ==
  ASSUME IInv, NEW p \in Procs, Accept(p)
  PROVE  SnapInv(p)'
<1>1. Typed /\ UNCHANGED snaps
  BY Accepted DEF IInv, tables
<1>2. CASE pc'[p] = "snap_publish"
  <2>1. PICK s \in Sources : Publish(p, s) /\ Starts(p, "publish", s, "snap_publish", {"snap"})
    BY <1>1, <1>2, Accepted DEF Starts
  <2>2. loc'[p].src = s /\ loc'[p].op = "publish" /\ loc'[p].snap \in DOMAIN snaps[s]
    BY <1>1, <2>1, RequestSets DEF Starts
  <2> QED BY <1>1, <1>2, <2>2 DEF SnapInv
<1>3. CASE pc'[p] = "snap_version" /\ loc'[p].op = "supersede"
  <2>1. PICK s \in Sources : Supersede(p, s) /\ Starts(p, "supersede", s, "snap_version", {"row"})
    BY <1>1, <1>3, Accepted DEF Starts
  <2>2. loc'[p].src = s /\ loc'[p].row \in DOMAIN snaps[s]
    BY <1>1, <2>1, RequestSets DEF Starts
  <2> QED BY <1>1, <1>3, <2>2 DEF SnapInv, DraftLabels, ReplaceLabels
<1>4. CASE pc'[p] # "snap_publish" /\ ~(pc'[p] = "snap_version" /\ loc'[p].op = "supersede")
  <2>1. /\ pc'[p] \notin ReplaceLabels
        /\ loc'[p].op = "supersede" => pc'[p] \notin {"snap_version"} \cup DraftLabels
    BY <1>1, <1>4, Accepted DEF Starts, DraftLabels, ReplaceLabels
  <2> QED BY <2>1 DEF SnapInv, DraftLabels, ReplaceLabels
<1> QED BY <1>2, <1>3, <1>4

LEMMA SnapStep ==
  ASSUME IInv, Roles, NEW p \in Procs, SnapInv(p), Acts(p)
  PROVE  SnapInv(p)'
<1>0. Typed /\ pc[p] # "idle" /\ loc[p].src \in Sources
  BY Busy, LocalTyped DEF IInv, LocalsFit
<1>1. PICK s \in Sources : s = loc[p].src
  BY <1>0
<1>2. SnapsStay(s)
  BY SnapsKept
<1>3. CASE pc'[p] \in DraftLabels
  <2>1. loc'[p].op = loc[p].op /\ loc'[p].src = s /\ loc'[p].row = loc[p].row
    <3>1. ~FindSettled(p) /\ ~FindOpenEvent(p)
      BY <1>0, <1>3, GoesTo DEF FindSettled, FindOpenEvent, DraftLabels
    <3> QED BY <1>0, <1>1, <1>3, <3>1, Kept DEF DraftLabels
  <2>2. pc[p] \in {"snap_version"} \cup DraftLabels
    BY <1>0, <1>3, Paths DEF DraftLabels, ReadVersion, ReadSource, ReadWindows, ReadTests, ReadEvents, At
  <2>3. loc[p].op = "supersede" =>
          loc[p].row \in DOMAIN snaps[s] /\ loc'[p].version > snaps[s][loc[p].row].version
    <3>1. CASE ReadVersion(p)
      <4>1. loc'[p].version \in NextVersion(s)
        BY <1>0, <1>1, <3>1, ReadVersionSets
      <4>2. loc'[p].version \in Int /\ \A i \in DOMAIN snaps[s] : snaps[s][i].version < loc'[p].version
        BY <4>1 DEF NextVersion
      <4>3. \A i \in DOMAIN snaps[s] : snaps[s][i].version \in Int
        <5>1. snaps[s] \in Seq(SnapRow)
          BY <1>0, <1>1, TablesTyped
        <5>2. \A i \in DOMAIN snaps[s] : snaps[s][i] \in SnapRow
          BY <5>1
        <5> QED BY <5>2 DEF SnapRow
      <4> QED BY <1>1, <2>2, <4>2, <4>3 DEF SnapInv
    <3>2. CASE ~ReadVersion(p)
      <4>1. pc[p] \in DraftLabels
        BY <1>0, <1>3, <3>2, Paths DEF DraftLabels, ReadSource, ReadWindows, ReadTests, ReadEvents, At
      <4>2. loc'[p].version = loc[p].version
        BY <1>0, <1>3, <3>2, Kept DEF DraftLabels
      <4> QED BY <1>1, <4>1, <4>2 DEF SnapInv
    <3> QED BY <3>1, <3>2
  <2> QED BY <1>2, <1>3, <2>1, <2>3 DEF SnapInv, SnapsStay, DraftLabels, ReplaceLabels
<1>4. CASE pc'[p] = "snap_publish"
  <2>1. InsertDraft(p) /\ loc'[p].op = loc[p].op /\ loc'[p].src = s /\ loc'[p].row = loc[p].row
    <3>1. ~FindSettled(p) /\ ~FindOpenEvent(p)
      BY <1>0, <1>4, GoesTo DEF FindSettled, FindOpenEvent
    <3> QED BY <1>0, <1>1, <1>4, <3>1, Paths, Kept
  <2>2. loc[p].op = "supersede" /\ loc'[p].snap = Len(snaps[s]) + 1
    BY <1>0, <1>1, <1>4, <2>1, InsertDraftSets
  <2>3. loc[p].row \in DOMAIN snaps[s] /\ loc[p].version > snaps[s][loc[p].row].version
    BY <1>1, <2>1, <2>2 DEF SnapInv, InsertDraft, At, DraftLabels
  <2>4. InsertSnapshot(s, loc[p].version, loc[p].payload)
    BY <1>1, <2>1 DEF InsertDraft
  <2>5. /\ Len(snaps[s]) \in Nat
        /\ DOMAIN snaps[s] = 1..Len(snaps[s])
        /\ DOMAIN snaps'[s] = 1..(Len(snaps[s]) + 1)
        /\ \A i \in DOMAIN snaps[s] : snaps'[s][i] = snaps[s][i]
        /\ snaps'[s][Len(snaps[s]) + 1].version = loc[p].version
    BY <1>0, <2>4, SnapInserted
  <2>6. /\ loc'[p].snap \in DOMAIN snaps'[s] /\ loc'[p].row \in DOMAIN snaps'[s]
        /\ loc'[p].snap > loc'[p].row
        /\ snaps'[s][loc'[p].snap].version > snaps'[s][loc'[p].row].version
    BY <2>1, <2>2, <2>3, <2>5
  <2> QED BY <1>4, <2>1, <2>6 DEF SnapInv, DraftLabels, ReplaceLabels
<1>5. CASE pc'[p] = "snap_supersede"
  <2>1. SetPublished(p) /\ pc[p] = "snap_publish"
    BY <1>0, <1>5, Paths DEF SetPublished, At
  <2>2. /\ loc'[p].op = loc[p].op /\ loc'[p].src = s /\ loc'[p].row = loc[p].row
        /\ loc'[p].snap = loc[p].snap
    BY <1>0, <1>1, <1>5, <2>1, Kept DEF FindSettled, FindOpenEvent, InsertDraft, At
  <2>3. loc[p].snap \in DOMAIN snaps[s]
    BY <1>1, <2>1 DEF SnapInv, ReplaceLabels
  <2>4. snaps'[s][loc[p].snap].state # "draft"
    BY <1>0, <1>1, <2>1, <2>3, SnapPublished DEF SetPublished
  <2> QED
    BY <1>1, <1>2, <1>5, <2>1, <2>2, <2>3, <2>4 DEF SnapInv, SnapsStay, DraftLabels, ReplaceLabels
<1>6. CASE pc'[p] \notin DraftLabels \cup ReplaceLabels
  <2>1. pc'[p] # "snap_version"
    BY <1>0, Paths
  <2> QED BY <1>6, <2>1 DEF SnapInv, DraftLabels, ReplaceLabels
<1> QED BY <1>3, <1>4, <1>5, <1>6 DEF ReplaceLabels

LEMMA SnapUndisturbed ==
  ASSUME IInv, NEW p \in Procs, NEW r \in Procs, r # p, SnapInv(r), Accept(p) \/ Acts(p)
  PROVE  SnapInv(r)'
<1>1. Typed /\ pc'[r] = pc[r] /\ loc'[r] = loc[r]
  BY AloneAndGrowing DEF IInv, Moves
<1>2. CASE pc[r] \in {"snap_version"} \cup DraftLabels \cup ReplaceLabels
  <2>1. loc[r].src \in Sources
    BY <1>1, <1>2, LocalTyped DEF LocalsFit, DraftLabels, ReplaceLabels
  <2>2. SnapsStay(loc[r].src)
    BY <2>1, SnapsKept
  <2> QED BY <1>1, <2>2 DEF SnapInv, SnapsStay, DraftLabels, ReplaceLabels
<1>3. CASE pc[r] \notin {"snap_version"} \cup DraftLabels \cup ReplaceLabels
  BY <1>1, <1>3 DEF SnapInv, DraftLabels, ReplaceLabels
<1> QED BY <1>2, <1>3

LEMMA ChainStep ==
  ASSUME IInv, Roles, EvidenceChain, NEW p \in Procs, SnapInv(p), Accept(p) \/ Acts(p)
  PROVE  EvidenceChain'
<1>0. Typed
  BY DEF IInv
<1> SUFFICES ASSUME NEW s \in Sources, NEW i \in DOMAIN snaps'[s],
                    snaps'[s][i].state = "superseded"
             PROVE  LET n == snaps'[s][i].supersededBy IN
                    /\ n \in DOMAIN snaps'[s]
                    /\ n > i
                    /\ snaps'[s][n].version > snaps'[s][i].version
                    /\ snaps'[s][n].state # "draft"
  BY DEF EvidenceChain
<1>1. SnapsStay(s)
  BY SnapsKept
<1>2. CASE i \in DOMAIN snaps[s] /\ snaps'[s][i] = snaps[s][i]
  BY <1>1, <1>2 DEF EvidenceChain, SnapsStay
<1>3. CASE i \in DOMAIN snaps[s] /\ SetSuperseded(p) /\ s = loc[p].src /\ i = loc[p].row
           /\ snaps'[s][i].supersededBy = loc[p].snap
  <2>1. pc[p] = "snap_supersede" /\ loc[p].op = "supersede"
    BY <1>3 DEF SetSuperseded, At, Roles, Role
  <2>2. /\ loc[p].snap \in DOMAIN snaps[s] /\ loc[p].snap > i
        /\ snaps[s][loc[p].snap].version > snaps[s][i].version
        /\ snaps[s][loc[p].snap].state # "draft"
    BY <1>3, <2>1 DEF SnapInv, ReplaceLabels
  <2> QED BY <1>1, <1>3, <2>2 DEF SnapsStay
<1>4. CASE Accept(p)
  BY <1>0, <1>2, <1>4, Accepted DEF tables
<1>5. CASE Acts(p)
  <2>1. i \in DOMAIN snaps[s]
    BY <1>0, <1>5, SnapSteps
  <2> QED BY <1>0, <1>2, <1>3, <1>5, <2>1, SnapSteps
<1> QED BY <1>4, <1>5

LEMMA ChainKept ==
  ASSUME IInv, Roles, EvidenceChain, \A p \in Procs : SnapInv(p), [Next]_vars
  PROVE  EvidenceChain' /\ \A p \in Procs : SnapInv(p)'
<1>1. ASSUME NEW p \in Procs, Accept(p) \/ Acts(p), NEW r \in Procs PROVE SnapInv(r)'
  BY <1>1, SnapStarts, SnapStep, SnapUndisturbed
<1>2. ASSUME NEW p \in Procs, Accept(p) \/ Acts(p) PROVE EvidenceChain'
  BY <1>2, ChainStep
<1>3. CASE Crash
  BY <1>3 DEF Crash, tables, EvidenceChain, SnapInv, DraftLabels, ReplaceLabels
<1>4. CASE UNCHANGED vars
  BY <1>4 DEF vars, EvidenceChain, SnapInv
<1> QED BY <1>1, <1>2, <1>3, <1>4 DEF Next, Acts

\* A superseded snapshot points to a later one of a higher version that is published or
\* superseded itself, however many requests draft, publish and supersede at once.
THEOREM SupersededIsReplaced == Spec => []EvidenceChain
<1> DEFINE Inv == EvidenceChain /\ \A p \in Procs : SnapInv(p)
<1>1. Init => Inv
  BY DEF Init, DatabaseInit, RequestsInit, EvidenceChain, SnapInv, DraftLabels, ReplaceLabels
<1>2. IInv /\ Roles /\ Inv /\ [Next]_vars => Inv'
  BY ChainKept
<1>3. Inv => EvidenceChain
  OBVIOUS
<1> HIDE DEF Inv
<1> QED BY <1>1, <1>2, <1>3, IngestInvariant, RolesInvariant, PTL DEF Spec

-----------------------------------------------------------------------------
(* Recovery baselines: without re-evaluation a valid window stays valid,   *)
(* because a window is given its status once, by the request that stored   *)
(* it.                                                                     *)

\* A window under evaluation is the one its request has stored.
NewInv(p) ==
  pc[p] \in {"evaluate", "status"} => windows[loc[p].src][loc[p].seq].status = "new"

ValidStay(s) == \A q \in Seqs : windows[s][q].status = "valid" => windows'[s][q].status = "valid"

LEMMA ValidKept ==
  ASSUME "reevaluate" \notin Ops, IInv, Roles, NEW p \in Procs, NewInv(p), Accept(p) \/ Acts(p),
         NEW s \in Sources
  PROVE  ValidStay(s)
<1> SUFFICES ASSUME NEW q \in Seqs, windows[s][q].status = "valid"
             PROVE  windows'[s][q].status = "valid"
  BY DEF ValidStay
<1>1. CASE s = loc[p].src /\ q = loc[p].seq /\ CreateWindow(p)
  BY <1>1 DEF CreateWindow, Recorded
<1>2. CASE s = loc[p].src /\ q = loc[p].seq /\ StoreStatus(p)
  BY <1>2 DEF StoreStatus, At, NewInv
<1> QED BY <1>1, <1>2, WindowSteps

LEMMA NewStep ==
  ASSUME "reevaluate" \notin Ops, IInv, Roles, NEW p \in Procs, NewInv(p), Accept(p) \/ Acts(p)
  PROVE  NewInv(p)'
<1> SUFFICES ASSUME pc'[p] \in {"evaluate", "status"}
             PROVE  windows'[loc'[p].src][loc'[p].seq].status = "new"
  BY DEF NewInv
<1>1. Typed /\ Acts(p)
  BY Accepted DEF IInv, Starts
<1>2. CreateWindow(p) \/ StoreTest(p)
  BY <1>1, Paths
<1>3. /\ loc'[p].src = loc[p].src /\ loc'[p].seq = loc[p].seq
      /\ loc[p].src \in Sources /\ loc[p].seq \in Seqs
  BY <1>1, <1>2, Kept, InsideIngest DEF CreateWindow, StoreTest, At, UnconfirmedLabels
<1>4. CASE CreateWindow(p)
  BY <1>1, <1>3, <1>4, WindowInserted DEF CreateWindow
<1>5. CASE StoreTest(p)
  BY <1>3, <1>5 DEF StoreTest, At, notTests, NewInv
<1> QED BY <1>2, <1>4, <1>5

LEMMA NewUndisturbed ==
  ASSUME "reevaluate" \notin Ops, IInv, Roles, NEW p \in Procs, NEW r \in Procs, r # p, NewInv(r),
         Accept(p) \/ Acts(p)
  PROVE  NewInv(r)'
<1>1. pc'[r] = pc[r] /\ loc'[r] = loc[r]
  BY AloneAndGrowing DEF Moves
<1>2. CASE pc[r] \in {"evaluate", "status"}
  <2>1. Inside(r) /\ loc[r].src \in Sources /\ loc[r].seq \in Seqs
    BY <1>2, InsideIngest DEF UnconfirmedLabels
  <2>2. ~(loc[r].src = loc[p].src /\ Inside(p))
    BY <2>1, OneInside
  <2> QED BY <1>1, <2>1, <2>2, WindowSteps DEF NewInv
<1>3. CASE pc[r] \notin {"evaluate", "status"}
  BY <1>1, <1>3 DEF NewInv
<1> QED BY <1>2, <1>3

News == \A p \in Procs : NewInv(p)

LEMMA NewsInvariant ==
  ASSUME "reevaluate" \notin Ops
  PROVE  Spec => []News
<1>1. Init => News
  BY DEF Init, RequestsInit, News, NewInv
<1>2. ASSUME IInv, Roles, News, [Next]_vars PROVE News'
  <2>1. ASSUME NEW p \in Procs, Accept(p) \/ Acts(p), NEW r \in Procs PROVE NewInv(r)'
    BY <1>2, <2>1, NewStep, NewUndisturbed DEF News
  <2>2. CASE Crash
    BY <2>2 DEF Crash, News, NewInv
  <2>3. CASE UNCHANGED vars
    BY <1>2, <2>3 DEF vars, News, NewInv
  <2> QED BY <1>2, <2>1, <2>2, <2>3 DEF Next, Acts, News
<1> QED BY <1>1, <1>2, IngestInvariant, RolesInvariant, PTL DEF Spec

\* A baseline that is neither missing nor 0 is a valid window.
Sound(s, baseline) ==
  baseline \notin {NULL, 0} => baseline \in Seqs /\ windows[s][baseline].status = "valid"

CountedLabels == {"snap_tests", "snap_events", "snap_insert", "view_restarts"}

BaseInv(p) ==
  LET l == loc[p] IN
  /\ pc[p] \in {"set_observing", "set_baseline"} => Sound(l.src, l.baseline)
  /\ pc[p] = "snap_windows" => Sound(l.src, l.payload.baseline)
  /\ pc[p] \in CountedLabels /\ l.payload.baseline \notin {NULL, 0} => l.payload.valid > 0

BaselinesSound == \A s \in Sources : Sound(s, sources[s].baseline)

LEMMA BaselinesStep ==
  ASSUME IInv, BaselinesSound, NEW p \in Procs, BaseInv(p), Accept(p) \/ Acts(p),
         \A s \in Sources : ValidStay(s)
  PROVE  BaselinesSound'
<1>0. Typed
  BY DEF IInv
<1> SUFFICES ASSUME NEW s \in Sources, sources'[s].baseline \notin {NULL, 0}
             PROVE  /\ sources'[s].baseline \in Seqs
                    /\ windows'[s][sources'[s].baseline].status = "valid"
  BY DEF BaselinesSound, Sound
<1>1. CASE sources'[s].baseline = sources[s].baseline
  BY <1>1 DEF BaselinesSound, Sound, ValidStay
<1>2. CASE s = loc[p].src /\ SetBaseline(p) /\ sources'[s].baseline = loc[p].baseline
  <2>1. Sound(s, loc[p].baseline)
    BY <1>2 DEF SetBaseline, At, BaseInv
  <2> QED BY <1>2, <2>1 DEF Sound, ValidStay
<1>3. CASE Accept(p)
  BY <1>0, <1>1, <1>3, Accepted DEF tables
<1>4. CASE Acts(p)
  BY <1>1, <1>2, <1>4, SourceSteps
<1> QED BY <1>3, <1>4

\* The evidence read so far.
LEMMA EvidenceReads ==
  ASSUME Typed, BaselinesSound, NEW p \in Procs, BaseInv(p), Acts(p)
  PROVE  /\ ReadSource(p) => Sound(loc[p].src, loc'[p].payload.baseline)
         /\ ReadWindows(p) /\ loc'[p].payload.baseline \notin {NULL, 0} => loc'[p].payload.valid > 0
         /\ ReadTests(p) \/ ReadEvents(p) =>
              /\ loc'[p].payload.baseline = loc[p].payload.baseline
              /\ loc'[p].payload.valid = loc[p].payload.valid
<1>1. loc[p].payload \in Payload /\ loc[p].src \in Sources
  BY Busy, LocalFields, LocalTyped DEF Local, LocalsFit
<1>2. /\ "state" \in DOMAIN loc[p].payload /\ "baseline" \in DOMAIN loc[p].payload
      /\ "total" \in DOMAIN loc[p].payload /\ "valid" \in DOMAIN loc[p].payload
  BY <1>1 DEF Payload
<1>3. ASSUME ReadSource(p) PROVE Sound(loc[p].src, loc'[p].payload.baseline)
  <2>1. loc'[p].payload.baseline = sources[loc[p].src].baseline
    <3> DEFINE st == sources[loc[p].src].state
               b == sources[loc[p].src].baseline
               frozen == [loc[p].payload EXCEPT !.state = st, !.baseline = b]
    <3>1. FreezeIn(p, frozen)
      BY <1>3 DEF ReadSource
    <3> HIDE DEF st, b
    <3>2. loc'[p].payload = frozen
      BY <3>1, FreezeSets
    <3>3. loc'[p].payload.baseline = b
      BY <1>2, <3>2
    <3> QED BY <3>3 DEF b
  <2> QED BY <1>1, <2>1 DEF BaselinesSound
<1>4. ASSUME ReadWindows(p), loc'[p].payload.baseline \notin {NULL, 0}
      PROVE  loc'[p].payload.valid > 0
  <2> DEFINE n == Cardinality(ValidSeqs(loc[p].src))
             total == Cardinality(Recorded(loc[p].src))
             frozen == [loc[p].payload EXCEPT !.total = total, !.valid = n,
                          !.baselineMissing = (loc[p].payload.baseline = NULL /\ total > 0)]
  <2>1. FreezeIn(p, frozen)
    BY <1>4 DEF ReadWindows
  <2> HIDE DEF n, total
  <2>2. loc'[p].payload = frozen
    BY <2>1, FreezeSets
  <2>3. loc'[p].payload.valid = n /\ loc'[p].payload.baseline = loc[p].payload.baseline
    BY <1>2, <2>2
  <2>4. loc[p].payload.baseline \in ValidSeqs(loc[p].src)
    BY <1>4, <2>3 DEF ReadWindows, At, BaseInv, Sound, ValidSeqs
  <2>5. IsFiniteSet(ValidSeqs(loc[p].src))
    <3>1. ValidSeqs(loc[p].src) \subseteq 1..MaxSeq
      BY DEF ValidSeqs, Seqs
    <3>2. IsFiniteSet(1..MaxSeq)
      BY DomainAssumption, FS_Interval
    <3> QED BY <3>1, <3>2, FS_Subset
  <2>6. n \in Nat /\ n # 0
    BY <2>4, <2>5, FS_CardinalityType, FS_EmptySet DEF n
  <2> QED BY <2>3, <2>6
<1>5. ASSUME ReadTests(p) \/ ReadEvents(p)
      PROVE  /\ loc'[p].payload.baseline = loc[p].payload.baseline
             /\ loc'[p].payload.valid = loc[p].payload.valid
  <2>1. CASE ReadTests(p)
    <3> DEFINE frozen == [loc[p].payload EXCEPT !.testFailures = SummaryForSource(loc[p].src)]
    <3>1. loc'[p].payload = frozen
      BY <2>1, FreezeSets DEF ReadTests
    <3> QED BY <1>2, <3>1
  <2>2. CASE ReadEvents(p)
    <3> DEFINE frozen == [loc[p].payload EXCEPT
                            !.openEvents = {i \in ListEvents(loc[p].src) : Open(loc[p].src, i)}]
    <3>1. loc'[p].payload = frozen
      BY <2>2, FreezeSets DEF ReadEvents
    <3> QED BY <1>2, <3>1
  <2> QED BY <1>5, <2>1, <2>2
<1> QED BY <1>3, <1>4, <1>5

LEMMA BaseStep ==
  ASSUME IInv, BaselinesSound, NEW p \in Procs, BaseInv(p), Accept(p) \/ Acts(p),
         \A s \in Sources : ValidStay(s)
  PROVE  BaseInv(p)'
<1>0. Typed
  BY DEF IInv
<1>1. CASE pc'[p] \notin {"set_observing", "set_baseline", "snap_windows"} \cup CountedLabels
  BY <1>1 DEF BaseInv
<1>2. CASE pc'[p] \in {"set_observing", "set_baseline", "snap_windows"} \cup CountedLabels
  <2>1. Acts(p)
    BY <1>0, <1>2, Accepted DEF Starts, CountedLabels
  <2>2. pc'[p] \notin {"idle", "lock"}
    BY <1>2 DEF CountedLabels
  <2>3. loc'[p].src = loc[p].src /\ loc[p].src \in Sources
    BY <1>0, <2>1, <2>2, Kept, Busy, LocalTyped DEF LocalsFit
  <2>4. PICK s \in Sources : s = loc[p].src
    BY <2>3
  <2>5. ASSUME NEW b, Sound(s, b) PROVE b \notin {NULL, 0} => b \in Seqs /\ windows'[s][b].status = "valid"
    BY <2>5 DEF Sound, ValidStay
  <2>6. ASSUME pc'[p] \in {"set_observing", "set_baseline"} PROVE Sound(s, loc'[p].baseline)
    <3>1. CASE ReadBaseline(p)
      <4>1. loc'[p].baseline \in LatestValidSeq(s)
        BY <1>0, <2>4, <3>1, ReadBaselineSets
      <4> QED BY <4>1 DEF LatestValidSeq, ValidSeqs, Sound
    <3>2. CASE SetRecovered(p)
      <4>1. loc'[p].baseline = loc[p].baseline
        BY <1>0, <2>1, <2>2, <3>2, Kept DEF SetRecovered, ReadBaseline, WriteState, At
      <4> QED BY <2>4, <3>2, <4>1 DEF SetRecovered, WriteState, At, BaseInv
    <3> QED BY <1>0, <2>1, <2>6, <3>1, <3>2, Paths
  <2>7. ASSUME pc'[p] = "snap_windows" PROVE Sound(s, loc'[p].payload.baseline)
    BY <1>0, <2>1, <2>4, <2>7, Paths, EvidenceReads
  <2>8. ASSUME pc'[p] \in CountedLabels, loc'[p].payload.baseline \notin {NULL, 0}
        PROVE  loc'[p].payload.valid > 0
    <3>1. ReadWindows(p) \/ ReadTests(p) \/ ReadEvents(p)
      BY <1>0, <2>1, <2>8, Paths DEF CountedLabels
    <3>2. CASE ReadWindows(p)
      BY <1>0, <2>1, <2>8, <3>2, EvidenceReads
    <3>3. CASE ReadTests(p) \/ ReadEvents(p)
      <4>1. pc[p] \in CountedLabels
        BY <3>3 DEF ReadTests, ReadEvents, At, CountedLabels
      <4> QED BY <1>0, <2>1, <2>8, <3>3, <4>1, EvidenceReads DEF BaseInv
    <3> QED BY <3>1, <3>2, <3>3
  <2> QED BY <2>3, <2>4, <2>5, <2>6, <2>7, <2>8 DEF BaseInv, Sound
<1> QED BY <1>1, <1>2

LEMMA BaseKept ==
  ASSUME "reevaluate" \notin Ops, IInv, Roles, News, BaselinesSound, \A p \in Procs : BaseInv(p),
         [Next]_vars
  PROVE  BaselinesSound' /\ \A p \in Procs : BaseInv(p)'
<1>1. ASSUME NEW p \in Procs, Accept(p) \/ Acts(p) PROVE BaselinesSound' /\ \A r \in Procs : BaseInv(r)'
  <2>1. \A s \in Sources : ValidStay(s)
    BY <1>1, ValidKept DEF News
  <2>2. BaselinesSound' /\ BaseInv(p)'
    BY <1>1, <2>1, BaselinesStep, BaseStep
  <2>3. ASSUME NEW r \in Procs, r # p PROVE BaseInv(r)'
    <3>1. Typed /\ pc'[r] = pc[r] /\ loc'[r] = loc[r]
      BY <1>1, <2>3, AloneAndGrowing DEF IInv, Moves
    <3>2. CASE pc[r] \in {"set_observing", "set_baseline", "snap_windows"}
      <4>1. loc[r].src \in Sources
        BY <3>1, <3>2, LocalTyped DEF LocalsFit
      <4> QED BY <2>1, <3>1, <4>1 DEF BaseInv, Sound, ValidStay
    <3>3. CASE pc[r] \notin {"set_observing", "set_baseline", "snap_windows"}
      BY <3>1, <3>3 DEF BaseInv
    <3> QED BY <3>2, <3>3
  <2> QED BY <2>2, <2>3
<1>2. CASE Crash
  BY <1>2 DEF Crash, tables, BaselinesSound, Sound, BaseInv, CountedLabels
<1>3. CASE UNCHANGED vars
  BY <1>3 DEF vars, BaselinesSound, Sound, BaseInv
<1> QED BY <1>1, <1>2, <1>3 DEF Next, Acts

LEMMA BaselinesInvariant ==
  ASSUME "reevaluate" \notin Ops
  PROVE  Spec => [](BaselinesSound /\ \A p \in Procs : BaseInv(p))
<1> DEFINE Inv == BaselinesSound /\ \A p \in Procs : BaseInv(p)
<1>1. Init => Inv
  BY DEF Init, DatabaseInit, RequestsInit, NoSource, BaselinesSound, Sound, BaseInv, CountedLabels
<1>2. IInv /\ Roles /\ News /\ Inv /\ [Next]_vars => Inv'
  BY BaseKept
<1> HIDE DEF Inv
<1>3. Spec => []Inv
  BY <1>1, <1>2, IngestInvariant, RolesInvariant, NewsInvariant, PTL DEF Spec
<1> QED BY <1>3 DEF Inv

\* As long as nothing is re-evaluated, a recovery baseline is 0 or a valid window, also
\* when windows, crashes and other recoveries come between its reading and its writing.
THEOREM BaselinesAreValid ==
  ASSUME "reevaluate" \notin Ops
  PROVE  Spec => []RecoveryBaselineValid
<1>1. BaselinesSound => RecoveryBaselineValid
  BY DEF BaselinesSound, Sound, RecoveryBaselineValid, ValidSeqs
<1> QED BY <1>1, BaselinesInvariant, PTL

\* As long as nothing is re-evaluated, evidence that shows a recovery baseline counts a
\* valid window, though the source and the windows are read by different queries.
THEOREM BaselinesAreCounted ==
  ASSUME "reevaluate" \notin Ops
  PROVE  Spec => []BaselineCounted
<1>1. (\A p \in Procs : BaseInv(p)) => BaselineCounted
  BY DEF BaseInv, CountedLabels, BaselineCounted
<1> QED BY <1>1, BaselinesInvariant, PTL

-----------------------------------------------------------------------------
(* A sealed source.  Each handler reads the state of the source and writes *)
(* in a later statement, so that one which read it before the seal still   *)
(* has a write ahead of it; nobody who reads it afterwards has.            *)

\* A window that is re-evaluated is recorded.
Reevaluating(p) == pc[p] = "reevaluate" => loc[p].seq \in Recorded(loc[p].src)

LEMMA ReevaluatingStarts ==
  ASSUME IInv, OnceInv, NEW p \in Procs, Accept(p)
  PROVE  Reevaluating(p)'
<1>1. Typed /\ UNCHANGED windows
  BY Accepted DEF IInv, tables
<1>2. ASSUME pc'[p] = "reevaluate" PROVE loc'[p].seq \in Recorded(loc[p].src)'
  <2>1. PICK s \in Sources :
          Reevaluate(p, s) /\ Starts(p, "reevaluate", s, "reevaluate", {"seq", "status", "anomaly"})
    BY <1>1, <1>2, Accepted DEF Starts
  <2>2. PICK q \in Seqs : loc'[p].seq = q /\ ListByWindow(s, q) # {}
    BY <1>1, <2>1, ReevaluateSets
  <2>3. \E i \in DOMAIN tests[s] : tests[s][i].seq = q
    BY <2>2 DEF ListByWindow
  <2>4. windows[s][q].status # "none"
    BY <2>3 DEF OnceInv, TestsOfWindows
  <2>5. loc'[p].src = s
    BY <2>1 DEF Starts
  <2> QED BY <1>1, <2>2, <2>4, <2>5 DEF Recorded
<1> QED BY <1>2 DEF Reevaluating

LEMMA ReevaluatingStep ==
  ASSUME IInv, OnceInv, NEW p \in Procs, NEW r \in Procs, Reevaluating(r), Accept(p) \/ Acts(p)
  PROVE  Reevaluating(r)'
<1>1. Typed /\ Moves(p) /\ Grows
  BY AloneAndGrowing DEF IInv
<1>2. CASE r = p /\ Accept(p)
  BY <1>2, ReevaluatingStarts
<1>3. CASE r = p /\ Acts(p)
  BY <1>1, <1>3, Paths DEF Reevaluating
<1>4. CASE r # p /\ pc[r] = "reevaluate"
  <2>1. pc'[r] = pc[r] /\ loc'[r] = loc[r] /\ loc[r].src \in Sources
    BY <1>1, <1>4, LocalTyped DEF Moves, LocalsFit
  <2>2. loc[r].seq \in Seqs /\ windows[loc[r].src][loc[r].seq].status # "none"
    BY <1>4 DEF Reevaluating, Recorded
  <2>3. windows'[loc[r].src][loc[r].seq].status # "none"
    BY <1>1, <2>1, <2>2 DEF Grows
  <2> QED BY <2>1, <2>2, <2>3 DEF Reevaluating, Recorded
<1>5. CASE r # p /\ pc[r] # "reevaluate"
  BY <1>1, <1>5 DEF Moves, Reevaluating
<1> QED BY <1>2, <1>3, <1>4, <1>5

LEMMA ReevaluatingInvariant == Spec => [](\A p \in Procs : Reevaluating(p))
<1> DEFINE Inv == \A p \in Procs : Reevaluating(p)
<1>1. Init => Inv
  BY DEF Init, RequestsInit, Reevaluating
<1>2. IInv /\ OnceInv /\ Inv /\ [Next]_vars => Inv'
  <2> SUFFICES ASSUME IInv, OnceInv, Inv, [Next]_vars PROVE Inv'
    OBVIOUS
  <2>1. ASSUME NEW p \in Procs, Accept(p) \/ Acts(p) PROVE Inv'
    BY <2>1, ReevaluatingStep
  <2>2. CASE Crash
    BY <2>2 DEF Crash, Reevaluating
  <2>3. CASE UNCHANGED vars
    BY <2>3 DEF vars, Reevaluating, Recorded
  <2> QED BY <2>1, <2>2, <2>3 DEF Next, Acts
<1> HIDE DEF Inv
<1>3. Spec => []Inv
  BY <1>1, <1>2, IngestInvariant, OnceInvariant, PTL DEF Spec
<1> QED BY <1>3 DEF Inv

\* Only CreateWindow adds a window.
LEMMA WindowAdded ==
  ASSUME IInv, NEW p \in Procs, Reevaluating(p), Accept(p) \/ Acts(p),
         NEW s \in Sources, NEW q \in Seqs,
         windows[s][q].status = "none", windows'[s][q].status # "none"
  PROVE  CreateWindow(p) /\ Acts(p) /\ s = loc[p].src /\ q = loc[p].seq
<1>0. Typed
  BY DEF IInv
<1>1. ~Accept(p) /\ ~UNCHANGED windows
  BY <1>0, Accepted DEF tables
<1>2. ~StoreStatus(p)
  <2>1. ASSUME StoreStatus(p) PROVE FALSE
    <3>1. /\ loc[p].src \in Sources /\ loc[p].seq \in Seqs
          /\ windows[loc[p].src][loc[p].seq].status # "none"
      BY <2>1, InsideIngest DEF StoreStatus, At, UnconfirmedLabels, Evaluating
    <3>2. windows'[s][q] = windows[s][q]
      BY <1>0, <2>1, <3>1, StoreStatusSets, StatusWritten
    <3> QED BY <3>2
  <2> QED BY <2>1
<1>3. ~SetReevaluated(p)
  <2>1. ASSUME SetReevaluated(p) PROVE FALSE
    <3>1. /\ loc[p].src \in Sources /\ loc[p].seq \in Seqs
          /\ windows[loc[p].src][loc[p].seq].status # "none"
      BY <1>0, <2>1, LocalTyped DEF SetReevaluated, At, Reevaluating, Recorded, LocalsFit
    <3>2. windows'[s][q] = windows[s][q]
      BY <1>0, <2>1, <3>1, StatusWritten DEF SetReevaluated
    <3> QED BY <3>2
  <2> QED BY <2>1
<1>4. CreateWindow(p) /\ Acts(p)
  BY <1>1, <1>2, <1>3, Writers
<1>5. loc[p].src \in Sources /\ loc[p].seq \in Seqs
  BY <1>4, InsideIngest DEF CreateWindow, At, UnconfirmedLabels
<1>6. InsertWindow(loc[p].src, loc[p].seq, loc[p].sample)
  BY <1>4 DEF CreateWindow
<1>7. s # loc[p].src \/ q # loc[p].seq => windows'[s][q] = windows[s][q]
  BY <1>0, <1>5, <1>6, WindowInserted
<1> QED BY <1>4, <1>7

LEMMA UnsealingStep ==
  ASSUME IInv, NEW p \in Procs, Accept(p) \/ Acts(p),
         NEW s \in Sources, sources[s].state = "sealed"
  PROVE  /\ Unsealing(s)' \subseteq Unsealing(s)
         /\ sources'[s].state # "sealed" => p \in Unsealing(s) /\ p \notin Unsealing(s)'
<1> DEFINE labels == {"set_degraded", "set_isolated", "baseline", "set_observing", "observe_set"}
<1>0. Typed /\ Moves(p)
  BY AloneAndGrowing DEF IInv
<1>1. ASSUME pc'[p] \in labels, loc'[p].src = s PROVE p \in Unsealing(s)
  <2>1. CASE Accept(p)
    <3>1. PICK c \in Sources :
            \/ Degrade(p, c) /\ Starts(p, "degrade", c, "set_degraded", {})
            \/ Isolate(p, c) /\ Starts(p, "isolate", c, "set_isolated", {})
            \/ Recover(p, c) /\ Starts(p, "recover", c, "baseline", {})
      BY <1>0, <1>1, <2>1, Accepted DEF Starts
    <3>2. c = s
      BY <1>1, <3>1 DEF Starts
    <3> QED
      BY <3>1, <3>2
      DEF Degrade, Isolate, Recover, Admitted, DegradableStates, IsolatableStates,
          RecoverableStates
  <2>2. CASE Acts(p)
    <3>1. AutoDegrade(p) \/ Observe(p) \/ ReadBaseline(p)
      BY <1>0, <1>1, <2>2, Paths
    <3>2. loc[p].src = s
      BY <1>0, <1>1, <2>2, Kept
    <3>3. ~AutoDegrade(p)
      BY <3>2 DEF AutoDegrade, DegradableStates
    <3>4. ~Observe(p)
      <4>1. Observe(p) => pc'[p] = "recent"
        BY <1>0, <3>2, GoesTo DEF Observe
      <4> QED BY <1>1, <4>1
    <3> QED BY <3>1, <3>2, <3>3, <3>4 DEF ReadBaseline, At, Unsealing
  <2> QED BY <2>1, <2>2
<1>2. Unsealing(s)' \subseteq Unsealing(s)
  <2> SUFFICES ASSUME NEW r \in Procs, pc'[r] \in labels, loc'[r].src = s PROVE r \in Unsealing(s)
    BY DEF Unsealing
  <2>1. CASE r # p
    BY <1>0, <2>1 DEF Moves, Unsealing
  <2> QED BY <1>1, <2>1
<1>3. ASSUME sources'[s].state # "sealed" PROVE p \in Unsealing(s) /\ p \notin Unsealing(s)'
  <2>1. Acts(p)
    BY <1>0, <1>3, Accepted DEF tables
  <2>2. /\ s = loc[p].src
        /\ SetObserving(p) \/ SetRecovered(p) \/ SetDegraded(p) \/ SetIsolated(p)
    BY <1>3, <2>1, SourceSteps
  <2>3. p \in Unsealing(s)
    BY <2>2 DEF SetObserving, SetRecovered, SetDegraded, SetIsolated, WriteState, At, Unsealing
  <2>4. pc'[p] \notin labels
    <3>1. \A label : Goto(p, label) => pc'[p] = label
      BY <1>0, GoesTo
    <3>2. \A reply : Answer(p, reply) => pc'[p] \in {"idle", "done"}
      BY <1>0, AnswerGoesTo
    <3> QED BY <2>2, <3>1, <3>2 DEF SetObserving, SetRecovered, SetDegraded, SetIsolated
  <2> QED BY <2>3, <2>4 DEF Unsealing
<1> QED BY <1>2, <1>3

LEMMA IntakeStep ==
  ASSUME IInv, NEW p \in Procs, Reevaluating(p), Accept(p) \/ Acts(p),
         NEW s \in Sources, sources[s].state = "sealed"
  PROVE  Taken(s)' \subseteq Taken(s) /\ Marked(s)' \subseteq Marked(s)
<1>0. Typed /\ Moves(p)
  BY AloneAndGrowing DEF IInv
<1>1. ~(pc'[p] = "create" /\ loc'[p].src = s)
  <2> SUFFICES ASSUME pc'[p] = "create", loc'[p].src = s PROVE FALSE
    OBVIOUS
  <2>1. Acts(p)
    BY <1>0, Accepted DEF Starts
  <2>2. Admit(p) /\ loc[p].src = s
    BY <1>0, <2>1, Paths, Kept
  <2>3. loc[p].seq \in 0..MaxSeq
    BY <1>0, LocalFields DEF Local
  <2> QED BY <2>2, <2>3, VerdictAdmits DEF Admit
<1>2. ~(pc'[p] = "restart_insert" /\ loc'[p].src = s)
  <2> SUFFICES ASSUME pc'[p] = "restart_insert", loc'[p].src = s PROVE FALSE
    OBVIOUS
  <2>1. Accept(p)
    BY <1>0, Paths
  <2>2. PICK c \in Sources : Restart(p, c) /\ Starts(p, "restart", c, "restart_insert", {"seq"})
    BY <1>0, <2>1, Accepted DEF Starts
  <2> QED BY <2>2 DEF Starts, Restart
<1>3. ASSUME NEW q \in Taken(s)' PROVE q \in Taken(s)
  <2>1. CASE q \in Recorded(s)'
    <3>1. q \in Seqs /\ windows'[s][q].status # "none"
      BY <2>1 DEF Recorded
    <3>2. CASE windows[s][q].status = "none"
      <4>1. CreateWindow(p) /\ s = loc[p].src /\ q = loc[p].seq
        BY <3>1, <3>2, WindowAdded
      <4> QED BY <4>1 DEF CreateWindow, Taken
    <3>3. CASE windows[s][q].status # "none"
      BY <3>1, <3>3 DEF Taken, Recorded
    <3> QED BY <3>2, <3>3
  <2>2. CASE q \notin Recorded(s)'
    <3>1. PICK r \in Procs : pc'[r] = "create" /\ loc'[r].src = s /\ q = loc'[r].seq
      BY <2>2 DEF Taken, At
    <3>2. pc[r] = "create" /\ loc[r].src = s /\ q = loc[r].seq
      BY <1>0, <1>1, <3>1 DEF Moves
    <3> QED BY <3>2 DEF Taken, At
  <2> QED BY <2>1, <2>2
<1>4. ASSUME NEW q \in Marked(s)' PROVE q \in Marked(s)
  <2>1. CASE \E rb \in restarts'[s] : q = rb.atSeq
    <3>1. PICK rb \in restarts'[s] : q = rb.atSeq
      BY <2>1
    <3>2. CASE rb \in restarts[s]
      BY <3>1, <3>2 DEF Marked
    <3>3. CASE rb \notin restarts[s]
      <4>1. InsertedRestart(p)
        BY <1>0, <3>3, Accepted, Writers DEF tables
      <4>2. restarts \in [Sources -> SUBSET RestartRow] /\ loc[p].src \in Sources
        BY <1>0, <4>1, TablesTyped, LocalTyped DEF InsertedRestart, At, LocalsFit
      <4>3. s = loc[p].src /\ rb = [atSeq |-> loc[p].seq]
        BY <3>3, <4>1, <4>2 DEF InsertedRestart, InsertRestart
      <4> QED BY <3>1, <4>1, <4>3 DEF InsertedRestart, Marked
    <3> QED BY <3>2, <3>3
  <2>2. CASE ~\E rb \in restarts'[s] : q = rb.atSeq
    <3>1. PICK r \in Procs : pc'[r] = "restart_insert" /\ loc'[r].src = s /\ q = loc'[r].seq
      BY <2>2 DEF Marked, At
    <3>2. pc[r] = "restart_insert" /\ loc[r].src = s /\ q = loc[r].seq
      BY <1>0, <1>2, <3>1 DEF Moves
    <3> QED BY <3>2 DEF Marked, At
  <2> QED BY <2>1, <2>2
<1> QED BY <1>3, <1>4

\* Whatever runs at once, fails or crashes: a sealed source is unsealed only by a request
\* that has read it before, and every such request can do so once.
THEOREM OnlyStaleReadsUnseal == Spec => SealUndoneByStaleReads
<1> DEFINE Holds(s) ==
             sources[s].state = "sealed" =>
               /\ Unsealing(s)' \subseteq Unsealing(s)
               /\ sources'[s].state # "sealed" => Unsealing(s)' # Unsealing(s)
<1>1. ASSUME IInv, NEW p \in Procs, Accept(p) \/ Acts(p), NEW s \in Sources PROVE Holds(s)
  BY <1>1, UnsealingStep
<1>2. ASSUME Crash, NEW s \in Sources PROVE Holds(s)
  <2>1. Unsealing(s)' = {} /\ sources' = sources
    BY <1>2 DEF Crash, Unsealing, tables
  <2> QED BY <2>1
<1>3. IInv /\ [Next]_vars => [\A s \in Sources : Holds(s)]_vars
  BY <1>1, <1>2 DEF Next, Acts
<1> QED BY <1>3, IngestInvariant, PTL DEF Spec, SealUndoneByStaleReads

\* Whatever runs at once, fails or crashes: a sealed source takes no window and no restart
\* boundary but those a request had been let in with before.
THEOREM SealedTakesNoMore == Spec => SealStopsIntake
<1> DEFINE Holds(s) ==
             sources[s].state = "sealed" =>
               Taken(s)' \subseteq Taken(s) /\ Marked(s)' \subseteq Marked(s)
           Records == \A p \in Procs : Reevaluating(p)
<1>1. ASSUME IInv, Records, NEW p \in Procs, Accept(p) \/ Acts(p), NEW s \in Sources
      PROVE  Holds(s)
  BY <1>1, IntakeStep
<1>2. ASSUME Crash, NEW s \in Sources PROVE Holds(s)
  <2>1. \A r \in Procs : ~At(r, "create")' /\ ~At(r, "restart_insert")'
    BY <1>2 DEF Crash, At
  <2>2. Recorded(s)' = Recorded(s) /\ restarts' = restarts
    BY <1>2 DEF Crash, tables, Recorded
  <2> QED BY <2>1, <2>2 DEF Taken, Marked
<1>3. IInv /\ Records /\ [Next]_vars => [\A s \in Sources : Holds(s)]_vars
  BY <1>1, <1>2 DEF Next, Acts
<1>4. Spec => []Records
  BY ReevaluatingInvariant
<1> HIDE DEF Records
<1> QED BY <1>3, <1>4, IngestInvariant, PTL DEF Spec, SealStopsIntake

-----------------------------------------------------------------------------
(* Events of a source.  Each handler reads the event and writes in later   *)
(* statements: when no other request writes events in between, what it has *)
(* read still holds when it writes.                                        *)

Alone == \A p, q \in Procs : p = q

\* Where a handler has seen that an event is open, or that none is.
OpenInv(p) ==
  LET s == loc[p].src IN
  /\ pc[p] \in EventLabels => Open(s, loc[p].row)
  /\ pc[p] = "raise" => loc[p].rowState # "closed"
  /\ pc[p] = "create_event" => \A i \in DOMAIN events[s] : ~Open(s, i)

\* Within its own request, a statement changes the state of an open event only.
LEMMA OpenOnly ==
  ASSUME IInv, RowsNamed, NEW p \in Procs, OpenInv(p), Accept(p) \/ Acts(p),
         NEW s \in Sources, NEW i \in DOMAIN events[s]
  PROVE  /\ i \in DOMAIN events'[s]
         /\ Open(s, i)' => Open(s, i)
<1>0. Typed
  BY DEF IInv
<1>1. CASE Accept(p)
  BY <1>0, <1>1, Accepted DEF tables, Open
<1>2. CASE Acts(p)
  <2>1. ASSUME s = loc[p].src, i = loc[p].row,
               Settle(p) \/ SettleClose(p) \/ Raise(p) \/ SetConfirmed(p) \/ SetClosed(p)
        PROVE  Open(s, i)
    BY <2>1
    DEF OpenInv, EventLabels, Settle, SettleClose, Raise, SetConfirmed, SetClosed, At
  <2> QED BY <1>0, <1>2, <2>1, EventSteps DEF Open
<1> QED BY <1>1, <1>2

\* What OpenForSource does not find is not there, as long as only the newest can be open.
LEMMA NoneOpen ==
  ASSUME Typed, OpenEventNewest, NEW s \in Sources, OpenForSource(s) = {}
  PROVE  \A i \in DOMAIN events[s] : ~Open(s, i)
<1> SUFFICES ASSUME NEW i \in DOMAIN events[s], Open(s, i) PROVE FALSE
  OBVIOUS
<1>1. events[s] \in Seq(EventRow)
  BY TablesTyped
<1>2. Len(events[s]) \in Nat /\ DOMAIN events[s] = 1..Len(events[s])
  BY <1>1, LenProperties
<1>3. i = Len(events[s])
  BY DEF OpenEventNewest
<1>4. \A j \in DOMAIN events[s] : ~(j > i)
  BY <1>2, <1>3
<1> QED BY <1>4 DEF OpenForSource

\* The row a statement addresses is still open when the next one addresses it.
LEMMA OpenStep ==
  ASSUME IInv, RowsNamed, OpenEventNewest, NEW p \in Procs, OpenInv(p), Accept(p) \/ Acts(p)
  PROVE  OpenInv(p)'
<1>0. Typed
  BY DEF IInv
<1>1. ASSUME pc'[p] \in EventLabels PROVE events'[loc'[p].src][loc'[p].row].state # "closed"
  <2>1. CASE Accept(p)
    <3>1. PICK s \in Sources :
            \/ Confirm(p, s) /\ Starts(p, "confirm", s, "confirm", {"row"})
            \/ Close(p, s) /\ Starts(p, "close", s, "close", {"row", "confirmed"})
      BY <1>0, <1>1, <2>1, Accepted DEF Starts, EventLabels
    <3>2. loc'[p].src = s /\ events[s][loc'[p].row].state \in ConfirmableStates \cup ClosableStates
      BY <1>0, <3>1, RequestSets DEF Starts
    <3> QED BY <1>0, <2>1, <3>2, Accepted DEF tables, ConfirmableStates, ClosableStates
  <2>2. CASE Acts(p)
    <3>1. pc'[p] \notin {"idle", "lock"}
      BY <1>1 DEF EventLabels
    <3>2. loc'[p].src = loc[p].src /\ loc[p].src \in Sources
      BY <1>0, <2>2, <3>1, Kept, Busy, LocalTyped DEF LocalsFit
    <3>3. PICK s \in Sources : s = loc[p].src
      BY <3>2
    <3>4. CASE FindSettled(p) \/ FindOpenEvent(p)
      <4>1. loc'[p].row \in OpenForSource(s)
        BY <1>0, <3>3, <3>4, FindSettledSets, FindOpenEventSets
      <4>2. UNCHANGED events
        BY <3>4 DEF FindSettled, FindOpenEvent, tables
      <4> QED BY <3>2, <3>3, <4>1, <4>2 DEF OpenForSource, Open
    <3>5. CASE Settle(p) \/ Raise(p)
      <4>1. loc'[p].row = loc[p].row
        BY <1>0, <2>2, <3>1, <3>5, Kept DEF Settle, Raise, FindSettled, FindOpenEvent, At
      <4>2. loc[p].row \in DOMAIN events[s]
        BY <3>3, <3>5 DEF Settle, Raise, At, RowsNamed, RowNamed, EventLabels
      <4>3. CASE Settle(p)
        <5>1. SetState(s, loc[p].row, "transient", FALSE, TRUE)
          BY <3>3, <4>3 DEF Settle
        <5>2. events'[s][loc[p].row].state = "transient"
          BY <1>0, <4>2, <5>1, StateSet, ZenonT(60)
        <5> QED BY <3>2, <3>3, <4>1, <5>2
      <4>4. CASE Raise(p)
        <5>1. RaisedState(p) # "closed"
          BY <4>4 DEF Raise, RaisedState, At, OpenInv
        <5>2. SetState(s, loc[p].row, RaisedState(p), loc[p].confirmed, loc[p].closed)
          BY <3>3, <4>4 DEF Raise
        <5> QED BY <1>0, <3>2, <3>3, <4>1, <4>2, <5>1, <5>2, StateSet
      <4> QED BY <3>5, <4>3, <4>4
    <3>6. FindSettled(p) \/ FindOpenEvent(p) \/ Settle(p) \/ Raise(p)
      BY <1>0, <1>1, <2>2, Paths DEF EventLabels
    <3> QED BY <3>4, <3>5, <3>6
  <2> QED BY <2>1, <2>2
<1>2. ASSUME pc'[p] = "raise" PROVE loc'[p].rowState # "closed"
  <2>1. Acts(p)
    BY <1>0, <1>2, Accepted DEF Starts
  <2>2. FindOpenEvent(p)
    BY <1>0, <1>2, <2>1, Paths
  <2> QED BY <1>0, <2>2, FindOpenEventSets DEF OpenForSource, Open
<1>3. ASSUME pc'[p] = "create_event"
      PROVE  \A i \in DOMAIN events'[loc'[p].src] : events'[loc'[p].src][i].state = "closed"
  <2>1. Acts(p)
    BY <1>0, <1>3, Accepted DEF Starts
  <2>2. NoOpenEvent(p) /\ loc'[p].src = loc[p].src
    BY <1>0, <1>3, <2>1, Paths, Kept
  <2>3. OpenForSource(loc[p].src) = {} /\ UNCHANGED events
    BY <2>2 DEF NoOpenEvent, tables
  <2>4. loc[p].src \in Sources
    BY <1>0, <2>2, LocalTyped DEF NoOpenEvent, At, LocalsFit
  <2>5. \A i \in DOMAIN events[loc[p].src] : ~Open(loc[p].src, i)
    BY <1>0, <2>3, <2>4, NoneOpen
  <2> QED BY <2>2, <2>3, <2>5 DEF Open
<1> QED BY <1>1, <1>2, <1>3 DEF OpenInv, Open


\* A new event comes when none is open.
LEMMA NewestStep ==
  ASSUME IInv, RowsNamed, OpenEventNewest, NEW p \in Procs, OpenInv(p), Accept(p) \/ Acts(p)
  PROVE  OpenEventNewest'
<1>0. Typed
  BY DEF IInv
<1>1. ASSUME NEW s \in Sources, NEW i \in DOMAIN events'[s], Open(s, i)' PROVE i = Len(events'[s])
  <2>1. CASE UNCHANGED events
    BY <1>1, <2>1 DEF OpenEventNewest, Open
  <2>2. CASE Acts(p) /\ DOMAIN events'[s] = DOMAIN events[s] /\ Len(events'[s]) = Len(events[s])
    BY <1>1, <2>2, OpenOnly DEF OpenEventNewest
  <2>3. CASE /\ CreateEvent(p) /\ s = loc[p].src
             /\ Len(events[s]) \in Nat
             /\ DOMAIN events[s] = 1..Len(events[s])
             /\ DOMAIN events'[s] = 1..(Len(events[s]) + 1)
             /\ Len(events'[s]) = Len(events[s]) + 1
    <3>1. \A j \in DOMAIN events[s] : ~Open(s, j)
      BY <2>3 DEF OpenInv, CreateEvent, At
    <3>2. i \notin DOMAIN events[s]
      BY <1>1, <3>1, OpenOnly
    <3> QED BY <1>1, <2>3, <3>2
  <2>4. Accept(p) => UNCHANGED events
    BY <1>0, Accepted DEF tables
  <2> QED BY <1>0, <2>1, <2>2, <2>3, <2>4, EventSteps
<1> QED BY <1>1 DEF OpenEventNewest

\* Events of one source are never touched on behalf of another.
LEMMA OtherEvents ==
  ASSUME Typed, NEW p \in Procs, Acts(p), NEW s \in Sources, s # loc[p].src
  PROVE  events'[s] = events[s]
<1>1. loc[p].src \in Sources
  BY Busy, LocalTyped DEF LocalsFit
<1>2. ASSUME NEW st, NEW a, NEW b, SetState(loc[p].src, loc[p].row, st, a, b)
      PROVE  events'[s] = events[s]
  BY <1>1, <1>2, StateSet DEF RowReplaced
<1>3. CASE Settle(p) \/ SettleClose(p) \/ Raise(p) \/ SetConfirmed(p) \/ SetClosed(p)
  BY <1>2, <1>3 DEF Settle, SettleClose, Raise, SetConfirmed, SetClosed
<1>4. ASSUME NEW row, InsertEvent(loc[p].src, row) PROVE events'[s] = events[s]
  BY <1>1, <1>4, EventInserted
<1>5. CASE CreateEvent(p)
  BY <1>4, <1>5 DEF CreateEvent
<1>6. CASE ExtendRun(p)
  BY <1>1, <1>6, RunUpdated DEF ExtendRun, RowReplaced
<1> QED BY <1>3, <1>5, <1>6, Writers

\* Without Confirm and Close only Ingest writes events, under the mutex.
Unconfirmed == Ops \cap {"confirm", "close"} = {}

LEMMA MutexGuardsEvents ==
  ASSUME Unconfirmed, IInv, Roles, NEW p \in Procs, NEW r \in Procs, r # p, Inside(r),
         Accept(p) \/ Acts(p)
  PROVE  loc[r].src \in Sources /\ events'[loc[r].src] = events[loc[r].src]
<1>0. Typed /\ loc[r].src \in Sources
  BY LocalTyped DEF IInv, Inside, LocalsFit
<1>1. CASE Accept(p) \/ UNCHANGED events
  BY <1>0, <1>1, Accepted DEF tables
<1>2. CASE Acts(p) /\ ~UNCHANGED events
  <2>1. ~SetConfirmed(p) /\ ~SetClosed(p)
    BY DEF Unconfirmed, Roles, Role, SetConfirmed, SetClosed, At
  <2>2. pc[p] \in RunLabels
    BY <1>2, <2>1, Writers
    DEF Settle, SettleClose, CreateEvent, Raise, ExtendRun, At, RunLabels
  <2>3. loc[p].src # loc[r].src
    BY <1>0, <2>2, FinishingInside, OneInside DEF CorrelatedLabels
  <2> QED BY <1>0, <1>2, <2>3, OtherEvents
<1> QED BY <1>1, <1>2

LEMMA OpenUndisturbed ==
  ASSUME Unconfirmed, IInv, Roles, NEW p \in Procs, NEW r \in Procs, r # p, OpenInv(r),
         Accept(p) \/ Acts(p)
  PROVE  OpenInv(r)'
<1>1. pc'[r] = pc[r] /\ loc'[r] = loc[r]
  BY AloneAndGrowing DEF Moves
<1>2. CASE pc[r] \in RunLabels
  <2>1. Inside(r)
    BY <1>2, FinishingInside DEF IInv, CorrelatedLabels
  <2>2. events'[loc[r].src] = events[loc[r].src]
    BY <2>1, MutexGuardsEvents
  <2> QED BY <1>1, <2>2 DEF OpenInv, Open
<1>3. CASE pc[r] \notin RunLabels
  <2>1. pc[r] \notin EventLabels \cup {"create_event"}
    BY <1>3 DEF Unconfirmed, Roles, Role, EventLabels, RunLabels
  <2> QED BY <1>1, <2>1 DEF OpenInv
<1> QED BY <1>2, <1>3

\* One request at a time, or none that confirms or closes events.
EventsAlone == Alone \/ Unconfirmed

LEMMA OpenKept ==
  ASSUME EventsAlone, IInv, Roles, RowsNamed, OpenEventNewest, \A p \in Procs : OpenInv(p),
         [Next]_vars
  PROVE  OpenEventNewest' /\ \A p \in Procs : OpenInv(p)'
<1>1. ASSUME NEW p \in Procs, Accept(p) \/ Acts(p) PROVE OpenEventNewest' /\ \A r \in Procs : OpenInv(r)'
  <2>1. OpenEventNewest' /\ OpenInv(p)'
    BY <1>1, OpenStep, NewestStep
  <2>2. ASSUME NEW r \in Procs, r # p PROVE OpenInv(r)'
    BY <1>1, <2>2, OpenUndisturbed DEF EventsAlone, Alone
  <2> QED BY <2>1, <2>2
<1>2. CASE Crash
  <2>1. \A r \in Procs : pc'[r] = "idle" /\ UNCHANGED events
    BY <1>2 DEF Crash, tables
  <2> QED BY <1>2, <2>1 DEF Crash, tables, OpenInv, EventLabels, OpenEventNewest, Open
<1>3. CASE UNCHANGED vars
  BY <1>3 DEF vars, OpenInv, OpenEventNewest, Open
<1> QED BY <1>1, <1>2, <1>3 DEF Next, Acts

LEMMA OpenInvariant ==
  ASSUME EventsAlone
  PROVE  Spec => [](OpenEventNewest /\ \A p \in Procs : OpenInv(p))
<1> DEFINE Inv == OpenEventNewest /\ \A p \in Procs : OpenInv(p)
<1>1. Init => Inv
  BY DEF Init, DatabaseInit, RequestsInit, OpenInv, EventLabels, OpenEventNewest, Open
<1>2. IInv /\ Roles /\ RowsNamed /\ Inv /\ [Next]_vars => Inv'
  BY OpenKept
<1> HIDE DEF Inv
<1>3. Spec => []Inv
  BY <1>1, <1>2, IngestInvariant, RolesInvariant, EventRowsExist, PTL DEF Spec
<1> QED BY <1>3 DEF Inv

\* Without concurrent requests, and also with them as long as no engineer confirms or
\* closes events, only the newest event of a source is ever open, wherever a statement
\* fails or the process dies.
THEOREM NewestIsOpen ==
  ASSUME EventsAlone
  PROVE  Spec => []OpenEventNewest
BY OpenInvariant, PTL

\* Under the same condition a closed event stays closed.
THEOREM ClosedStaysClosed ==
  ASSUME EventsAlone
  PROVE  Spec => ClosedIsFinal
<1>1. ASSUME IInv, RowsNamed, NEW p \in Procs, OpenInv(p), Accept(p) \/ Acts(p),
             NEW s \in Sources, NEW i \in DOMAIN events[s], events[s][i].state = "closed"
      PROVE  events'[s][i].state = "closed"
  BY <1>1, OpenOnly DEF Open
<1>2. IInv /\ RowsNamed /\ (\A p \in Procs : OpenInv(p)) /\ [Next]_vars =>
        [\A s \in Sources : \A i \in DOMAIN events[s] :
           events[s][i].state = "closed" => events'[s][i].state = "closed"]_vars
  BY <1>1 DEF Next, Acts, Crash, tables
<1> QED BY <1>2, IngestInvariant, EventRowsExist, OpenInvariant, PTL DEF Spec, ClosedIsFinal
=============================================================================
