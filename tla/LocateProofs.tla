---------------------------- MODULE LocateProofs ----------------------------
(***************************************************************************)
(* Proofs about the way from the imports to the located divergence,        *)
(* whatever statement fails or when the process restarts.  Each needs one  *)
(* operation to run alone: the scan for its pairs, Sync for its alignment, *)
(* and Compare for everything about divergences, because no trail changes  *)
(* any more once it has ended.  Traces may overlap with whatever they like.*)
(***************************************************************************)
EXTENDS LifecycleProofs

(* The steps that begin a request.                                         *)

\* A request that begins is at the first statement after the batch row.
LEMMA BeginsAt ==
  ASSUME TypeInv, NEW w \in Workers, Step(w), req[w].op = "none"
  PROVE  /\ UNCHANGED tables
         /\ req'[w].pc \in {"check", "insert", "update", "range_ref",
                            "checkpoints", "get"}
         /\ req'[w].op = "trace" => req'[w].pc = "get"
<1>1. ASSUME NEW op \in Ops,
             NEW pc \in {"check", "insert", "update", "range_ref", "checkpoints", "get"},
             NEW args \in Request, Begin(w, op, pc, args)
      PROVE  req'[w].pc = pc /\ req'[w].op = op
  BY <1>1 DEF Begin, TypeInv, TypeOK, RequestsTypeOK, Request
<1>2. \/ \E f \in Fragments : ImportBegin(w, f)
      \/ \E s \in Seqs : CheckpointBegin(w, s) \/ MarkBegin(w, s)
      \/ \E side \in Side, s \in Seqs : ExcludeBegin(w, side, s)
      \/ SyncBegin(w)
      \/ ScanBegin(w) \/ CompareBegin(w) \/ \E d \in DivIds : TraceBegin(w, d)
      \/ ConfirmBegin(w) \/ SealBegin(w) \/ DraftBegin(w)
      \/ \E s \in SnapIds : PublishBegin(w, s)
  <2>1. TrailNext(w) => \/ \E f \in Fragments : ImportBegin(w, f)
                        \/ \E s \in Seqs : CheckpointBegin(w, s) \/ MarkBegin(w, s)
                        \/ \E side \in Side, s \in Seqs : ExcludeBegin(w, side, s)
                        \/ SyncBegin(w)
    BY DEF TrailNext, ImportCheck, ImportInsert, CheckpointInsert, MarkUpdate,
           ExcludeUpdate, SyncRangeRef, SyncRangeTest, SyncListRef, SyncListTest,
           SyncAlignRef, SyncAlignTest, SyncCommit, At
  <2>2. CompareNext(w) =>
          ScanBegin(w) \/ CompareBegin(w) \/ \E d \in DivIds : TraceBegin(w, d)
    BY DEF CompareNext, ScanCheckpoints, ScanRef, ScanTest, ScanUpsertRef,
           ScanUpsertTest, CompareCheckpoints, ComparePair, CompareExisting,
           CompareCreate, CompareEnd, TraceGet, TraceRef, TraceTest, TraceDeps,
           TraceSaveChain, TraceUpdate, TraceConfirm, At
  <2>3. SnapshotNext(w) => \/ ConfirmBegin(w) \/ SealBegin(w) \/ DraftBegin(w)
                           \/ \E s \in SnapIds : PublishBegin(w, s)
    BY DEF SnapshotNext, ConfirmUpdate, SealUpdate, DraftCheckpoints,
           DraftExcluded, DraftInsert, PublishGet, PublishSummary, PublishCommit, At
  <2> QED
    BY <2>1, <2>2, <2>3 DEF Step
<1>3. ASSUME NEW f \in Fragments, ImportBegin(w, f)
      PROVE  UNCHANGED tables /\ req'[w].pc = "check" /\ req'[w].op = "import"
  BY <1>1, <1>3, ArgsTyped DEF ImportBegin, Ops
<1>4. ASSUME NEW s \in Seqs, CheckpointBegin(w, s) \/ MarkBegin(w, s)
      PROVE  /\ UNCHANGED tables
             /\ req'[w].pc \in {"insert", "update"}
             /\ req'[w].op \in {"checkpoint", "mark"}
  BY <1>1, <1>4, ArgsTyped DEF CheckpointBegin, MarkBegin, Ops
<1>5. ASSUME NEW side \in Side, NEW s \in Seqs, ExcludeBegin(w, side, s)
      PROVE  UNCHANGED tables /\ req'[w].pc = "update" /\ req'[w].op = "exclude"
  BY <1>1, <1>5, ArgsTyped DEF ExcludeBegin, Ops
<1>6. CASE SyncBegin(w) \/ ScanBegin(w) \/ CompareBegin(w)
  BY <1>1, <1>6, IdleTyped DEF SyncBegin, ScanBegin, CompareBegin, Ops
<1>7. ASSUME NEW d \in DivIds, TraceBegin(w, d)
      PROVE  UNCHANGED tables /\ req'[w].pc = "get" /\ req'[w].op = "trace"
  BY <1>1, <1>7, ArgsTyped DEF TraceBegin, Ops
<1>8. CASE ConfirmBegin(w) \/ SealBegin(w) \/ DraftBegin(w)
  BY <1>1, <1>8, IdleTyped DEF ConfirmBegin, SealBegin, DraftBegin, Ops
<1>9. ASSUME NEW s \in SnapIds, PublishBegin(w, s)
      PROVE  UNCHANGED tables /\ req'[w].pc = "get" /\ req'[w].op = "publish"
  BY <1>1, <1>9, ArgsTyped DEF PublishBegin, Ops
<1> QED
  BY <1>2, <1>3, <1>4, <1>5, <1>6, <1>7, <1>8, <1>9 DEF Ops

-----------------------------------------------------------------------------
(* ScanFingerprints.                                                       *)

\* The fingerprint of one side of a checkpoint is what the trail replays to.
SideIsCurrent(side, cp) ==
  /\ Replayable(ListBySide(side), cp)
  /\ Replayed(ListBySide(side), cp, fps[cp][side])

\* What a scan holds: the trails as they are, and behind it nothing but pairs
\* of these trails.  Between two upserts, half of the first pair before it.
ScanLocal(r) ==
  r.op = "scan" =>
    /\ r.pc \in {"ref", "test"} => r.left = TrustedCheckpoints
    /\ r.pc \in {"test", "upsert_ref", "upsert_test"} =>
         r.ref = ListBySide("reference")
    /\ r.pc \in {"upsert_ref", "upsert_test"} =>
         /\ r.test = ListBySide("under_test")
         /\ \A cp \in TrustedCheckpoints \ r.left : PairIsCurrent(cp)
    /\ r.pc = "upsert_test" =>
         \A cp \in Seqs : IsFirst(cp, r.left) =>
           SideIsCurrent("reference", cp) /\ Replayable(ListBySide("under_test"), cp)

ScansOK == \A w \in Workers : ScanLocal(req[w])

\* The trails and the checkpoints are what they were, and so is the pair of a
\* checkpoint that no statement writes.
LEMMA TrailsSame ==
  ASSUME UNCHANGED <<events, cps>>
  PROVE  /\ TrustedCheckpoints' = TrustedCheckpoints
         /\ \A side : ListBySide(side)' = ListBySide(side)
BY DEF TrustedCheckpoints, ListBySide

\* A pair whose trails and row stay is as current as it was.
LEMMA PairSame ==
  ASSUME UNCHANGED events, NEW cp, fps'[cp] = fps[cp], PairIsCurrent(cp)
  PROVE  PairIsCurrent(cp)'
<1>1. \A side : ListBySide(side)' = ListBySide(side)
  BY DEF ListBySide
<1> QED
  BY <1>1 DEF PairIsCurrent

\* An upsert changes one side of one pair.
LEMMA Upserted ==
  ASSUME TypeInv, NEW cp \in Seqs, NEW side \in Side, NEW hash,
         UpsertFingerprint(cp, side, hash)
  PROVE  /\ fps'[cp][side] = hash
         /\ \A t \in Side \ {side} : fps'[cp][t] = fps[cp][t]
         /\ \A s \in Seqs \ {cp} : fps'[s] = fps[s]
<1>1. fps \in [Seqs -> [Side -> Hash \cup {"none"}]]
  BY DEF TypeInv, TypeOK, StoreTypeOK
<1>2. fps' = [fps EXCEPT ![cp] = [fps[cp] EXCEPT ![side] = hash]]
  BY <1>1 DEF UpsertFingerprint
<1> QED
  BY <1>1, <1>2

\* The steps of a scan.
LEMMA ScanActions ==
  ASSUME NEW w \in Workers, Step(w), req[w].op = "scan"
  PROVE  \/ ScanCheckpoints(w) \/ ScanRef(w) \/ ScanTest(w)
         \/ ScanUpsertRef(w) \/ ScanUpsertTest(w)
<1>1. ~TrailNext(w)
  BY TrailOps
<1>2. ~SnapshotNext(w)
  BY DEF SnapshotNext, ConfirmBegin, ConfirmUpdate, SealBegin, SealUpdate,
         DraftBegin, DraftCheckpoints, DraftExcluded, DraftInsert, PublishBegin,
         PublishGet, PublishSummary, PublishCommit, At, Begin, MayStart
<1> QED
  BY <1>1, <1>2
     DEF Step, CompareNext, ScanBegin, CompareBegin, CompareCheckpoints,
         ComparePair, CompareExisting, CompareCreate, CompareEnd, TraceBegin,
         TraceGet, TraceRef, TraceTest, TraceDeps, TraceSaveChain, TraceUpdate,
         TraceConfirm, At, Begin, MayStart

\* A scan lists the checkpoints and both trails.
LEMMA ScanReads ==
  ASSUME TypeInv, NEW w \in Workers, ScanLocal(req[w]),
         ScanCheckpoints(w) \/ ScanRef(w) \/ ScanTest(w)
  PROVE  ScanLocal(req[w])'
<1>1. req[w] \in Request /\ req[w].op = "scan" /\ UNCHANGED tables
  BY DEF TypeInv, TypeOK, RequestsTypeOK, ScanCheckpoints, ScanRef, ScanTest, At
<1>2. /\ TrustedCheckpoints' = TrustedCheckpoints
      /\ \A side : ListBySide(side)' = ListBySide(side)
  BY <1>1, TrailsSame DEF tables
<1>3. CASE ScanCheckpoints(w)
  <2>1. PICK r : r = [req[w] EXCEPT !.left = TrustedCheckpoints, !.pc = "ref"]
    OBVIOUS
  <2>2. r.left = TrustedCheckpoints /\ r.pc = "ref"
    BY <1>1, <2>1 DEF Request
  <2>3. req'[w] = r
    BY <1>3, <2>1, BecomeIs DEF ScanCheckpoints
  <2> QED
    BY <1>2, <2>2, <2>3 DEF ScanLocal
<1>4. CASE ScanRef(w)
  <2>1. PICK r : r = [req[w] EXCEPT !.ref = ListBySide("reference"), !.pc = "test"]
    OBVIOUS
  <2>2. r.left = req[w].left /\ r.pc = "test" /\ r.ref = ListBySide("reference")
    BY <1>1, <2>1 DEF Request
  <2>3. req'[w] = r
    BY <1>4, <2>1, BecomeIs DEF ScanRef
  <2>4. req[w].left = TrustedCheckpoints
    BY <1>1, <1>4 DEF ScanRef, At, ScanLocal
  <2> QED
    BY <1>2, <2>2, <2>3, <2>4 DEF ScanLocal
<1>5. CASE ScanTest(w)
  <2>1. CASE req[w].left = {}
    <3>1. req'[w].op = "none"
      BY <1>5, <2>1, BecomeIs DEF ScanTest, Finish, Idle
    <3> QED
      BY <3>1 DEF ScanLocal
  <2>2. CASE req[w].left # {}
    <3>1. PICK r : r = [req[w] EXCEPT !.test = ListBySide("under_test"),
                                      !.pc = "upsert_ref"]
      OBVIOUS
    <3>2. /\ r.left = req[w].left /\ r.pc = "upsert_ref" /\ r.ref = req[w].ref
          /\ r.test = ListBySide("under_test")
      BY <1>1, <3>1 DEF Request
    <3>3. req'[w] = r
      BY <1>5, <2>2, <3>1, BecomeIs DEF ScanTest
    <3>4. req[w].left = TrustedCheckpoints /\ req[w].ref = ListBySide("reference")
      BY <1>1, <1>5 DEF ScanTest, At, ScanLocal
    <3> QED
      BY <1>2, <3>2, <3>3, <3>4 DEF ScanLocal
  <2> QED
    BY <2>1, <2>2
<1> QED
  BY <1>3, <1>4, <1>5

\* The first of the two upserts of a checkpoint.
LEMMA ScanWritesRef ==
  ASSUME TypeInv, NEW w \in Workers, ScanLocal(req[w]), ScanUpsertRef(w)
  PROVE  ScanLocal(req[w])'
<1>1. /\ req[w] \in Request /\ req[w].op = "scan" /\ req[w].pc = "upsert_ref"
      /\ UNCHANGED <<events, cps>>
  BY DEF TypeInv, TypeOK, RequestsTypeOK, ScanUpsertRef, At
<1>2. /\ TrustedCheckpoints' = TrustedCheckpoints
      /\ \A side : ListBySide(side)' = ListBySide(side)
  BY <1>1, TrailsSame
<1>3. /\ req[w].ref = ListBySide("reference") /\ req[w].test = ListBySide("under_test")
      /\ \A c \in TrustedCheckpoints \ req[w].left : PairIsCurrent(c)
  BY <1>1 DEF ScanLocal
<1>4. PICK cp \in Seqs :
        /\ IsFirst(cp, req[w].left)
        /\ \/ Finish(w)
           \/ /\ Replayable(req[w].ref, cp) /\ Replayable(req[w].test, cp)
              /\ \E hash \in Hash :
                   /\ Replayed(req[w].ref, cp, hash)
                   /\ UpsertFingerprint(cp, "reference", hash)
                   /\ Goto(w, "upsert_test")
  BY DEF ScanUpsertRef
<1>5. CASE Finish(w)
  BY <1>5, BecomeIs DEF Finish, Idle, ScanLocal
<1>6. ASSUME NEW hash \in Hash,
             Replayable(req[w].ref, cp), Replayable(req[w].test, cp),
             Replayed(req[w].ref, cp, hash),
             UpsertFingerprint(cp, "reference", hash),
             Goto(w, "upsert_test")
      PROVE  ScanLocal(req[w])'
  <2>1. /\ req'[w].pc = "upsert_test" /\ req'[w].left = req[w].left
        /\ req'[w].ref = req[w].ref /\ req'[w].test = req[w].test
    BY <1>1, <1>6 DEF Goto, TypeInv, TypeOK, RequestsTypeOK, Request
  <2>2. /\ fps'[cp]["reference"] = hash
        /\ \A s \in Seqs \ {cp} : fps'[s] = fps[s]
    BY <1>6, Upserted DEF Side
  <2>3. ASSUME NEW c \in Seqs, IsFirst(c, req[w].left)
        PROVE  /\ SideIsCurrent("reference", c)'
               /\ Replayable(ListBySide("under_test"), c)'
    <3>1. c = cp
      BY <1>1, <1>4, <2>3, SeqsAssumption DEF IsFirst
    <3> QED
      BY <1>2, <1>3, <1>6, <2>2, <3>1 DEF SideIsCurrent
  <2>4. ASSUME NEW c \in TrustedCheckpoints \ req[w].left
        PROVE  PairIsCurrent(c)'
    <3>1. c \in Seqs /\ c # cp
      BY <1>4 DEF TrustedCheckpoints, IsFirst
    <3> QED
      BY <1>1, <1>3, <2>2, <2>4, <3>1, PairSame
  <2> QED
    BY <1>2, <1>3, <2>1, <2>3, <2>4 DEF ScanLocal
<1> QED
  BY <1>4, <1>5, <1>6

\* The second upsert completes the pair; a scan that ends with it has left
\* nothing but pairs of the trails as they are.
LEMMA ScanWritesTest ==
  ASSUME TypeInv, NEW w \in Workers, ScanLocal(req[w]), ScanUpsertTest(w)
  PROVE  /\ ScanLocal(req[w])'
         /\ req'[w].op = "none" =>
              (\A cp \in TrustedCheckpoints : PairIsCurrent(cp))'
<1>1. /\ req[w] \in Request /\ req[w].op = "scan" /\ req[w].pc = "upsert_test"
      /\ UNCHANGED <<events, cps>>
  BY DEF TypeInv, TypeOK, RequestsTypeOK, ScanUpsertTest, At
<1>2. /\ TrustedCheckpoints' = TrustedCheckpoints
      /\ \A side : ListBySide(side)' = ListBySide(side)
  BY <1>1, TrailsSame
<1>3. /\ req[w].ref = ListBySide("reference") /\ req[w].test = ListBySide("under_test")
      /\ \A c \in TrustedCheckpoints \ req[w].left : PairIsCurrent(c)
      /\ \A c \in Seqs : IsFirst(c, req[w].left) =>
           SideIsCurrent("reference", c) /\ Replayable(ListBySide("under_test"), c)
  BY <1>1 DEF ScanLocal
<1>4. PICK cp \in Seqs, hash \in Hash :
        /\ IsFirst(cp, req[w].left)
        /\ Replayed(req[w].test, cp, hash)
        /\ UpsertFingerprint(cp, "under_test", hash)
        /\ IF req[w].left = {cp}
             THEN Finish(w)
             ELSE Become(w, [req[w] EXCEPT !.left = @ \ {cp}, !.pc = "upsert_ref"])
  BY DEF ScanUpsertTest
<1>5. /\ fps'[cp]["under_test"] = hash
      /\ fps'[cp]["reference"] = fps[cp]["reference"]
      /\ \A s \in Seqs \ {cp} : fps'[s] = fps[s]
  BY <1>4, Upserted DEF Side
<1>6. PairIsCurrent(cp)'
  <2>1. SideIsCurrent("reference", cp)'
    BY <1>2, <1>3, <1>4, <1>5 DEF SideIsCurrent
  <2>2. SideIsCurrent("under_test", cp)'
    BY <1>2, <1>3, <1>4, <1>5 DEF SideIsCurrent
  <2> QED
    BY <2>1, <2>2 DEF PairIsCurrent, SideIsCurrent, Side
<1>7. \A c \in TrustedCheckpoints \ (req[w].left \ {cp}) : PairIsCurrent(c)'
  <2>1. ASSUME NEW c \in TrustedCheckpoints, c \notin req[w].left, c # cp
        PROVE  PairIsCurrent(c)'
    BY <1>1, <1>3, <1>5, <2>1, PairSame DEF TrustedCheckpoints
  <2> QED
    BY <1>6, <2>1
<1>8. CASE req[w].left = {cp}
  <2>1. req'[w].op = "none"
    BY <1>4, <1>8, BecomeIs DEF Finish, Idle
  <2> QED
    BY <1>2, <1>7, <1>8, <2>1 DEF ScanLocal
<1>9. CASE req[w].left # {cp}
  <2>1. PICK r : r = [req[w] EXCEPT !.left = @ \ {cp}, !.pc = "upsert_ref"]
    OBVIOUS
  <2>2. /\ r.op = "scan" /\ r.pc = "upsert_ref" /\ r.left = req[w].left \ {cp}
        /\ r.ref = req[w].ref /\ r.test = req[w].test
    BY <1>1, <2>1 DEF Request
  <2>3. req'[w] = r
    BY <1>4, <1>9, <2>1, BecomeIs
  <2> QED
    BY <1>2, <1>3, <1>7, <2>2, <2>3 DEF ScanLocal
<1> QED
  BY <1>8, <1>9

\* The step of one request, and whatever makes none.
LEMMA ScansStep ==
  ASSUME Alone({"scan"}), OverlapInv, ScansOK, [Next]_vars
  PROVE  ScansOK'
<1>1. TypeInv
  BY DEF OverlapInv
<1>2. CASE UNCHANGED vars
  <2>1. /\ TrustedCheckpoints' = TrustedCheckpoints
        /\ \A side : ListBySide(side)' = ListBySide(side)
        /\ UNCHANGED <<fps, req>>
    BY <1>2, TrailsSame DEF vars
  <2> QED
    BY <2>1 DEF ScansOK, ScanLocal, PairIsCurrent, SideIsCurrent
<1>3. CASE \A w \in Workers : req'[w].op # "scan"
  BY <1>3 DEF ScansOK, ScanLocal
<1>4. ASSUME NEW w \in Workers, Step(w), \A v \in Workers \ {w} : req'[v].op # "scan"
      PROVE  ScansOK'
  <2>1. SUFFICES ScanLocal(req[w])'
    BY <1>4 DEF ScansOK, ScanLocal
  <2>2. CASE req[w].op = "none"
    <3>1. req'[w].pc \notin {"ref", "test", "upsert_ref", "upsert_test"}
      BY <1>1, <1>4, <2>2, BeginsAt
    <3> QED
      BY <3>1 DEF ScanLocal
  <2>3. CASE req[w].op = "scan"
    <3>1. ScanLocal(req[w])
      BY DEF ScansOK
    <3> QED
      BY <1>1, <1>4, <2>3, <3>1, ScanActions, ScanReads, ScanWritesRef, ScanWritesTest
  <2>4. CASE req[w].op \notin {"none", "scan"}
    <3>1. req'[w].op # "scan"
      BY <1>1, <1>4, <2>4, StepRequests
    <3> QED
      BY <3>1 DEF ScanLocal
  <2> QED
    BY <2>2, <2>3, <2>4
<1> QED
  BY <1>2, <1>3, <1>4, AloneSteps DEF Ops

\* No scan runs at the start.
LEMMA InitScans ==
  ASSUME Init
  PROVE  ScansOK
BY DEF Init, RequestsInit, Idle, ScansOK, ScanLocal

\* A scan that comes to its end leaves the pairs of the trails as they are,
\* whatever was imported since the last one and wherever that one stopped.
THEOREM ScansRepair ==
  ASSUME Alone({"scan"})
  PROVE  Spec => ScanRepairs
<1>1. Init => OverlapInv /\ ScansOK
  BY InitOverlapInv, InitScans
<1>2. OverlapInv /\ ScansOK /\ [Next]_vars => OverlapInv' /\ ScansOK'
  BY NextOverlapInv, ScansStep
<1>3. OverlapInv /\ ScansOK =>
        [\A w \in Workers :
           ScanUpsertTest(w) /\ req'[w].op = "none" =>
             (\A cp \in TrustedCheckpoints : PairIsCurrent(cp))']_vars
  BY ScanWritesTest DEF OverlapInv, ScansOK
<1> QED
  BY <1>1, <1>2, <1>3, PTL DEF Spec, ScanRepairs

-----------------------------------------------------------------------------
(* Compare.                                                                *)

\* Nothing is judged before the batch is compared.
CandidatesOnly ==
  batch.status \in Early =>
    \A d \in Divergences : divs[d].status = "candidate"

\* A Compare about to create a candidate has found none at its checkpoint.
CreateLocal(r) ==
  r.op = "compare" /\ r.pc = "create" =>
    \A cp \in Seqs : IsFirst(cp, r.left) =>
      \A d \in Divergences : divs[d].cp # cp

ComparesOK == \A w \in Workers : CreateLocal(req[w])

CandidateInv ==
  /\ EarlyInv /\ EvidenceInv
  /\ CandidatesOnly /\ ComparesOK
  /\ OneDivergencePerCheckpoint

\* The steps of a Compare.
LEMMA CompareActions ==
  ASSUME NEW w \in Workers, Step(w), req[w].op = "compare"
  PROVE  \/ CompareCheckpoints(w) \/ ComparePair(w) \/ CompareExisting(w)
         \/ CompareCreate(w) \/ CompareEnd(w)
<1>1. ~TrailNext(w)
  BY TrailOps
<1>2. ~SnapshotNext(w)
  BY DEF SnapshotNext, ConfirmBegin, ConfirmUpdate, SealBegin, SealUpdate,
         DraftBegin, DraftCheckpoints, DraftExcluded, DraftInsert, PublishBegin,
         PublishGet, PublishSummary, PublishCommit, At, Begin, MayStart
<1> QED
  BY <1>1, <1>2
     DEF Step, CompareNext, ScanBegin, ScanCheckpoints, ScanRef, ScanTest,
         ScanUpsertRef, ScanUpsertTest, CompareBegin, TraceBegin, TraceGet,
         TraceRef, TraceTest, TraceDeps, TraceSaveChain, TraceUpdate,
         TraceConfirm, At, Begin, MayStart

\* The step of a Compare that comes to "create" has listed the divergences.
LEMMA CompareStep ==
  ASSUME Alone({"compare"}), CandidateInv, NEW w \in Workers, Step(w), req[w].op = "compare"
  PROVE  CreateLocal(req[w])'
<1>1. TypeInv /\ req[w] \in Request
  BY DEF CandidateInv, EarlyInv, OverlapInv, TypeInv, TypeOK, RequestsTypeOK
<1>2. CASE CompareCheckpoints(w) \/ ComparePair(w) \/ CompareCreate(w) \/ CompareEnd(w)
  <2>1. ASSUME NEW r, Become(w, r), r.pc # "create"
        PROVE  CreateLocal(req[w])'
    BY <1>1, <2>1, BecomeIs DEF CreateLocal
  <2>2. \A cp : /\ [req[w] EXCEPT !.left = TrustedCheckpoints, !.pc = "pair"].pc = "pair"
                /\ [req[w] EXCEPT !.scanned = TRUE, !.pc = "existing"].pc = "existing"
                /\ [req[w] EXCEPT !.left = @ \ {cp}, !.pc = "pair"].pc = "pair"
                /\ [req[w] EXCEPT !.scanned = @ \/ PairFound(cp),
                                  !.left = @ \ {cp}].pc = req[w].pc
                /\ Idle.pc = "none"
    BY <1>1 DEF Request, Idle
  <2> QED
    BY <1>2, <2>1, <2>2
       DEF CompareCheckpoints, ComparePair, CompareCreate, CompareEnd, Finish, At
<1>3. CASE CompareExisting(w)
  <2>1. PICK cp \in Seqs :
          /\ IsFirst(cp, req[w].left)
          /\ IF HasCandidate(cp)
               THEN Become(w, [req[w] EXCEPT !.left = @ \ {cp}, !.pc = "pair"])
               ELSE Goto(w, "create")
    BY <1>3 DEF CompareExisting
  <2>2. CASE HasCandidate(cp)
    <3>1. PICK r : r = [req[w] EXCEPT !.left = @ \ {cp}, !.pc = "pair"]
      OBVIOUS
    <3>2. r.pc = "pair"
      BY <1>1, <3>1 DEF Request
    <3>3. req'[w] = r
      BY <1>1, <2>1, <2>2, <3>1, BecomeIs
    <3> QED
      BY <3>2, <3>3 DEF CreateLocal
  <2>3. CASE ~HasCandidate(cp)
    <3>1. req'[w].left = req[w].left /\ UNCHANGED divs
      BY <1>1, <1>3, <2>1, <2>3
         DEF Goto, TypeInv, TypeOK, RequestsTypeOK, Request, CompareExisting, tables
    <3>2. batch.status \in Early
      BY <1>3 DEF CompareExisting, At, CandidateInv, EarlyInv, EarlyQuiet
    <3>3. \A d \in Divergences : divs[d].cp # cp
      BY <2>3, <3>2 DEF CandidateInv, CandidatesOnly, HasCandidate
    <3>4. \A c \in Seqs : IsFirst(c, req[w].left) => c = cp
      BY <2>1, SeqsAssumption DEF IsFirst
    <3>5. Divergences' = Divergences
      BY <3>1 DEF Divergences
    <3> QED
      BY <3>1, <3>3, <3>4, <3>5 DEF CreateLocal
  <2> QED
    BY <2>2, <2>3
<1> QED
  BY <1>2, <1>3, CompareActions

\* Every step keeps what a Compare has found.
LEMMA ComparesStep ==
  ASSUME Alone({"compare"}), CandidateInv, [Next]_vars
  PROVE  ComparesOK'
<1>1. OverlapInv /\ TypeInv
  BY DEF CandidateInv, EarlyInv, OverlapInv
<1>2. CASE UNCHANGED vars
  BY <1>2 DEF CandidateInv, ComparesOK, CreateLocal, Divergences, vars
<1>3. CASE \A w \in Workers : req'[w].op # "compare"
  BY <1>3 DEF ComparesOK, CreateLocal
<1>4. ASSUME NEW w \in Workers, Step(w), \A v \in Workers \ {w} : req'[v].op # "compare"
      PROVE  ComparesOK'
  <2>1. SUFFICES CreateLocal(req[w])'
    BY <1>4 DEF ComparesOK, CreateLocal
  <2>2. CASE req[w].op = "none"
    <3>1. req'[w].pc # "create"
      BY <1>1, <1>4, <2>2, BeginsAt
    <3> QED
      BY <3>1 DEF CreateLocal
  <2>3. CASE req[w].op = "compare"
    BY <1>4, <2>3, CompareStep
  <2>4. CASE req[w].op \notin {"none", "compare"}
    <3>1. req'[w].op # "compare"
      BY <1>1, <1>4, <2>4, StepRequests
    <3> QED
      BY <3>1 DEF CreateLocal
  <2> QED
    BY <2>2, <2>3, <2>4
<1> QED
  BY <1>1, <1>2, <1>3, <1>4, AloneSteps DEF Ops

\* What a new row and a verdict leave in the table.
LEMMA Created ==
  ASSUME CandidateInv, NEW w \in Workers, CompareCreate(w)
  PROVE  \E cp \in Seqs, d \in DivIds :
           /\ IsFirst(cp, req[w].left)
           /\ d \notin Divergences
           /\ divs' = [divs EXCEPT ![d] =
                         [cp |-> cp, status |-> "candidate", first |-> 0]]
           /\ Divergences' = Divergences \cup {d}
<1>1. divs \in [DivIds -> DivRow]
  BY DEF CandidateInv, EvidenceInv, TypeInv, TypeOK, StoreTypeOK
<1>2. PICK cp \in Seqs, d \in DivIds :
        /\ IsFirst(cp, req[w].left)
        /\ IsFirst(d, DivIds \ Divergences)
        /\ divs' = [divs EXCEPT ![d] = [cp |-> cp, status |-> "candidate", first |-> 0]]
  BY DEF CompareCreate, CreateDivergence
<1>3. d \notin Divergences
  BY <1>2 DEF IsFirst
<1>4. Divergences' = Divergences \cup {d}
  BY <1>1, <1>2 DEF Divergences
<1> QED
  BY <1>2, <1>3, <1>4

\* What a verdict changes in the table: one row, never its checkpoint.
LEMMA Judged ==
  ASSUME EvidenceInv, NEW w \in Workers, TraceUpdate(w)
  PROVE  /\ req[w].id \in Divergences
         /\ Divergences' = Divergences
         /\ \A d \in DivIds : divs'[d].cp = divs[d].cp
         /\ \A d \in DivIds \ {req[w].id} : divs'[d] = divs[d]
         /\ divs'[req[w].id].status = req[w].div.status
         /\ divs'[req[w].id].first = req[w].div.first
<1>1. /\ divs \in [DivIds -> DivRow]
      /\ req[w].id \in Divergences /\ req[w].id \in DivIds
      /\ req[w].div.status \in {"insufficient_evidence", "confirmed"}
  BY DEF EvidenceInv, TypeInv, TypeOK, StoreTypeOK, TracesOK, TraceLocal,
         TraceUpdate, At, Divergences
<1>2. divs' = [divs EXCEPT ![req[w].id] =
        [[@ EXCEPT !.status = req[w].div.status] EXCEPT !.first = req[w].div.first]]
  BY <1>1 DEF TraceUpdate, UpdateDivergence
<1>3. /\ \A d \in DivIds : divs'[d].cp = divs[d].cp
      /\ \A d \in DivIds \ {req[w].id} : divs'[d] = divs[d]
      /\ divs'[req[w].id].status = req[w].div.status
      /\ divs'[req[w].id].first = req[w].div.first
  BY <1>1, <1>2 DEF DivRow
<1>4. Divergences' = Divergences
  BY <1>1, <1>3 DEF Divergences
<1> QED
  BY <1>1, <1>3, <1>4

\* A trace has seen the batch compared.
LEMMA TracesLate ==
  ASSUME EarlyInv, NEW w \in Workers, req[w].op = "trace"
  PROVE  batch.status \notin Early
<1>1. req[w].b.status = "pending_loc"
  BY DEF EarlyInv, OverlapInv, CopyAccepted, Accepts
<1> QED
  BY <1>1 DEF EarlyInv, EarlyQuiet, Early

\* CandidateInv is inductive.
LEMMA CandidateStep ==
  ASSUME Alone({"compare"}), CandidateInv, [Next]_vars
  PROVE  CandidateInv'
<1>1. EarlyInv' /\ EvidenceInv' /\ ComparesOK'
  BY NextEarlyInv, NextEvidenceInv, ComparesStep DEF CandidateInv
<1>2. /\ EarlyInv /\ OverlapInv /\ EvidenceInv /\ TypeOK
      /\ batch'.status \in Early => batch.status \in Early
  BY EarlyWrites DEF CandidateInv, EarlyInv, EarlyQuiet, EvidenceInv, TypeInv
<1>3. CASE UNCHANGED divs
  BY <1>1, <1>2, <1>3
     DEF CandidateInv, CandidatesOnly, OneDivergencePerCheckpoint, Divergences
<1>4. ASSUME NEW w \in Workers, CompareCreate(w)
      PROVE  CandidatesOnly' /\ OneDivergencePerCheckpoint'
  <2>1. PICK cp \in Seqs, d \in DivIds :
          /\ IsFirst(cp, req[w].left)
          /\ d \notin Divergences
          /\ divs' = [divs EXCEPT ![d] =
                        [cp |-> cp, status |-> "candidate", first |-> 0]]
          /\ Divergences' = Divergences \cup {d}
    BY <1>4, Created DEF CandidateInv
  <2>2. \A e \in Divergences : divs[e].cp # cp
    BY <1>4, <2>1 DEF CompareCreate, At, CandidateInv, ComparesOK, CreateLocal
  <2>3. /\ divs'[d] = [cp |-> cp, status |-> "candidate", first |-> 0]
        /\ \A e \in Divergences : divs'[e] = divs[e]
    BY <1>2, <2>1 DEF TypeOK, StoreTypeOK, Divergences
  <2> QED
    BY <1>2, <2>1, <2>2, <2>3 DEF CandidateInv, CandidatesOnly, OneDivergencePerCheckpoint
<1>5. ASSUME NEW w \in Workers, TraceUpdate(w)
      PROVE  CandidatesOnly' /\ OneDivergencePerCheckpoint'
  <2>1. batch.status \notin Early
    BY <1>2, <1>5, TracesLate DEF TraceUpdate, At
  <2>2. /\ Divergences' = Divergences /\ Divergences \subseteq DivIds
        /\ \A d \in DivIds : divs'[d].cp = divs[d].cp
    BY <1>2, <1>5, Judged DEF Divergences
  <2> QED
    BY <1>2, <2>1, <2>2 DEF CandidateInv, CandidatesOnly, OneDivergencePerCheckpoint
<1> QED
  BY <1>1, <1>3, <1>4, <1>5, DivWriters DEF CandidateInv

\* No divergence exists at the start.
LEMMA InitCandidate ==
  ASSUME Init
  PROVE  CandidateInv
<1>1. Divergences = {}
  BY DEF Init, StoreInit, NoDiv, Divergences
<1>2. ComparesOK
  BY DEF Init, RequestsInit, Idle, ComparesOK, CreateLocal
<1> QED
  BY <1>1, <1>2, InitEarlyInv, InitEvidenceInv
     DEF CandidateInv, CandidatesOnly, OneDivergencePerCheckpoint

\* A Compare that is repeated after it failed half way finds the candidates that
\* it has made: there is one divergence per checkpoint.
THEOREM CandidatesAreUnique ==
  ASSUME Alone({"compare"})
  PROVE  Spec => []OneDivergencePerCheckpoint
<1>1. Init => CandidateInv
  BY InitCandidate
<1>2. CandidateInv /\ [Next]_vars => CandidateInv'
  BY CandidateStep
<1>3. CandidateInv => OneDivergencePerCheckpoint
  BY DEF CandidateInv
<1> QED
  BY <1>1, <1>2, <1>3, PTL DEF Spec

-----------------------------------------------------------------------------
(* TraceDivergence.                                                        *)

\* A trace of these trails cannot confirm anything at this checkpoint.
NoVerdict(cp) ==
  \/ Differs(cp) = {}
  \/ SameState(ListBySide("reference"), ListBySide("under_test"), cp)

\* What a trace holds: the trails as they are; then the verdict that is right for
\* them; before the verdict is written, the chain that belongs to it; and before
\* the batch is confirmed, a confirmed row.
JudgeLocal(r) ==
  r.op = "trace" =>
    /\ r.pc \in {"test", "deps"} => r.ref = ListBySide("reference")
    /\ r.pc = "deps" => r.test = ListBySide("under_test")
    /\ r.pc \in {"save_chain", "update"} =>
         IF r.div.status = "confirmed"
           THEN IsFirst(r.div.first, Differs(r.div.cp)) /\ ~NoVerdict(r.div.cp)
           ELSE NoVerdict(r.div.cp)
    /\ r.pc = "update" /\ r.div.status = "confirmed" => chain[r.id] = {r.div.first}
    /\ r.pc = "confirm" => divs[r.id].status = "confirmed"

JudgesOK == \A w \in Workers : JudgeLocal(req[w])

\* What a confirmed divergence has: the verdict that is right for the trails as
\* they are, and its chain.
Backed(d) ==
  divs[d].status = "confirmed" =>
    /\ IsFirst(divs[d].first, Differs(divs[d].cp))
    /\ ~NoVerdict(divs[d].cp)
    /\ chain[d] = {divs[d].first}

VerdictInv == CandidateInv /\ JudgesOK /\ \A d \in DivIds : Backed(d)

\* The steps of a trace.
LEMMA TraceActions ==
  ASSUME NEW w \in Workers, Step(w), req[w].op = "trace"
  PROVE  \/ TraceGet(w) \/ TraceRef(w) \/ TraceTest(w) \/ TraceDeps(w)
         \/ TraceSaveChain(w) \/ TraceUpdate(w) \/ TraceConfirm(w)
<1>1. ~TrailNext(w)
  BY TrailOps
<1>2. ~SnapshotNext(w)
  BY DEF SnapshotNext, ConfirmBegin, ConfirmUpdate, SealBegin, SealUpdate,
         DraftBegin, DraftCheckpoints, DraftExcluded, DraftInsert, PublishBegin,
         PublishGet, PublishSummary, PublishCommit, At, Begin, MayStart
<1> QED
  BY <1>1, <1>2
     DEF Step, CompareNext, ScanBegin, ScanCheckpoints, ScanRef, ScanTest,
         ScanUpsertRef, ScanUpsertTest, CompareBegin, CompareCheckpoints,
         ComparePair, CompareExisting, CompareCreate, CompareEnd, TraceBegin,
         At, Begin, MayStart

\* The same trails differ at the same instructions, and end in the same state.
LEMMA VerdictsSame ==
  ASSUME \A side \in Side : ListBySide(side)' = ListBySide(side)
  PROVE  \A cp : Differs(cp)' = Differs(cp) /\ NoVerdict(cp)' = NoVerdict(cp)
BY DEF Differs, NoVerdict, Side

\* A trace reads its divergence and both trails.
LEMMA TraceLists ==
  ASSUME TypeInv, NEW w \in Workers, JudgeLocal(req[w]),
         TraceGet(w) \/ TraceRef(w) \/ TraceTest(w)
  PROVE  JudgeLocal(req[w])'
<1>1. /\ req[w] \in Request /\ req[w].op = "trace" /\ UNCHANGED tables
  BY DEF TypeInv, TypeOK, RequestsTypeOK, TraceGet, TraceRef, TraceTest, At
<1>2. \A side : ListBySide(side)' = ListBySide(side)
  BY <1>1 DEF tables, ListBySide
<1>3. CASE TraceGet(w)
  <2>1. PICK r : r = [req[w] EXCEPT !.div = divs[req[w].id], !.pc = "ref"]
    OBVIOUS
  <2>2. r.pc = "ref"
    BY <1>1, <2>1 DEF Request
  <2>3. req'[w] = r
    BY <1>3, <2>1, BecomeIs DEF TraceGet
  <2> QED
    BY <2>2, <2>3 DEF JudgeLocal
<1>4. CASE TraceRef(w)
  <2>1. PICK r : r = [req[w] EXCEPT !.ref = ListBySide("reference"), !.pc = "test"]
    OBVIOUS
  <2>2. r.pc = "test" /\ r.ref = ListBySide("reference")
    BY <1>1, <2>1 DEF Request
  <2>3. req'[w] = r
    BY <1>4, <2>1, BecomeIs DEF TraceRef
  <2> QED
    BY <1>2, <2>2, <2>3 DEF JudgeLocal
<1>5. CASE TraceTest(w)
  <2>1. PICK r : r = [req[w] EXCEPT !.test = ListBySide("under_test"), !.pc = "deps"]
    OBVIOUS
  <2>2. r.pc = "deps" /\ r.ref = req[w].ref /\ r.test = ListBySide("under_test")
    BY <1>1, <2>1 DEF Request
  <2>3. req'[w] = r
    BY <1>5, <2>1, BecomeIs DEF TraceTest
  <2>4. req[w].ref = ListBySide("reference")
    BY <1>1, <1>5 DEF TraceTest, At, JudgeLocal
  <2> QED
    BY <1>2, <2>2, <2>3, <2>4 DEF JudgeLocal
<1> QED
  BY <1>3, <1>4, <1>5

\* The verdict computed is right for the trails as they are.
LEMMA TraceJudges ==
  ASSUME TypeInv, NEW w \in Workers, JudgeLocal(req[w]), TraceDeps(w)
  PROVE  JudgeLocal(req[w])'
<1>1. /\ req[w] \in Request /\ req[w].div \in DivRow
      /\ req[w].op = "trace" /\ req[w].pc = "deps"
      /\ UNCHANGED <<events, chain>>
  BY DEF TypeInv, TypeOK, RequestsTypeOK, Request, TraceDeps, At
<1>2. \A cp : Differs(cp)' = Differs(cp) /\ NoVerdict(cp)' = NoVerdict(cp)
  BY <1>1, VerdictsSame DEF ListBySide
<1>3. /\ WritesDiffer(req[w].ref, req[w].test, req[w].div.cp) = Differs(req[w].div.cp)
      /\ NoVerdict(req[w].div.cp) <=>
           \/ Differs(req[w].div.cp) = {}
           \/ SameState(req[w].ref, req[w].test, req[w].div.cp)
  BY <1>1 DEF JudgeLocal, Differs, NoVerdict
<1>4. \/ Finish(w)
      \/ /\ SameState(req[w].ref, req[w].test, req[w].div.cp)
         /\ Become(w, [req[w] EXCEPT !.div.status = "insufficient_evidence",
                                     !.pc = "update"])
      \/ \E s \in Seqs \cup {0} :
           /\ ~SameState(req[w].ref, req[w].test, req[w].div.cp)
           /\ FirstDivergent(req[w].ref, req[w].test, req[w].div.cp, s)
           /\ Become(w, [req[w] EXCEPT
                !.div.first = s,
                !.div.status =
                  IF WritesDiffer(req[w].ref, req[w].test, req[w].div.cp) = {}
                    THEN "insufficient_evidence" ELSE "confirmed",
                !.pc = "save_chain"])
  BY DEF TraceDeps
<1>5. CASE Finish(w)
  BY <1>5, BecomeIs DEF Finish, Idle, JudgeLocal
<1>6. CASE /\ SameState(req[w].ref, req[w].test, req[w].div.cp)
           /\ Become(w, [req[w] EXCEPT !.div.status = "insufficient_evidence",
                                       !.pc = "update"])
  <2>1. PICK r : r = [req[w] EXCEPT !.div.status = "insufficient_evidence",
                                    !.pc = "update"]
    OBVIOUS
  <2>2. /\ r.pc = "update" /\ r.div.status = "insufficient_evidence"
        /\ r.div.cp = req[w].div.cp
    BY <1>1, <2>1 DEF Request, DivRow
  <2>3. req'[w] = r
    BY <1>6, <2>1, BecomeIs
  <2>4. NoVerdict(r.div.cp)
    BY <1>3, <1>6, <2>2
  <2> QED
    BY <1>2, <2>2, <2>3, <2>4 DEF JudgeLocal
<1>7. ASSUME NEW s \in Seqs \cup {0}, NEW status,
             ~SameState(req[w].ref, req[w].test, req[w].div.cp),
             FirstDivergent(req[w].ref, req[w].test, req[w].div.cp, s),
             status = IF WritesDiffer(req[w].ref, req[w].test, req[w].div.cp) = {}
                        THEN "insufficient_evidence" ELSE "confirmed",
             Become(w, [req[w] EXCEPT !.div.first = s, !.div.status = status,
                                      !.pc = "save_chain"])
      PROVE  JudgeLocal(req[w])'
  <2>1. PICK r : r = [req[w] EXCEPT !.div.first = s, !.div.status = status,
                                    !.pc = "save_chain"]
    OBVIOUS
  <2>2. /\ r.pc = "save_chain"
        /\ r.div = [[req[w].div EXCEPT !.first = s] EXCEPT !.status = status]
    BY <1>1, <2>1 DEF Request
  <2>3. r.div.cp = req[w].div.cp /\ r.div.first = s /\ r.div.status = status
    BY <1>1, <2>2 DEF DivRow
  <2>4. req'[w] = r
    BY <1>7, <2>1, BecomeIs
  <2>5. status # "confirmed" => NoVerdict(r.div.cp)
    BY <1>3, <1>7, <2>3
  <2>6. status = "confirmed" => IsFirst(s, Differs(r.div.cp)) /\ ~NoVerdict(r.div.cp)
    BY <1>3, <1>7, <2>3 DEF FirstDivergent
  <2> QED
    BY <1>2, <2>2, <2>3, <2>4, <2>5, <2>6 DEF JudgeLocal
<1> QED
  BY <1>4, <1>5, <1>6, <1>7

\* The chain is written before the verdict that needs it.
LEMMA TraceWrites ==
  ASSUME EvidenceInv, NEW w \in Workers, JudgeLocal(req[w]),
         TraceSaveChain(w) \/ TraceUpdate(w) \/ TraceConfirm(w)
  PROVE  JudgeLocal(req[w])'
<1>1. /\ TypeInv /\ req[w] \in Request /\ req[w].op = "trace" /\ UNCHANGED events
      /\ req[w].id \in DivIds
      /\ req[w].pc = "update" =>
           req[w].div.status \in {"insufficient_evidence", "confirmed"}
  BY DEF EvidenceInv, TracesOK, TraceLocal, Divergences, TypeInv, TypeOK,
         RequestsTypeOK, TraceSaveChain, TraceUpdate, TraceConfirm, At
<1>2. \A cp : Differs(cp)' = Differs(cp) /\ NoVerdict(cp)' = NoVerdict(cp)
  BY <1>1, VerdictsSame DEF ListBySide
<1>3. CASE TraceSaveChain(w)
  <2>1. /\ req'[w].pc = "update" /\ req'[w].id = req[w].id
        /\ req'[w].div = req[w].div
    BY <1>1, <1>3 DEF TraceSaveChain, Goto, TypeInv, TypeOK, RequestsTypeOK, Request
  <2>2. chain'[req[w].id] = ChainNodes(req[w].div)
    BY <1>1, <1>3 DEF TraceSaveChain, SaveChain, TypeInv, TypeOK, StoreTypeOK
  <2>3. IF req[w].div.status = "confirmed"
          THEN IsFirst(req[w].div.first, Differs(req[w].div.cp)) /\ ~NoVerdict(req[w].div.cp)
          ELSE NoVerdict(req[w].div.cp)
    BY <1>1, <1>3 DEF TraceSaveChain, At, JudgeLocal
  <2> QED
    BY <1>2, <2>1, <2>2, <2>3 DEF JudgeLocal, ChainNodes
<1>4. CASE TraceUpdate(w)
  <2>1. CASE Finish(w)
    BY <1>1, <2>1, EndsRequests DEF Ends, JudgeLocal
  <2>2. CASE ~Finish(w)
    <3>1. Goto(w, "confirm") /\ req[w].div.status = "confirmed"
      BY <1>1, <1>4, <2>2 DEF TraceUpdate, At
    <3>2. req'[w].pc = "confirm" /\ req'[w].id = req[w].id
      BY <1>1, <3>1 DEF Goto, TypeInv, TypeOK, RequestsTypeOK, Request
    <3>3. divs'[req[w].id].status = "confirmed"
      BY <1>4, <3>1, Judged
    <3> QED
      BY <3>2, <3>3 DEF JudgeLocal
  <2> QED
    BY <2>1, <2>2
<1>5. CASE TraceConfirm(w)
  <2>1. Finish(w)
    BY <1>5 DEF TraceConfirm
  <2> QED
    BY <1>1, <2>1, EndsRequests DEF Ends, JudgeLocal
<1> QED
  BY <1>3, <1>4, <1>5

\* Events are only imported, excluded and aligned.
LEMMA EventSteps ==
  ASSUME [Next]_vars
  PROVE  \/ UNCHANGED events
         \/ \E w \in Workers : \/ ImportInsert(w) \/ ExcludeUpdate(w)
                             \/ SyncAlignRef(w) \/ SyncAlignTest(w)
<1>1. CASE Restart \/ UNCHANGED vars
  BY <1>1 DEF Restart, tables, vars
<1>2. ASSUME NEW w \in Workers, Fail(w)
      PROVE  UNCHANGED events
  BY <1>2 DEF Fail, tables
<1>3. ASSUME NEW w \in Workers, TrailNext(w)
      PROVE  \/ UNCHANGED events \/ ImportInsert(w) \/ ExcludeUpdate(w)
             \/ SyncAlignRef(w) \/ SyncAlignTest(w)
  BY <1>3
     DEF TrailNext, ImportBegin, ImportCheck, CheckpointBegin, CheckpointInsert,
         MarkBegin, MarkUpdate, ExcludeBegin, SyncBegin, SyncRangeRef,
         SyncRangeTest, SyncListRef, SyncListTest, SyncCommit, tables
<1>4. ASSUME NEW w \in Workers, CompareNext(w)
      PROVE  UNCHANGED events
  BY <1>4
     DEF CompareNext, ScanBegin, ScanCheckpoints, ScanRef, ScanTest,
         ScanUpsertRef, ScanUpsertTest, CompareBegin, CompareCheckpoints,
         ComparePair, CompareExisting, CompareCreate, CompareEnd, TraceBegin,
         TraceGet, TraceRef, TraceTest, TraceDeps, TraceSaveChain, TraceUpdate,
         TraceConfirm, tables
<1>5. ASSUME NEW w \in Workers, SnapshotNext(w)
      PROVE  UNCHANGED events
  BY <1>5
     DEF SnapshotNext, ConfirmBegin, ConfirmUpdate, SealBegin, SealUpdate,
         DraftBegin, DraftCheckpoints, DraftExcluded, DraftInsert, PublishBegin,
         PublishGet, PublishSummary, PublishCommit, tables
<1> QED
  BY <1>1, <1>2, <1>3, <1>4, <1>5 DEF Next

\* ExcludeEvent touches the status of one row, and nothing that it does.
LEMMA ExcludedOrKept ==
  ASSUME TypeInv, NEW w \in Workers, ExcludeUpdate(w)
  PROVE  \A side \in Side, s \in Seqs :
           /\ events'[side][s].val = events[side][s].val
           /\ events'[side][s].status \in {events[side][s].status, "excluded"}
<1>1. events \in [Side -> [Seqs -> EventRow]] /\ req[w] \in Request
  BY DEF TypeInv, TypeOK, StoreTypeOK, RequestsTypeOK
<1>2. PICK own \in Side, seq \in Nat : own = req[w].side /\ seq = req[w].seq
  BY <1>1 DEF Request
<1>3. events' = [events EXCEPT ![own] = [@ EXCEPT ![seq].status = "excluded"]]
  BY <1>2 DEF ExcludeUpdate, UpdateEventStatus
<1>4. PICK rows : rows = [events[own] EXCEPT ![seq].status = "excluded"]
  OBVIOUS
<1>5. \A s \in Seqs : /\ rows[s].val = events[own][s].val
                     /\ rows[s].status \in {events[own][s].status, "excluded"}
  BY <1>1, <1>2, <1>4 DEF EventRow
<1>6. \A side \in Side : events'[side] = IF side = own THEN rows ELSE events[side]
  BY <1>1, <1>3, <1>4
<1> QED
  BY <1>5, <1>6

\* Once the batch is compared, no step changes what an event does: imports and
\* Sync are over, an exclusion leaves the content alone.
LEMMA TrailsKept ==
  ASSUME EarlyInv, [Next]_vars, batch.status \notin Early
  PROVE  \A side \in Side : ListBySide(side)' = ListBySide(side)
<1>1. /\ TypeInv /\ events \in [Side -> [Seqs -> EventRow]]
      /\ req \in [Workers -> Request]
  BY DEF EarlyInv, OverlapInv, TypeInv, TypeOK, StoreTypeOK, RequestsTypeOK
<1>2. CASE UNCHANGED events
  BY <1>2 DEF ListBySide
<1>3. ASSUME NEW w \in Workers, ExcludeUpdate(w)
      PROVE  \A side \in Side : ListBySide(side)' = ListBySide(side)
  BY <1>1, <1>3, ExcludedOrKept DEF ListBySide
<1>4. ASSUME NEW w \in Workers
      PROVE  ~ImportInsert(w) /\ ~SyncAlignRef(w) /\ ~SyncAlignTest(w)
  BY DEF ImportInsert, SyncAlignRef, SyncAlignTest, At, EarlyInv, EarlyQuiet
<1>5. UNCHANGED events \/ \E w \in Workers : ExcludeUpdate(w)
  BY <1>4, EventSteps
<1> QED
  BY <1>2, <1>3, <1>5

\* Chains are only saved by a trace.
LEMMA ChainWriters ==
  ASSUME [Next]_vars
  PROVE  UNCHANGED chain \/ \E w \in Workers : TraceSaveChain(w)
<1>1. CASE Restart \/ UNCHANGED vars
  BY <1>1 DEF Restart, tables, vars
<1>2. ASSUME NEW w \in Workers, Fail(w)
      PROVE  UNCHANGED chain
  BY <1>2 DEF Fail, tables
<1>3. ASSUME NEW w \in Workers, TrailNext(w)
      PROVE  UNCHANGED chain
  BY <1>3
     DEF TrailNext, ImportBegin, ImportCheck, ImportInsert, CheckpointBegin,
         CheckpointInsert, MarkBegin, MarkUpdate, ExcludeBegin, ExcludeUpdate,
         SyncBegin, SyncRangeRef, SyncRangeTest, SyncListRef, SyncListTest,
         SyncAlignRef, SyncAlignTest, SyncCommit, tables
<1>4. ASSUME NEW w \in Workers, CompareNext(w)
      PROVE  UNCHANGED chain \/ TraceSaveChain(w)
  BY <1>4
     DEF CompareNext, ScanBegin, ScanCheckpoints, ScanRef, ScanTest,
         ScanUpsertRef, ScanUpsertTest, CompareBegin, CompareCheckpoints,
         ComparePair, CompareExisting, CompareCreate, CompareEnd, TraceBegin,
         TraceGet, TraceRef, TraceTest, TraceDeps, TraceUpdate, TraceConfirm, tables
<1>5. ASSUME NEW w \in Workers, SnapshotNext(w)
      PROVE  UNCHANGED chain
  BY <1>5
     DEF SnapshotNext, ConfirmBegin, ConfirmUpdate, SealBegin, SealUpdate,
         DraftBegin, DraftCheckpoints, DraftExcluded, DraftInsert, PublishBegin,
         PublishGet, PublishSummary, PublishCommit, tables
<1> QED
  BY <1>1, <1>2, <1>3, <1>4, <1>5 DEF Next

\* What a verdict says is determined by the trails.
LEMMA FirstUnique ==
  ASSUME NEW cp, NEW s, NEW t, IsFirst(s, Differs(cp)), IsFirst(t, Differs(cp))
  PROVE  s = t
<1>1. Differs(cp) \subseteq Nat
  BY SeqsAssumption DEF Differs, WritesDiffer, Written, UpTo
<1> QED
  BY <1>1 DEF IsFirst

\* A trace that writes about a confirmed divergence has come to its verdict again.
LEMMA VerdictAgain ==
  ASSUME VerdictInv, NEW w \in Workers, req[w].op = "trace",
         req[w].pc \in {"save_chain", "update"},
         divs[req[w].id].status = "confirmed"
  PROVE  /\ req[w].div.status = "confirmed"
         /\ req[w].div.first = divs[req[w].id].first
<1>1. /\ req[w].id \in DivIds /\ req[w].div.cp = divs[req[w].id].cp
      /\ JudgeLocal(req[w])
      /\ Backed(req[w].id)
  BY DEF VerdictInv, CandidateInv, EvidenceInv, TracesOK, TraceLocal, JudgesOK,
         Divergences
<1>2. PICK cp : cp = req[w].div.cp
  OBVIOUS
<1>3. IsFirst(divs[req[w].id].first, Differs(cp)) /\ ~NoVerdict(cp)
  BY <1>1, <1>2 DEF Backed
<1>4. req[w].div.status = "confirmed" /\ IsFirst(req[w].div.first, Differs(cp))
  BY <1>1, <1>2, <1>3 DEF JudgeLocal
<1> QED
  BY <1>3, <1>4, FirstUnique

LEMMA VerdictStands ==
  ASSUME VerdictInv, [Next]_vars, NEW d \in DivIds, divs[d].status = "confirmed"
  PROVE  divs'[d] = divs[d]
<1>1. /\ CandidateInv /\ EvidenceInv /\ TypeInv /\ d \in Divergences
      /\ divs \in [DivIds -> DivRow]
  BY DEF VerdictInv, CandidateInv, EvidenceInv, TypeInv, TypeOK, StoreTypeOK, Divergences
<1>2. ASSUME NEW w \in Workers, CompareCreate(w)
      PROVE  divs'[d] = divs[d]
  BY <1>1, <1>2, Created
<1>3. ASSUME NEW w \in Workers, TraceUpdate(w)
      PROVE  divs'[d] = divs[d]
  <2>1. req[w].op = "trace" /\ req[w].pc = "update"
    BY <1>3 DEF TraceUpdate, At
  <2>2. CASE req[w].id # d
    BY <1>1, <1>3, <2>2, Judged
  <2>3. CASE req[w].id = d
    <3>1. /\ divs'[d].cp = divs[d].cp
          /\ divs'[d].status = divs[d].status
          /\ divs'[d].first = divs[d].first
      BY <1>1, <1>3, <2>1, <2>3, VerdictAgain, Judged
    <3>2. divs'[d] \in DivRow /\ divs[d] \in DivRow
      BY <1>1, NextTypeInv DEF TypeInv, TypeOK, StoreTypeOK
    <3> QED
      BY <3>1, <3>2 DEF DivRow
  <2> QED
    BY <2>2, <2>3
<1> QED
  BY <1>2, <1>3, DivWriters

\* What a trace holds stays right while other requests run, the traces of the
\* same divergence included: they have come to the same verdict.
LEMMA JudgeKept ==
  ASSUME VerdictInv, [Next]_vars, NEW v \in Workers, req'[v] = req[v]
  PROVE  JudgeLocal(req[v])'
<1> SUFFICES ASSUME req[v].op = "trace"
             PROVE  JudgeLocal(req[v])'
  BY DEF JudgeLocal
<1>1. /\ EarlyInv /\ EvidenceInv /\ JudgeLocal(req[v]) /\ TraceLocal(req[v])
      /\ req[v].id \in DivIds
      /\ chain \in [DivIds -> SUBSET Seqs]
  BY DEF VerdictInv, CandidateInv, EvidenceInv, TracesOK, TraceLocal, JudgesOK,
         Divergences, TypeInv, TypeOK, StoreTypeOK
<1>2. \A side \in Side : ListBySide(side)' = ListBySide(side)
  BY <1>1, TracesLate, TrailsKept
<1>3. \A cp : Differs(cp)' = Differs(cp) /\ NoVerdict(cp)' = NoVerdict(cp)
  BY <1>2, VerdictsSame
<1>4. req[v].pc = "confirm" => divs'[req[v].id].status = "confirmed"
  BY <1>1, VerdictStands DEF JudgeLocal
<1>5. ASSUME req[v].pc = "update", req[v].div.status = "confirmed"
      PROVE  chain'[req[v].id] = {req[v].div.first}
  <2>1. chain[req[v].id] = {req[v].div.first}
    BY <1>1, <1>5 DEF JudgeLocal
  <2>2. ASSUME NEW w \in Workers, TraceSaveChain(w), req[w].id = req[v].id
        PROVE  ChainNodes(req[w].div) = {req[v].div.first}
    <3>1. /\ req[w].op = "trace" /\ req[w].pc = "save_chain"
          /\ JudgeLocal(req[w]) /\ TraceLocal(req[w])
      BY <1>1, <2>2 DEF TraceSaveChain, At, VerdictInv, JudgesOK, EvidenceInv, TracesOK
    <3>2. PICK cp : cp = divs[req[v].id].cp
      OBVIOUS
    <3>3. req[w].div.cp = cp /\ req[v].div.cp = cp
      BY <1>1, <1>5, <2>2, <3>1, <3>2 DEF TraceLocal
    <3>4. IsFirst(req[v].div.first, Differs(cp)) /\ ~NoVerdict(cp)
      BY <1>1, <1>5, <3>3 DEF JudgeLocal
    <3>5. req[w].div.status = "confirmed" /\ IsFirst(req[w].div.first, Differs(cp))
      BY <3>1, <3>3, <3>4 DEF JudgeLocal
    <3>6. req[w].div.first = req[v].div.first
      BY <3>4, <3>5, FirstUnique
    <3> QED
      BY <3>5, <3>6 DEF ChainNodes
  <2>3. ASSUME NEW w \in Workers, TraceSaveChain(w)
        PROVE  chain'[req[v].id] = {req[v].div.first}
    BY <1>1, <2>1, <2>2, <2>3 DEF TraceSaveChain, SaveChain
  <2> QED
    BY <2>1, <2>3, ChainWriters
<1> QED
  BY <1>1, <1>2, <1>3, <1>4, <1>5 DEF JudgeLocal, Side

\* Every step keeps what a trace holds.
LEMMA JudgesStep ==
  ASSUME VerdictInv, [Next]_vars
  PROVE  JudgesOK'
<1>1. EvidenceInv /\ TypeInv
  BY DEF VerdictInv, CandidateInv, EvidenceInv
<1>2. SUFFICES ASSUME NEW v \in Workers, req'[v] # req[v]
               PROVE  JudgeLocal(req[v])'
  BY JudgeKept DEF JudgesOK
<1>3. CASE req'[v].op # "trace"
  BY <1>3 DEF JudgeLocal
<1>4. ASSUME Step(v), req'[v].op = "trace"
      PROVE  JudgeLocal(req[v])'
  <2>1. CASE req[v].op = "none"
    <3>1. req'[v].pc = "get"
      BY <1>1, <1>4, <2>1, BeginsAt
    <3> QED
      BY <3>1 DEF JudgeLocal
  <2>2. CASE req[v].op = "trace"
    <3>1. JudgeLocal(req[v])
      BY DEF VerdictInv, JudgesOK
    <3> QED
      BY <1>1, <1>4, <2>2, <3>1, TraceActions, TraceLists, TraceJudges, TraceWrites
  <2> QED
    BY <1>1, <1>4, <2>1, <2>2, StepRequests
<1>5. ASSUME NEW w \in Workers, Step(w)
      PROVE  w = v
  BY <1>1, <1>2, <1>5, StepRequests
<1>6. ASSUME NEW w \in Workers, Fail(w)
      PROVE  req'[v].op = "none"
  BY <1>1, <1>2, <1>6, EndsRequests DEF Fail, Ends
<1>7. CASE Restart
  BY <1>3, <1>7 DEF Restart, Idle
<1> QED
  BY <1>2, <1>3, <1>4, <1>5, <1>6, <1>7 DEF Next, Step, vars

\* What is confirmed stays backed, and what becomes confirmed is.
LEMMA BackedStep ==
  ASSUME VerdictInv, [Next]_vars, NEW d \in DivIds
  PROVE  Backed(d)'
<1>1. /\ CandidateInv /\ EarlyInv /\ EvidenceInv /\ Backed(d) /\ JudgesOK
      /\ divs \in [DivIds -> DivRow] /\ chain \in [DivIds -> SUBSET Seqs]
  BY DEF VerdictInv, CandidateInv, EvidenceInv, TypeInv, TypeOK, StoreTypeOK
<1>2. PICK cp, first : cp = divs'[d].cp /\ first = divs'[d].first
  OBVIOUS
<1>3. SUFFICES ASSUME divs'[d].status = "confirmed"
               PROVE  /\ IsFirst(first, Differs(cp)') /\ ~NoVerdict(cp)'
                      /\ chain'[d] = {first}
  BY <1>2 DEF Backed, Differs, NoVerdict, IsFirst
<1>4. CASE divs[d].status = "confirmed"
  <2>1. divs'[d] = divs[d]
    BY <1>4, VerdictStands
  <2>2. batch.status \notin Early
    BY <1>1, <1>4 DEF CandidateInv, CandidatesOnly, Divergences
  <2>3. Differs(cp)' = Differs(cp) /\ NoVerdict(cp)' = NoVerdict(cp)
    BY <1>1, <2>2, TrailsKept, VerdictsSame
  <2>4. ASSUME NEW w \in Workers, TraceSaveChain(w)
        PROVE  chain'[d] = {first}
    <3>1. /\ req[w].op = "trace" /\ req[w].pc = "save_chain"
          /\ chain' = [chain EXCEPT ![req[w].id] = ChainNodes(req[w].div)]
      BY <2>4 DEF TraceSaveChain, At, SaveChain
    <3>2. CASE req[w].id # d
      BY <1>1, <1>2, <1>4, <2>1, <3>1, <3>2 DEF Backed
    <3>3. CASE req[w].id = d
      <4>1. req[w].div.status = "confirmed" /\ req[w].div.first = first
        BY <1>2, <1>4, <2>1, <3>1, <3>3, VerdictAgain
      <4> QED
        BY <1>1, <3>1, <3>3, <4>1 DEF ChainNodes
    <3> QED
      BY <3>2, <3>3
  <2> QED
    BY <1>1, <1>2, <1>4, <2>1, <2>3, <2>4, ChainWriters DEF Backed
<1>5. CASE divs[d].status # "confirmed"
  <2>1. PICK w \in Workers : CompareCreate(w) \/ TraceUpdate(w)
    BY <1>3, <1>5, DivWriters
  <2>2. ~CompareCreate(w)
    BY <1>1, <1>3, <1>5, Created
  <2>3. /\ TraceUpdate(w) /\ req[w].op = "trace" /\ req[w].pc = "update"
        /\ UNCHANGED <<events, chain>>
    BY <2>1, <2>2 DEF TraceUpdate, At
  <2>4. /\ req[w].id = d /\ req[w].div.status = "confirmed"
        /\ req[w].div.first = first
        /\ req[w].div.cp = cp
    BY <1>1, <1>2, <1>3, <1>5, <2>3, Judged DEF EvidenceInv, TracesOK, TraceLocal
  <2>5. JudgeLocal(req[w])
    BY <1>1 DEF JudgesOK
  <2>6. /\ IsFirst(first, Differs(cp)) /\ ~NoVerdict(cp)
        /\ chain[d] = {first}
    BY <2>3, <2>4, <2>5 DEF JudgeLocal
  <2>7. Differs(cp)' = Differs(cp) /\ NoVerdict(cp)' = NoVerdict(cp)
    BY <2>3, VerdictsSame DEF ListBySide
  <2> QED
    BY <2>3, <2>6, <2>7
<1> QED
  BY <1>4, <1>5

\* VerdictInv is inductive: a trace that is repeated, or runs beside another one
\* of its divergence, finds the instruction that was found before.
LEMMA VerdictStep ==
  ASSUME Alone({"compare"}), VerdictInv, [Next]_vars
  PROVE  VerdictInv'
<1>1. CandidateInv' /\ JudgesOK'
  BY CandidateStep, JudgesStep DEF VerdictInv
<1>2. \A d \in DivIds : Backed(d)'
  BY BackedStep
<1> QED
  BY <1>1, <1>2 DEF VerdictInv

\* Nothing is confirmed at the start.
LEMMA InitVerdict ==
  ASSUME Init
  PROVE  VerdictInv
<1>1. \A d \in DivIds : Backed(d)
  BY DEF Init, StoreInit, NoDiv, Backed
<1>2. JudgesOK
  BY DEF Init, RequestsInit, Idle, JudgesOK, JudgeLocal
<1> QED
  BY <1>1, <1>2, InitCandidate DEF VerdictInv

\* The instruction a confirmed divergence names is the first at which the trails
\* of the batch write different values.
THEOREM ConfirmedIsTheFirst ==
  ASSUME Alone({"compare"})
  PROVE  Spec => []ConfirmedIsFirst
<1>1. Init => VerdictInv
  BY InitVerdict
<1>2. VerdictInv /\ [Next]_vars => VerdictInv'
  BY VerdictStep
<1>3. VerdictInv => ConfirmedIsFirst
  BY DEF VerdictInv, Backed, ConfirmedIsFirst, Divergences, Differs
<1> QED
  BY <1>1, <1>2, <1>3, PTL DEF Spec

\* A trace that fails between its statements leaves no confirmed divergence
\* without the chain that belongs to it; a repeated trace, or one that overlaps
\* with it, neither.
THEOREM ConfirmedHasItsChain ==
  ASSUME Alone({"compare"})
  PROVE  Spec => []ConfirmedHasChain
<1>1. Init => VerdictInv
  BY InitVerdict
<1>2. VerdictInv /\ [Next]_vars => VerdictInv'
  BY VerdictStep
<1>3. VerdictInv => ConfirmedHasChain
  BY DEF VerdictInv, Backed, ConfirmedHasChain, Divergences
<1> QED
  BY <1>1, <1>2, <1>3, PTL DEF Spec

\* No trace takes a confirmation back or moves it, whatever overlaps it.
THEOREM VerdictsAreFinal ==
  ASSUME Alone({"compare"})
  PROVE  Spec => VerdictsStand
<1>1. Init => VerdictInv
  BY InitVerdict
<1>2. VerdictInv /\ [Next]_vars => VerdictInv'
  BY VerdictStep
<1>3. VerdictInv /\ [Next]_vars =>
        [\A d \in Divergences :
           divs[d].status = "confirmed" => divs'[d] = divs[d]]_divs
  BY VerdictStands DEF Divergences
<1> QED
  BY <1>1, <1>2, <1>3, PTL DEF Spec, VerdictsStand

-----------------------------------------------------------------------------
(* The confirmed batch.                                                    *)

SentOnly == \A w \in Workers : req[w].op \in Sent \cup {"none"}

SomeConfirmed == \E d \in Divergences : divs[d].status = "confirmed"

\* A batch row that is confirmed or sealed, the stored one or a copy that a
\* request may write back, has a confirmed divergence behind it.
RowsLocated ==
  "confirm" \notin Sent =>
    /\ batch.status \in {"confirmed", "sealed"} => SomeConfirmed
    /\ \A w \in Workers :
         req[w].op # "none" /\ req[w].b.status \in {"confirmed", "sealed"} =>
           SomeConfirmed

LocatedInv == VerdictInv /\ SentOnly /\ RowsLocated

LEMMA SentStep ==
  ASSUME TypeInv, SentOnly, [Next]_vars
  PROVE  SentOnly'
<1>1. ASSUME NEW w \in Workers, Fail(w) \/ Step(w)
      PROVE  SentOnly'
  <2>1. ASSUME NEW op \in Ops, Begins(w, op)
        PROVE  req'[w].op \in Sent
    BY <2>1, BeginsRequests DEF Begins, Begin, MayStart
  <2>2. req'[w].op \in Sent \cup {"none"}
    BY <1>1, <2>1, StepKinds, EndsRequests DEF Continues, SentOnly
  <2> QED
    BY <1>1, <2>2, StepRequests DEF SentOnly
<1>2. CASE Restart \/ UNCHANGED vars
  BY <1>2 DEF Restart, Idle, vars, SentOnly
<1> QED
  BY <1>1, <1>2 DEF Next, Step

LEMMA LocatedStep ==
  ASSUME Alone({"compare"}), LocatedInv, [Next]_vars
  PROVE  LocatedInv'
<1>1. /\ VerdictInv /\ CandidateInv /\ OverlapInv /\ TypeInv /\ SentOnly
      /\ RowsLocated
  BY DEF LocatedInv, VerdictInv, CandidateInv, EarlyInv, OverlapInv
<1>2. VerdictInv' /\ SentOnly'
  BY <1>1, VerdictStep, SentStep
<1>3. SomeConfirmed => SomeConfirmed'
  BY <1>1, VerdictStands DEF SomeConfirmed, Divergences
<1>4. SUFFICES ASSUME "confirm" \notin Sent
               PROVE  RowsLocated'
  BY <1>2 DEF LocatedInv, RowsLocated
<1>5. ASSUME batch'.status \in {"confirmed", "sealed"}
      PROVE  SomeConfirmed'
  <2>1. CASE UNCHANGED batch
    BY <1>1, <1>3, <1>4, <1>5, <2>1 DEF RowsLocated
  <2>2. CASE batch' # batch
    <3>1. PICK w \in Workers :
            \/ SyncCommit(w) \/ CompareEnd(w) \/ TraceConfirm(w)
            \/ ConfirmUpdate(w) \/ SealUpdate(w) \/ PublishCommit(w)
      BY <2>2, BatchWriters
    <3>2. CASE TraceConfirm(w)
      <4>1. JudgeLocal(req[w]) /\ TraceLocal(req[w]) /\ At(w, "trace", "confirm")
        BY <1>1, <3>2
           DEF TraceConfirm, At, VerdictInv, JudgesOK, CandidateInv, EvidenceInv, TracesOK
      <4>2. SomeConfirmed
        BY <4>1 DEF JudgeLocal, TraceLocal, At, SomeConfirmed
      <4> QED
        BY <1>3, <4>2
    <3>3. CASE ConfirmUpdate(w)
      BY <1>1, <1>4, <3>3 DEF ConfirmUpdate, At, SentOnly
    <3>4. CASE SealUpdate(w) \/ PublishCommit(w)
      <4>1. req[w].b.status = "confirmed" /\ req[w].op # "none"
        BY <1>1, <2>2, <3>1, <3>4, BatchWrites DEF SealUpdate, PublishCommit, At
      <4> QED
        BY <1>1, <1>3, <1>4, <4>1 DEF RowsLocated
    <3>5. CASE SyncCommit(w) \/ CompareEnd(w)
      BY <1>1, <1>5, <2>2, <3>1, <3>5, BatchWrites DEF SyncCommit, CompareEnd, At
    <3> QED
      BY <3>1, <3>2, <3>3, <3>4, <3>5
  <2> QED
    BY <2>1, <2>2
<1>6. ASSUME NEW w \in Workers, req'[w].op # "none",
             req'[w].b.status \in {"confirmed", "sealed"}
      PROVE  SomeConfirmed'
  BY <1>1, <1>3, <1>4, <1>6, RequestSteps DEF RowsLocated
<1> QED
  BY <1>5, <1>6 DEF RowsLocated

\* Unless the client confirms by hand, a batch is confirmed because of a located
\* divergence, and sealed on the strength of one.
THEOREM ConfirmedBatchIsLocated ==
  ASSUME Alone({"compare"})
  PROVE  Spec => []ConfirmedIsLocated
<1>1. Init => LocatedInv
  BY InitVerdict
     DEF Init, StoreInit, NewBatch, RequestsInit, Idle, LocatedInv, SentOnly, RowsLocated
<1>2. LocatedInv /\ [Next]_vars => LocatedInv'
  BY LocatedStep
<1>3. LocatedInv => ConfirmedIsLocated
  BY DEF LocatedInv, RowsLocated, SomeConfirmed, ConfirmedIsLocated
<1> QED
  BY <1>1, <1>2, <1>3, PTL DEF Spec

-----------------------------------------------------------------------------
(* Sync.                                                                   *)

\* What a Sync holds: a range around all events it has read the bounds of, and
\* lists of events that exist and are not excluded.
RangeLocal(r) ==
  r.op = "sync" =>
    /\ r.pc = "range_test" =>
         \A s \in Rows("reference") : r.lo <= s /\ s <= r.hi
    /\ r.pc \in {"list_ref", "list_test", "align"} =>
         \A side \in Side : \A s \in Rows(side) : r.lo <= s /\ s <= r.hi
    /\ r.pc \in {"list_test", "align"} => r.left \subseteq Alignable("reference")
    /\ r.pc = "align" => r.next \subseteq Alignable("under_test")

RangesOK == \A w \in Workers : RangeLocal(req[w])

AlignmentInv == LockedInv /\ RangesOK /\ AlignedInRange

\* The steps of a Sync.
LEMMA SyncActions ==
  ASSUME NEW w \in Workers, Step(w), req[w].op = "sync"
  PROVE  \/ SyncRangeRef(w) \/ SyncRangeTest(w) \/ SyncListRef(w)
         \/ SyncListTest(w) \/ SyncAlignRef(w) \/ SyncAlignTest(w) \/ SyncCommit(w)
<1>1. ~CompareNext(w)
  BY CompareOps
<1>2. ~SnapshotNext(w)
  BY DEF SnapshotNext, ConfirmBegin, ConfirmUpdate, SealBegin, SealUpdate,
         DraftBegin, DraftCheckpoints, DraftExcluded, DraftInsert, PublishBegin,
         PublishGet, PublishSummary, PublishCommit, At, Begin, MayStart
<1> QED
  BY <1>1, <1>2
     DEF Step, TrailNext, ImportBegin, ImportCheck, ImportInsert, CheckpointBegin,
         CheckpointInsert, MarkBegin, MarkUpdate, ExcludeBegin, ExcludeUpdate,
         SyncBegin, At, Begin, MayStart

\* SeqRange bounds the events of the side.
LEMMA SeqRangeBounds ==
  ASSUME NEW side \in Side, NEW lo, NEW hi, SeqRange(side, lo, hi)
  PROVE  \A s \in Rows(side) : lo <= s /\ s <= hi
BY DEF SeqRange, IsFirst, IsLast

\* The lists depend on the events alone.
LEMMA RowsSame ==
  ASSUME UNCHANGED events
  PROVE  \A side : Rows(side)' = Rows(side) /\ Alignable(side)' = Alignable(side)
BY DEF Rows, Alignable, ListExcluded

\* The ranges of the two sides, one around the other.
LEMMA RangeReads ==
  ASSUME TypeInv, NEW w \in Workers, RangeLocal(req[w]),
         SyncRangeRef(w) \/ SyncRangeTest(w)
  PROVE  RangeLocal(req[w])'
<1>1. /\ req[w] \in Request /\ req[w].op = "sync" /\ UNCHANGED events
      /\ req[w].lo \in Nat /\ req[w].hi \in Nat
  BY DEF TypeInv, TypeOK, RequestsTypeOK, Request, SyncRangeRef, SyncRangeTest, At, tables
<1>2. \A side \in Side : Rows(side) \subseteq Nat
  BY SeqsAssumption DEF Rows
<1>3. CASE SyncRangeRef(w)
  <2>1. PICK lo, hi \in Seqs \cup {0} :
          /\ SeqRange("reference", lo, hi)
          /\ Become(w, [req[w] EXCEPT !.lo = lo, !.hi = hi, !.pc = "range_test"])
    BY <1>3 DEF SyncRangeRef
  <2>2. PICK r : r = [req[w] EXCEPT !.lo = lo, !.hi = hi, !.pc = "range_test"]
    OBVIOUS
  <2>3. r.pc = "range_test" /\ r.lo = lo /\ r.hi = hi
    BY <1>1, <2>2 DEF Request
  <2>4. req'[w] = r
    BY <2>1, <2>2, BecomeIs
  <2>5. \A s \in Rows("reference") : lo <= s /\ s <= hi
    BY <2>1, SeqRangeBounds DEF Side
  <2> QED
    BY <1>1, <2>3, <2>4, <2>5, RowsSame DEF RangeLocal
<1>4. CASE SyncRangeTest(w)
  <2>1. PICK lo, hi \in Seqs \cup {0} :
          /\ SeqRange("under_test", lo, hi)
          /\ IF req[w].hi = 0 /\ hi = 0
               THEN Finish(w)
               ELSE Become(w, [req[w] EXCEPT
                      !.lo = IF req[w].lo < lo THEN req[w].lo ELSE lo,
                      !.hi = IF req[w].hi > hi THEN req[w].hi ELSE hi,
                      !.pc = "list_ref"])
    BY <1>4 DEF SyncRangeTest
  <2>2. CASE Finish(w)
    BY <2>2, BecomeIs DEF Finish, Idle, RangeLocal
  <2>3. ASSUME NEW min, NEW max,
               min = IF req[w].lo < lo THEN req[w].lo ELSE lo,
               max = IF req[w].hi > hi THEN req[w].hi ELSE hi,
               Become(w, [req[w] EXCEPT !.lo = min, !.hi = max, !.pc = "list_ref"])
        PROVE  RangeLocal(req[w])'
    <3>1. PICK r : r = [req[w] EXCEPT !.lo = min, !.hi = max, !.pc = "list_ref"]
      OBVIOUS
    <3>2. r.pc = "list_ref" /\ r.lo = min /\ r.hi = max
      BY <1>1, <3>1 DEF Request
    <3>3. req'[w] = r
      BY <2>3, <3>1, BecomeIs
    <3>4. lo \in Nat /\ hi \in Nat
      BY SeqsAssumption
    <3>5. \A s \in Rows("under_test") : min <= s /\ s <= max
      BY <1>1, <1>2, <2>1, <2>3, <3>4, SeqRangeBounds DEF Side
    <3>6. \A s \in Rows("reference") : min <= s /\ s <= max
      <4>1. \A s \in Rows("reference") : req[w].lo <= s /\ s <= req[w].hi
        BY <1>1, <1>4 DEF RangeLocal, SyncRangeTest, At
      <4> QED
        BY <1>1, <1>2, <2>3, <3>4, <4>1 DEF Side
    <3> QED
      BY <1>1, <3>2, <3>3, <3>5, <3>6, RowsSame DEF RangeLocal, Side
  <2> QED
    BY <2>1, <2>2, <2>3
<1> QED
  BY <1>3, <1>4

\* The events to align are listed.
LEMMA AlignLists ==
  ASSUME TypeInv, NEW w \in Workers, RangeLocal(req[w]),
         SyncListRef(w) \/ SyncListTest(w)
  PROVE  RangeLocal(req[w])'
<1>1. req[w] \in Request /\ req[w].op = "sync" /\ UNCHANGED events
  BY DEF TypeInv, TypeOK, RequestsTypeOK, SyncListRef, SyncListTest, At, tables
<1>2. CASE SyncListRef(w)
  <2>1. PICK r : r = [req[w] EXCEPT !.left = Alignable("reference"), !.pc = "list_test"]
    OBVIOUS
  <2>2. /\ r.pc = "list_test" /\ r.left = Alignable("reference")
        /\ r.lo = req[w].lo /\ r.hi = req[w].hi
    BY <1>1, <2>1 DEF Request
  <2>3. req'[w] = r
    BY <1>2, <2>1, BecomeIs DEF SyncListRef
  <2>4. \A side \in Side : \A s \in Rows(side) : req[w].lo <= s /\ s <= req[w].hi
    BY <1>1, <1>2 DEF SyncListRef, At, RangeLocal
  <2> QED
    BY <1>1, <2>2, <2>3, <2>4, RowsSame DEF RangeLocal
<1>3. CASE SyncListTest(w)
  <2>1. PICK r : r = [req[w] EXCEPT !.next = Alignable("under_test"), !.pc = "align"]
    OBVIOUS
  <2>2. /\ r.pc = "align" /\ r.next = Alignable("under_test")
        /\ r.left = req[w].left /\ r.lo = req[w].lo /\ r.hi = req[w].hi
    BY <1>1, <2>1 DEF Request
  <2>3. req'[w] = r
    BY <1>3, <2>1, BecomeIs DEF SyncListTest
  <2>4. /\ \A side \in Side : \A s \in Rows(side) : req[w].lo <= s /\ s <= req[w].hi
        /\ req[w].left \subseteq Alignable("reference")
    BY <1>1, <1>3 DEF SyncListTest, At, RangeLocal
  <2> QED
    BY <1>1, <2>2, <2>3, <2>4, RowsSame DEF RangeLocal
<1> QED
  BY <1>2, <1>3

\* Aligning an event that is there and not excluded changes no list.
LEMMA AlignEvent ==
  ASSUME TypeInv, NEW own \in Side, NEW s \in Seqs, s \in Alignable(own),
         UpdateEventStatus(own, s, "aligned")
  PROVE  /\ \A side \in Side : Rows(side)' = Rows(side)
         /\ \A side \in Side : Alignable(side)' = Alignable(side)
<1>1. events \in [Side -> [Seqs -> EventRow]]
  BY DEF TypeInv, TypeOK, StoreTypeOK
<1>2. events' = [events EXCEPT ![own] = [@ EXCEPT ![s].status = "aligned"]]
  BY DEF UpdateEventStatus
<1>3. \A side \in Side, t \in Seqs :
        events'[side][t].status =
          IF side = own /\ t = s THEN "aligned" ELSE events[side][t].status
  <2>1. PICK rows : rows = [events[own] EXCEPT ![s].status = "aligned"]
    OBVIOUS
  <2>2. \A t \in Seqs :
          rows[t].status = IF t = s THEN "aligned" ELSE events[own][t].status
    BY <1>1, <2>1 DEF EventRow
  <2>3. \A side \in Side : events'[side] = IF side = own THEN rows ELSE events[side]
    BY <1>1, <1>2, <2>1
  <2> QED
    BY <2>2, <2>3
<1>4. events[own][s].status \notin {"none", "excluded"}
  BY DEF Alignable, Rows, ListExcluded
<1>5. \A side \in Side : Rows(side)' = Rows(side)
  BY <1>3, <1>4 DEF Rows
<1>6. \A side \in Side : ListExcluded(side)' = ListExcluded(side)
  BY <1>3, <1>4 DEF ListExcluded
<1> QED
  BY <1>5, <1>6 DEF Alignable

\* The alignment loop.
LEMMA AlignSteps ==
  ASSUME TypeInv, NEW w \in Workers, RangeLocal(req[w]),
         SyncAlignRef(w) \/ SyncAlignTest(w)
  PROVE  RangeLocal(req[w])'
<1>1. /\ req[w] \in Request /\ req[w].op = "sync" /\ req[w].pc = "align"
      /\ \A side \in Side : \A s \in Rows(side) : req[w].lo <= s /\ s <= req[w].hi
      /\ req[w].left \subseteq Alignable("reference")
      /\ req[w].next \subseteq Alignable("under_test")
  BY DEF TypeInv, TypeOK, RequestsTypeOK, SyncAlignRef, SyncAlignTest, At, RangeLocal
<1>2. ASSUME NEW own \in Side, NEW s \in Seqs, NEW r,
             s \in Alignable(own), UpdateEventStatus(own, s, "aligned"), req'[w] = r,
             r.op = "sync", r.pc = "align", r.lo = req[w].lo, r.hi = req[w].hi,
             r.left \subseteq req[w].left, r.next \subseteq req[w].next
      PROVE  RangeLocal(req[w])'
  BY <1>1, <1>2, AlignEvent DEF RangeLocal, Side
<1>3. CASE SyncAlignRef(w)
  <2>1. PICK s \in Seqs : /\ IsFirst(s, req[w].left)
                          /\ UpdateEventStatus("reference", s, "aligned")
                          /\ Become(w, [req[w] EXCEPT !.left = @ \ {s}])
    BY <1>3 DEF SyncAlignRef
  <2>2. PICK r : r = [req[w] EXCEPT !.left = @ \ {s}]
    OBVIOUS
  <2>3. req'[w] = r /\ s \in Alignable("reference")
    BY <1>1, <2>1, <2>2, BecomeIs DEF IsFirst
  <2>4. /\ r.op = "sync" /\ r.pc = "align" /\ r.lo = req[w].lo /\ r.hi = req[w].hi
        /\ r.left \subseteq req[w].left /\ r.next \subseteq req[w].next
    BY <1>1, <2>2 DEF Request
  <2> QED
    BY <1>2, <2>1, <2>3, <2>4 DEF Side
<1>4. CASE SyncAlignTest(w)
  <2>1. PICK s \in Seqs : /\ IsFirst(s, req[w].next)
                          /\ UpdateEventStatus("under_test", s, "aligned")
                          /\ Become(w, [req[w] EXCEPT !.next = @ \ {s}])
    BY <1>4 DEF SyncAlignTest
  <2>2. PICK r : r = [req[w] EXCEPT !.next = @ \ {s}]
    OBVIOUS
  <2>3. req'[w] = r /\ s \in Alignable("under_test")
    BY <1>1, <2>1, <2>2, BecomeIs DEF IsFirst
  <2>4. /\ r.op = "sync" /\ r.pc = "align" /\ r.lo = req[w].lo /\ r.hi = req[w].hi
        /\ r.left \subseteq req[w].left /\ r.next \subseteq req[w].next
    BY <1>1, <2>2 DEF Request
  <2> QED
    BY <1>2, <2>1, <2>3, <2>4 DEF Side
<1> QED
  BY <1>3, <1>4

\* Every step keeps what a Sync holds.
LEMMA RangesStep ==
  ASSUME Alone({"sync"}), OverlapInv, RangesOK, [Next]_vars
  PROVE  RangesOK'
<1>1. TypeInv
  BY DEF OverlapInv
<1>2. CASE UNCHANGED vars
  BY <1>2, RowsSame DEF RangesOK, RangeLocal, vars
<1>3. CASE \A w \in Workers : req'[w].op # "sync"
  BY <1>3 DEF RangesOK, RangeLocal
<1>4. ASSUME NEW w \in Workers, Step(w), \A v \in Workers \ {w} : req'[v].op # "sync"
      PROVE  RangesOK'
  <2>1. SUFFICES RangeLocal(req[w])'
    BY <1>4 DEF RangesOK, RangeLocal
  <2>2. CASE req[w].op = "none"
    <3>1. req'[w].pc \in {"check", "insert", "update", "range_ref", "checkpoints", "get"}
      BY <1>1, <1>4, <2>2, BeginsAt
    <3> QED
      BY <3>1 DEF RangeLocal
  <2>3. CASE req[w].op = "sync"
    <3>1. RangeLocal(req[w])
      BY DEF RangesOK
    <3>2. CASE SyncCommit(w)
      BY <1>1, <3>2, BecomeIs DEF SyncCommit, Finish, Idle, RangeLocal
    <3> QED
      BY <1>1, <1>4, <2>3, <3>1, <3>2, SyncActions, RangeReads, AlignLists, AlignSteps
  <2>4. CASE req[w].op \notin {"none", "sync"}
    <3>1. req'[w].op # "sync"
      BY <1>1, <1>4, <2>4, StepRequests
    <3> QED
      BY <3>1 DEF RangeLocal
  <2> QED
    BY <2>2, <2>3, <2>4
<1> QED
  BY <1>1, <1>2, <1>3, <1>4, AloneSteps DEF Ops

\* After the lock nothing aligns an event: an import inserts raw ones, an
\* exclusion excludes.
LEMMA AlignedEarlier ==
  ASSUME Alone({"sync"}), OverlapInv, [Next]_vars, batch.status # "receiving"
  PROVE  \A side \in Side, s \in Seqs :
           events'[side][s].status = "aligned" => events[side][s].status = "aligned"
<1>1. /\ TypeInv /\ events \in [Side -> [Seqs -> EventRow]]
      /\ req \in [Workers -> Request]
  BY DEF OverlapInv, TypeInv, TypeOK, StoreTypeOK, RequestsTypeOK
<1>2. ASSUME NEW w \in Workers, ImportInsert(w)
      PROVE  \A side \in Side, s \in Seqs :
               events'[side][s].status = "aligned" => events[side][s].status = "aligned"
  <2>1. PICK own \in Side, frag \in Trail : own = req[w].side /\ frag = req[w].ref
    BY <1>1 DEF Request
  <2>2. \/ UNCHANGED events
        \/ events' = [events EXCEPT ![own] = [s \in Seqs |->
             IF frag[s] # "none" THEN [val |-> frag[s], status |-> "raw"] ELSE @[s]]]
    BY <1>2, <2>1 DEF ImportInsert, InsertBatch
  <2> QED
    BY <1>1, <2>2
<1>3. ASSUME NEW w \in Workers, ExcludeUpdate(w)
      PROVE  \A side \in Side, s \in Seqs :
               events'[side][s].status = "aligned" => events[side][s].status = "aligned"
  <2>1. \A side \in Side, s \in Seqs :
          events'[side][s].status \in {events[side][s].status, "excluded"}
    BY <1>1, <1>3, ExcludedOrKept
  <2> QED
    BY <2>1
<1>4. ASSUME NEW w \in Workers
      PROVE  ~SyncAlignRef(w) /\ ~SyncAlignTest(w)
  BY DEF SyncAlignRef, SyncAlignTest, At, OverlapInv, CopyCurrent, CopyAccepted,
         Accepts, Alone
<1> QED
  BY <1>2, <1>3, <1>4, EventSteps

\* What the batch row becomes, after the lock and by it.
LEMMA LockKept ==
  ASSUME LockedInv, RangesOK, [Next]_vars, batch'.status # "receiving"
  PROVE  \/ /\ batch.status # "receiving"
            /\ batch'.min = batch.min /\ batch'.max = batch.max
         \/ /\ UNCHANGED events
            /\ \A side \in Side : \A s \in Rows(side) : batch'.min <= s /\ s <= batch'.max
<1>1. ASSUME NEW w \in Workers, SyncCommit(w), batch' # batch
      PROVE  /\ UNCHANGED events
             /\ \A side \in Side : \A s \in Rows(side) : batch'.min <= s /\ s <= batch'.max
  <2>1. batch' = [status |-> "syncing", min |-> req[w].lo, max |-> req[w].hi]
    BY <1>1 DEF SyncCommit, UpdateBatch
  <2>2. \A side \in Side : \A s \in Rows(side) : req[w].lo <= s /\ s <= req[w].hi
    BY <1>1 DEF SyncCommit, At, RangesOK, RangeLocal
  <2> QED
    BY <1>1, <2>1, <2>2 DEF SyncCommit
<1> QED
  BY <1>1, LockedWrites DEF RangeOf

\* AlignmentInv is inductive.
LEMMA AlignmentStep ==
  ASSUME Alone({"sync"}), AlignmentInv, [Next]_vars
  PROVE  AlignmentInv'
<1>1. LockedInv' /\ RangesOK'
  BY NextLockedInv, RangesStep DEF AlignmentInv, LockedInv
<1>2. SUFFICES ASSUME batch'.status # "receiving",
                      NEW side \in Side, NEW s \in Seqs,
                      events'[side][s].status = "aligned"
               PROVE  batch'.min <= s /\ s <= batch'.max
  BY <1>1 DEF AlignmentInv, AlignedInRange
<1>3. CASE /\ batch.status # "receiving"
           /\ batch'.min = batch.min /\ batch'.max = batch.max
  BY <1>2, <1>3, AlignedEarlier DEF AlignmentInv, LockedInv, AlignedInRange
<1>4. CASE /\ UNCHANGED events
           /\ \A o \in Side : \A t \in Rows(o) : batch'.min <= t /\ t <= batch'.max
  BY <1>2, <1>4 DEF Rows
<1> QED
  BY <1>2, <1>3, <1>4, LockKept DEF AlignmentInv

\* Nothing is aligned at the start.
LEMMA InitAlignment ==
  ASSUME Init
  PROVE  AlignmentInv
<1>1. RangesOK
  BY DEF Init, RequestsInit, Idle, RangesOK, RangeLocal
<1>2. AlignedInRange
  BY DEF Init, StoreInit, NewBatch, AlignedInRange
<1> QED
  BY <1>1, <1>2, InitLockedInv DEF AlignmentInv

\* From the lock on every aligned event lies in the range the batch shows.
THEOREM AlignedStaysInRange ==
  ASSUME Alone({"sync"})
  PROVE  Spec => []AlignedInRange
<1>1. Init => AlignmentInv
  BY InitAlignment
<1>2. AlignmentInv /\ [Next]_vars => AlignmentInv'
  BY AlignmentStep
<1>3. AlignmentInv => AlignedInRange
  BY DEF AlignmentInv
<1> QED
  BY <1>1, <1>2, <1>3, PTL DEF Spec

\* No step takes an exclusion back: a Sync aligns only what it has listed, and
\* nothing was excluded in between; an import inserts only new rows.
LEMMA ExclusionStep ==
  ASSUME AlignmentInv, [Next]_vars,
         NEW side \in Side, NEW s \in Seqs, events[side][s].status = "excluded"
  PROVE  events'[side][s].status = "excluded"
<1>1. /\ TypeInv /\ events \in [Side -> [Seqs -> EventRow]]
      /\ req \in [Workers -> Request]
  BY DEF AlignmentInv, LockedInv, OverlapInv, TypeInv, TypeOK, StoreTypeOK,
         RequestsTypeOK
<1>2. ASSUME NEW w \in Workers, ImportInsert(w)
      PROVE  events'[side][s].status = "excluded"
  <2>1. PICK own \in Side, frag \in Trail : own = req[w].side /\ frag = req[w].ref
    BY <1>1 DEF Request
  <2>2. \/ UNCHANGED events
        \/ /\ \A t \in Rows(own) : frag[t] = "none"
           /\ events' = [events EXCEPT ![own] = [t \in Seqs |->
                IF frag[t] # "none" THEN [val |-> frag[t], status |-> "raw"] ELSE @[t]]]
    BY <1>2, <2>1 DEF ImportInsert, InsertBatch
  <2>3. s \in Rows(side)
    BY DEF Rows
  <2> QED
    BY <1>1, <2>2, <2>3
<1>3. ASSUME NEW w \in Workers, ExcludeUpdate(w)
      PROVE  events'[side][s].status = "excluded"
  BY <1>1, <1>3, ExcludedOrKept
<1>4. ASSUME NEW w \in Workers, SyncAlignRef(w) \/ SyncAlignTest(w)
      PROVE  events'[side][s].status = "excluded"
  <2>1. RangeLocal(req[w]) /\ req[w].op = "sync" /\ req[w].pc = "align"
    BY <1>4 DEF AlignmentInv, RangesOK, SyncAlignRef, SyncAlignTest, At
  <2>2. PICK own \in Side, t \in Seqs :
          t \in Alignable(own) /\ UpdateEventStatus(own, t, "aligned")
    BY <1>4, <2>1 DEF SyncAlignRef, SyncAlignTest, IsFirst, RangeLocal, Side
  <2>3. s \notin Alignable(side)
    BY DEF Alignable, ListExcluded
  <2>4. Rows(side)' = Rows(side) /\ Alignable(side)' = Alignable(side)
    BY <1>1, <2>2, AlignEvent
  <2>5. s \in Rows(side)
    BY DEF Rows
  <2> QED
    BY <2>3, <2>4, <2>5 DEF Alignable, ListExcluded
<1> QED
  BY <1>2, <1>3, <1>4, EventSteps

\* An excluded event stays excluded, whatever is imported, synced or retried.
THEOREM ExclusionsKept ==
  ASSUME Alone({"sync"})
  PROVE  Spec => ExcludedStaysExcluded
<1>1. Init => AlignmentInv
  BY InitAlignment
<1>2. AlignmentInv /\ [Next]_vars => AlignmentInv'
  BY AlignmentStep
<1>3. AlignmentInv /\ [Next]_vars =>
        [\A side \in Side, s \in Seqs :
           events[side][s].status = "excluded" =>
             events'[side][s].status = "excluded"]_events
  BY ExclusionStep
<1> QED
  BY <1>1, <1>2, <1>3, PTL DEF Spec, ExcludedStaysExcluded

-----------------------------------------------------------------------------
(* The ends of the locked range.                                           *)

\* What a Sync knows of the ends of its range: until it has read both sides they
\* are those of the reference, then they are stored events, but for a side
\* without any.
EndsLocal(r) ==
  r.op = "sync" =>
    /\ r.pc = "range_test" => SeqRange("reference", r.lo, r.hi)
    /\ r.pc \in {"list_ref", "list_test", "align"} =>
         /\ r.hi \in StoredSeqs
         /\ \/ r.lo \in StoredSeqs
            \/ r.lo = 0 /\ \E side \in Side : Rows(side) = {}

EndsOK == \A w \in Workers : EndsLocal(req[w])

EndsInv == AlignmentInv /\ EndsOK /\ RangeEndsAtEvents

\* The range of the union of both sides.
LEMMA UnionEnds ==
  ASSUME NEW lo1 \in Nat, NEW hi1 \in Nat, SeqRange("reference", lo1, hi1),
         NEW lo2 \in Nat, NEW hi2 \in Nat, SeqRange("under_test", lo2, hi2),
         ~(hi1 = 0 /\ hi2 = 0)
  PROVE  /\ (IF hi1 > hi2 THEN hi1 ELSE hi2) \in StoredSeqs
         /\ \/ (IF lo1 < lo2 THEN lo1 ELSE lo2) \in StoredSeqs
            \/ /\ (IF lo1 < lo2 THEN lo1 ELSE lo2) = 0
               /\ \E side \in Side : Rows(side) = {}
<1>1. \/ Rows("reference") = {} /\ lo1 = 0 /\ hi1 = 0
      \/ lo1 \in StoredSeqs /\ hi1 \in StoredSeqs
  BY DEF SeqRange, IsFirst, IsLast, StoredSeqs
<1>2. \/ Rows("under_test") = {} /\ lo2 = 0 /\ hi2 = 0
      \/ lo2 \in StoredSeqs /\ hi2 \in StoredSeqs
  BY DEF SeqRange, IsFirst, IsLast, StoredSeqs
<1> QED
  BY <1>1, <1>2 DEF Side

\* What a Sync knows depends on the rows that exist alone.
LEMMA SameRowsSameEnds ==
  ASSUME \A side \in Side : Rows(side)' = Rows(side)
  PROVE  /\ StoredSeqs' = StoredSeqs
         /\ \A side \in Side : \A lo, hi : SeqRange(side, lo, hi)' <=> SeqRange(side, lo, hi)
BY DEF StoredSeqs, SeqRange, Side

\* Both sides are read.
LEMMA EndsRead ==
  ASSUME TypeInv, NEW w \in Workers, EndsLocal(req[w]),
         SyncRangeRef(w) \/ SyncRangeTest(w)
  PROVE  EndsLocal(req[w])'
<1>1. /\ req[w] \in Request /\ req[w].op = "sync" /\ UNCHANGED events
      /\ req[w].lo \in Nat /\ req[w].hi \in Nat
  BY DEF TypeInv, TypeOK, RequestsTypeOK, Request, SyncRangeRef, SyncRangeTest, At, tables
<1>2. \A side \in Side : Rows(side)' = Rows(side)
  BY <1>1, RowsSame
<1>3. CASE SyncRangeRef(w)
  <2>1. PICK lo, hi \in Seqs \cup {0} :
          /\ SeqRange("reference", lo, hi)
          /\ Become(w, [req[w] EXCEPT !.lo = lo, !.hi = hi, !.pc = "range_test"])
    BY <1>3 DEF SyncRangeRef
  <2>2. PICK r : r = [req[w] EXCEPT !.lo = lo, !.hi = hi, !.pc = "range_test"]
    OBVIOUS
  <2>3. r.pc = "range_test" /\ r.lo = lo /\ r.hi = hi
    BY <1>1, <2>2 DEF Request
  <2>4. req'[w] = r
    BY <2>1, <2>2, BecomeIs
  <2>5. SeqRange("reference", lo, hi)'
    BY <1>2, <2>1, SameRowsSameEnds DEF Side
  <2> QED
    BY <2>3, <2>4, <2>5 DEF EndsLocal
<1>4. CASE SyncRangeTest(w)
  <2>1. PICK lo, hi \in Seqs \cup {0} :
          /\ SeqRange("under_test", lo, hi)
          /\ IF req[w].hi = 0 /\ hi = 0
               THEN Finish(w)
               ELSE Become(w, [req[w] EXCEPT
                      !.lo = IF req[w].lo < lo THEN req[w].lo ELSE lo,
                      !.hi = IF req[w].hi > hi THEN req[w].hi ELSE hi,
                      !.pc = "list_ref"])
    BY <1>4 DEF SyncRangeTest
  <2>2. CASE Finish(w)
    BY <2>2, BecomeIs DEF Finish, Idle, EndsLocal
  <2>3. ASSUME ~(req[w].hi = 0 /\ hi = 0), NEW min, NEW max,
               min = IF req[w].lo < lo THEN req[w].lo ELSE lo,
               max = IF req[w].hi > hi THEN req[w].hi ELSE hi,
               Become(w, [req[w] EXCEPT !.lo = min, !.hi = max, !.pc = "list_ref"])
        PROVE  EndsLocal(req[w])'
    <3>1. PICK r : r = [req[w] EXCEPT !.lo = min, !.hi = max, !.pc = "list_ref"]
      OBVIOUS
    <3>2. r.pc = "list_ref" /\ r.lo = min /\ r.hi = max
      BY <1>1, <3>1 DEF Request
    <3>3. req'[w] = r
      BY <2>3, <3>1, BecomeIs
    <3>4. lo \in Nat /\ hi \in Nat
      BY SeqsAssumption
    <3>5. SeqRange("reference", req[w].lo, req[w].hi)
      BY <1>1, <1>4 DEF EndsLocal, SyncRangeTest, At
    <3>6. /\ max \in StoredSeqs
          /\ min \in StoredSeqs \/ (min = 0 /\ \E side \in Side : Rows(side) = {})
      BY <1>1, <2>1, <2>3, <3>4, <3>5, UnionEnds
    <3>7. StoredSeqs' = StoredSeqs
      BY <1>2, SameRowsSameEnds
    <3> QED
      BY <1>2, <3>2, <3>3, <3>6, <3>7 DEF EndsLocal
  <2> QED
    BY <2>1, <2>2, <2>3
<1> QED
  BY <1>3, <1>4

\* Listing and aligning leave the ends and the rows alone.
LEMMA EndsKept ==
  ASSUME TypeInv, NEW w \in Workers, RangeLocal(req[w]), EndsLocal(req[w]),
         SyncListRef(w) \/ SyncListTest(w) \/ SyncAlignRef(w) \/ SyncAlignTest(w)
  PROVE  EndsLocal(req[w])'
<1>1. req[w] \in Request /\ req[w].op = "sync"
  BY DEF TypeInv, TypeOK, RequestsTypeOK, SyncListRef, SyncListTest, SyncAlignRef,
         SyncAlignTest, At
<1>2. \A side \in Side : Rows(side)' = Rows(side)
  <2>1. CASE SyncListRef(w) \/ SyncListTest(w)
    BY <2>1, RowsSame DEF SyncListRef, SyncListTest, tables
  <2>2. CASE SyncAlignRef(w) \/ SyncAlignTest(w)
    <3>1. req[w].pc = "align"
      BY <2>2 DEF SyncAlignRef, SyncAlignTest, At
    <3>2. PICK own \in Side, t \in Seqs :
            t \in Alignable(own) /\ UpdateEventStatus(own, t, "aligned")
      BY <1>1, <2>2, <3>1 DEF SyncAlignRef, SyncAlignTest, IsFirst, RangeLocal, Side
    <3> QED
      BY <3>2, AlignEvent
  <2> QED
    BY <2>1, <2>2
<1>3. /\ req[w].hi \in StoredSeqs
      /\ \/ req[w].lo \in StoredSeqs
         \/ req[w].lo = 0 /\ \E side \in Side : Rows(side) = {}
  BY <1>1 DEF EndsLocal, SyncListRef, SyncListTest, SyncAlignRef, SyncAlignTest, At
<1>4. StoredSeqs' = StoredSeqs
  BY <1>2, SameRowsSameEnds
<1>5. ASSUME NEW r, req'[w] = r, r.pc \in {"list_test", "align"},
             r.lo = req[w].lo, r.hi = req[w].hi
      PROVE  EndsLocal(req[w])'
  BY <1>2, <1>3, <1>4, <1>5 DEF EndsLocal
<1>6. CASE SyncListRef(w)
  <2>1. PICK r : r = [req[w] EXCEPT !.left = Alignable("reference"), !.pc = "list_test"]
    OBVIOUS
  <2>2. req'[w] = r
    BY <1>6, <2>1, BecomeIs DEF SyncListRef
  <2>3. r.pc = "list_test" /\ r.lo = req[w].lo /\ r.hi = req[w].hi
    BY <1>1, <2>1 DEF Request
  <2> QED
    BY <1>5, <2>2, <2>3
<1>7. CASE SyncListTest(w)
  <2>1. PICK r : r = [req[w] EXCEPT !.next = Alignable("under_test"), !.pc = "align"]
    OBVIOUS
  <2>2. req'[w] = r
    BY <1>7, <2>1, BecomeIs DEF SyncListTest
  <2>3. r.pc = "align" /\ r.lo = req[w].lo /\ r.hi = req[w].hi
    BY <1>1, <2>1 DEF Request
  <2> QED
    BY <1>5, <2>2, <2>3
<1>8. CASE SyncAlignRef(w)
  <2>1. PICK s \in Seqs : Become(w, [req[w] EXCEPT !.left = @ \ {s}])
    BY <1>8 DEF SyncAlignRef
  <2>2. PICK r : r = [req[w] EXCEPT !.left = @ \ {s}]
    OBVIOUS
  <2>3. req'[w] = r
    BY <2>1, <2>2, BecomeIs
  <2>4. r.pc = "align" /\ r.lo = req[w].lo /\ r.hi = req[w].hi
    BY <1>1, <1>8, <2>2 DEF Request, SyncAlignRef, At
  <2> QED
    BY <1>5, <2>3, <2>4
<1>9. CASE SyncAlignTest(w)
  <2>1. PICK s \in Seqs : Become(w, [req[w] EXCEPT !.next = @ \ {s}])
    BY <1>9 DEF SyncAlignTest
  <2>2. PICK r : r = [req[w] EXCEPT !.next = @ \ {s}]
    OBVIOUS
  <2>3. req'[w] = r
    BY <2>1, <2>2, BecomeIs
  <2>4. r.pc = "align" /\ r.lo = req[w].lo /\ r.hi = req[w].hi
    BY <1>1, <1>9, <2>2 DEF Request, SyncAlignTest, At
  <2> QED
    BY <1>5, <2>3, <2>4
<1> QED
  BY <1>6, <1>7, <1>8, <1>9

\* Every step keeps what a Sync knows of the ends.
LEMMA EndsStep ==
  ASSUME Alone({"sync"}), OverlapInv, RangesOK, EndsOK, [Next]_vars
  PROVE  EndsOK'
<1>1. TypeInv
  BY DEF OverlapInv
<1>2. CASE UNCHANGED vars
  BY <1>2, RowsSame, SameRowsSameEnds DEF EndsOK, EndsLocal, vars, Side
<1>3. CASE \A w \in Workers : req'[w].op # "sync"
  BY <1>3 DEF EndsOK, EndsLocal
<1>4. ASSUME NEW w \in Workers, Step(w), \A v \in Workers \ {w} : req'[v].op # "sync"
      PROVE  EndsOK'
  <2>1. SUFFICES EndsLocal(req[w])'
    BY <1>4 DEF EndsOK, EndsLocal
  <2>2. CASE req[w].op = "none"
    <3>1. req'[w].pc \in {"check", "insert", "update", "range_ref", "checkpoints", "get"}
      BY <1>1, <1>4, <2>2, BeginsAt
    <3> QED
      BY <3>1 DEF EndsLocal
  <2>3. CASE req[w].op = "sync"
    <3>1. RangeLocal(req[w]) /\ EndsLocal(req[w])
      BY DEF RangesOK, EndsOK
    <3>2. CASE SyncCommit(w)
      BY <1>1, <3>2, BecomeIs DEF SyncCommit, Finish, Idle, EndsLocal
    <3> QED
      BY <1>1, <1>4, <2>3, <3>1, <3>2, SyncActions, EndsRead, EndsKept
  <2>4. CASE req[w].op \notin {"none", "sync"}
    <3>1. req'[w].op # "sync"
      BY <1>1, <1>4, <2>4, StepRequests
    <3> QED
      BY <3>1 DEF EndsLocal
  <2> QED
    BY <2>2, <2>3, <2>4
<1> QED
  BY <1>1, <1>2, <1>3, <1>4, AloneSteps DEF Ops

\* No step removes a row of exec_events.
LEMMA RowsStay ==
  ASSUME TypeInv, RangesOK, [Next]_vars
  PROVE  StoredSeqs \subseteq StoredSeqs'
<1>1. events \in [Side -> [Seqs -> EventRow]] /\ req \in [Workers -> Request]
  BY DEF TypeInv, TypeOK, StoreTypeOK, RequestsTypeOK
<1>2. SUFFICES ASSUME NEW side \in Side, NEW s \in Seqs, events[side][s].status # "none"
               PROVE  events'[side][s].status # "none"
  BY DEF StoredSeqs, Rows, Side
<1>3. ASSUME NEW w \in Workers, ImportInsert(w)
      PROVE  events'[side][s].status # "none"
  <2>1. PICK own \in Side, frag \in Trail : own = req[w].side /\ frag = req[w].ref
    BY <1>1 DEF Request
  <2>2. \/ UNCHANGED events
        \/ events' = [events EXCEPT ![own] = [t \in Seqs |->
             IF frag[t] # "none" THEN [val |-> frag[t], status |-> "raw"] ELSE @[t]]]
    BY <1>3, <2>1 DEF ImportInsert, InsertBatch
  <2> QED
    BY <1>1, <1>2, <2>2
<1>4. ASSUME NEW w \in Workers, ExcludeUpdate(w)
      PROVE  events'[side][s].status # "none"
  <2>1. events'[side][s].status \in {events[side][s].status, "excluded"}
    BY <1>4, ExcludedOrKept
  <2> QED
    BY <1>2, <2>1
<1>5. ASSUME NEW w \in Workers, SyncAlignRef(w) \/ SyncAlignTest(w)
      PROVE  events'[side][s].status # "none"
  <2>1. RangeLocal(req[w]) /\ req[w].op = "sync" /\ req[w].pc = "align"
    BY <1>5 DEF RangesOK, SyncAlignRef, SyncAlignTest, At
  <2>2. PICK own \in Side, t \in Seqs :
          t \in Alignable(own) /\ UpdateEventStatus(own, t, "aligned")
    BY <1>5, <2>1 DEF SyncAlignRef, SyncAlignTest, IsFirst, RangeLocal, Side
  <2>3. Rows(side)' = Rows(side)
    BY <2>2, AlignEvent
  <2> QED
    BY <1>2, <2>3 DEF Rows
<1> QED
  BY <1>2, <1>3, <1>4, <1>5, EventSteps

\* The ends of the batch row, after the lock and by it.
LEMMA LockEnds ==
  ASSUME LockedInv, EndsOK, [Next]_vars, batch'.status # "receiving"
  PROVE  \/ /\ batch.status # "receiving"
            /\ batch'.min = batch.min /\ batch'.max = batch.max
         \/ /\ UNCHANGED events
            /\ batch'.max \in StoredSeqs
            /\ \/ batch'.min \in StoredSeqs
               \/ batch'.min = 0 /\ \E side \in Side : Rows(side) = {}
<1>1. ASSUME NEW w \in Workers, SyncCommit(w), batch' # batch
      PROVE  /\ UNCHANGED events
             /\ batch'.max \in StoredSeqs
             /\ \/ batch'.min \in StoredSeqs
                \/ batch'.min = 0 /\ \E side \in Side : Rows(side) = {}
  <2>1. batch' = [status |-> "syncing", min |-> req[w].lo, max |-> req[w].hi]
    BY <1>1 DEF SyncCommit, UpdateBatch
  <2>2. /\ req[w].hi \in StoredSeqs
        /\ \/ req[w].lo \in StoredSeqs
           \/ req[w].lo = 0 /\ \E side \in Side : Rows(side) = {}
    BY <1>1 DEF SyncCommit, At, EndsOK, EndsLocal
  <2> QED
    BY <1>1, <2>1, <2>2 DEF SyncCommit
<1> QED
  BY <1>1, LockedWrites DEF RangeOf

\* EndsInv is inductive.
LEMMA EndsInvStep ==
  ASSUME Alone({"sync"}), EndsInv, [Next]_vars
  PROVE  EndsInv'
<1>1. /\ AlignmentInv' /\ EndsOK'
      /\ TypeInv /\ OverlapInv /\ LockedInv /\ RangesOK
  BY AlignmentStep, EndsStep DEF EndsInv, AlignmentInv, LockedInv, OverlapInv
<1>2. SUFFICES ASSUME batch'.status # "receiving"
               PROVE  /\ batch'.max \in StoredSeqs'
                      /\ \/ batch'.min \in StoredSeqs'
                         \/ batch'.min = 0 /\ \E side \in Side : NoneAligned(side)'
  BY <1>1 DEF EndsInv, RangeEndsAtEvents
<1>3. StoredSeqs \subseteq StoredSeqs'
  BY <1>1, RowsStay
<1>4. CASE /\ batch.status # "receiving"
           /\ batch'.min = batch.min /\ batch'.max = batch.max
  <2>1. \A side \in Side : NoneAligned(side) => NoneAligned(side)'
    BY <1>1, <1>4, AlignedEarlier DEF NoneAligned
  <2>2. /\ batch.max \in StoredSeqs
        /\ \/ batch.min \in StoredSeqs
           \/ batch.min = 0 /\ \E side \in Side : NoneAligned(side)
    BY <1>4 DEF EndsInv, RangeEndsAtEvents
  <2> QED
    BY <1>3, <1>4, <2>1, <2>2
<1>5. CASE /\ UNCHANGED events
           /\ batch'.max \in StoredSeqs
           /\ \/ batch'.min \in StoredSeqs
              \/ batch'.min = 0 /\ \E side \in Side : Rows(side) = {}
  <2>1. \A side \in Side : Rows(side) = {} => NoneAligned(side)'
    BY <1>5 DEF Rows, NoneAligned
  <2> QED
    BY <1>3, <1>5, <2>1
<1> QED
  BY <1>1, <1>2, <1>4, <1>5, LockEnds DEF EndsInv

\* From the lock on the range ends at stored events, and begins at 0 only for a
\* trail that has nothing aligned.
THEOREM RangeIsTight ==
  ASSUME Alone({"sync"})
  PROVE  Spec => []RangeEndsAtEvents
<1>1. Init => EndsInv
  <2>1. Init => EndsOK /\ RangeEndsAtEvents
    BY DEF Init, StoreInit, NewBatch, RequestsInit, Idle, EndsOK, EndsLocal,
           RangeEndsAtEvents
  <2> QED
    BY <2>1, InitAlignment DEF EndsInv
<1>2. EndsInv /\ [Next]_vars => EndsInv'
  BY EndsInvStep
<1>3. EndsInv => RangeEndsAtEvents
  BY DEF EndsInv
<1> QED
  BY <1>1, <1>2, <1>3, PTL DEF Spec

=============================================================================
