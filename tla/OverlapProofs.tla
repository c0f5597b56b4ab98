---------------------------- MODULE OverlapProofs ----------------------------
(***************************************************************************)
(* Proofs about requests that overlap, and which of them have to run alone *)
(* for what.  A request that runs alone still holds the batch row as it is *)
(* when it writes, whatever statement fails or when the process restarts.  *)
(* What the others hold has passed their check, and may be out of date.    *)
(***************************************************************************)
EXTENDS SnapshotProofs

\* The requests of these operations overlap with no other.
Alone(ops) == ops \cap Concurrent = {}

Step(w) == TrailNext(w) \/ CompareNext(w) \/ SnapshotNext(w)

\* The statuses in which a method goes on after reading the batch row.
Accepts(op) ==
  CASE op = "import"  -> {"receiving", "syncing"}
    [] op = "sync"    -> {"receiving"}
    [] op = "scan"    -> {"syncing", "pending_loc"}
    [] op = "compare" -> {"syncing"}
    [] op \in {"trace", "confirm"} -> {"pending_loc"}
    [] op = "seal"    -> {"confirmed"}
    [] op = "draft"   -> {"confirmed", "pending_loc"}
    [] op \in {"checkpoint", "mark", "exclude"} -> BatchStatus \ {"sealed"}
    [] OTHER          -> BatchStatus

\* Only requests that may overlap do.
Overlaps ==
  \A v, w \in Workers :
    v # w /\ req[v].op # "none" /\ req[w].op # "none" => req[v].op \in Concurrent

\* A request has passed its check of the status that it has read.
CopyAccepted ==
  \A w \in Workers : req[w].op # "none" => req[w].b.status \in Accepts(req[w].op)

\* What a request that runs alone has read is the row.
CopyCurrent ==
  \A w \in Workers : req[w].op \notin Concurrent \cup {"none"} => req[w].b = batch

OverlapInv == TypeInv /\ Overlaps /\ CopyAccepted /\ CopyCurrent

-----------------------------------------------------------------------------
(* Every step of a worker begins a request, goes on with one, or ends one. *)

Begins(w, op) ==
  \E pc \in Labels, args \in Request :
    /\ Begin(w, op, pc, args)
    /\ batch.status \in Accepts(op)
    /\ UNCHANGED batch

Continues(w) ==
  /\ req[w].op # "none"
  /\ \A v \in Workers \ {w} : req'[v] = req[v]
  /\ req'[w].op = req[w].op
  /\ req'[w].b = req[w].b
  /\ UNCHANGED batch

Ends(w) == req[w].op # "none" /\ Finish(w)

LEMMA BecomeContinues ==
  ASSUME TypeInv, NEW w \in Workers, NEW r, Become(w, r),
         r.op = req[w].op, r.b = req[w].b, req[w].op # "none", UNCHANGED batch
  PROVE  Continues(w)
BY DEF Continues, Become, TypeInv, TypeOK, RequestsTypeOK

LEMMA GotoContinues ==
  ASSUME TypeInv, NEW w \in Workers, NEW pc, Goto(w, pc),
         req[w].op # "none", UNCHANGED batch
  PROVE  Continues(w)
BY DEF Continues, Goto, TypeInv, TypeOK, RequestsTypeOK, Request

LEMMA TrailStepKinds ==
  ASSUME TypeInv, NEW w \in Workers, TrailNext(w)
  PROVE  \/ \E op \in {"import", "checkpoint", "mark", "exclude", "sync"} : Begins(w, op)
         \/ Continues(w)
         \/ Ends(w)
<1>1. /\ req[w] \in Request
      /\ batch.status \in BatchStatus
  BY DEF TypeInv, TypeOK, StoreTypeOK, RequestsTypeOK, BatchRow
<1>2. ASSUME NEW f \in Fragments, ImportBegin(w, f)
      PROVE  Begins(w, "import")
  BY <1>2, ArgsTyped DEF ImportBegin, Begins, Accepts, Ops, Labels, tables
<1>3. CASE ImportCheck(w)
  BY <1>1, <1>3, BecomeContinues, GotoContinues
     DEF ImportCheck, At, Ends, Request, tables
<1>4. ASSUME NEW s \in Seqs, CheckpointBegin(w, s) \/ MarkBegin(w, s)
      PROVE  Begins(w, "checkpoint") \/ Begins(w, "mark")
  BY <1>1, <1>4, ArgsTyped
     DEF CheckpointBegin, MarkBegin, Begins, Accepts, Ops, Labels, tables
<1>5. ASSUME NEW side \in Side, NEW s \in Seqs, ExcludeBegin(w, side, s)
      PROVE  Begins(w, "exclude")
  BY <1>1, <1>5, ArgsTyped DEF ExcludeBegin, Begins, Accepts, Ops, Labels, tables
<1>6. CASE SyncBegin(w)
  BY <1>6, IdleTyped DEF SyncBegin, Begins, Accepts, Ops, Labels, tables
<1>7. CASE SyncRangeRef(w) \/ SyncRangeTest(w)
  BY <1>1, <1>7, BecomeContinues, GotoContinues
     DEF SyncRangeRef, SyncRangeTest, At, Ends, Request, tables
<1>8. CASE SyncListRef(w) \/ SyncListTest(w)
  BY <1>1, <1>8, BecomeContinues, GotoContinues
     DEF SyncListRef, SyncListTest, At, Ends, Request, tables
<1>9. CASE SyncAlignRef(w) \/ SyncAlignTest(w)
  BY <1>1, <1>9, BecomeContinues, GotoContinues
     DEF SyncAlignRef, SyncAlignTest, At, Ends, Request
<1>10. CASE \/ ImportInsert(w) \/ CheckpointInsert(w) \/ MarkUpdate(w)
            \/ ExcludeUpdate(w) \/ SyncCommit(w)
  BY <1>10
     DEF ImportInsert, CheckpointInsert, MarkUpdate, ExcludeUpdate, SyncCommit, At, Ends
<1> QED
  BY <1>2, <1>3, <1>4, <1>5, <1>6, <1>7, <1>8, <1>9, <1>10 DEF TrailNext

LEMMA CompareStepKinds ==
  ASSUME TypeInv, NEW w \in Workers, CompareNext(w)
  PROVE  \/ Begins(w, "scan") \/ Begins(w, "compare")
         \/ Begins(w, "trace") /\ \E d \in DivIds : TraceBegin(w, d)
         \/ Continues(w)
         \/ Ends(w)
<1>1. /\ req[w] \in Request
      /\ batch.status \in BatchStatus
  BY DEF TypeInv, TypeOK, StoreTypeOK, RequestsTypeOK, BatchRow
<1>2. CASE ScanBegin(w) \/ CompareBegin(w)
  BY <1>2, IdleTyped DEF ScanBegin, CompareBegin, Begins, Accepts, Ops, Labels, tables
<1>3. CASE ScanCheckpoints(w) \/ ScanRef(w) \/ ScanTest(w) \/ CompareCheckpoints(w)
  BY <1>1, <1>3, BecomeContinues, GotoContinues
     DEF ScanCheckpoints, ScanRef, ScanTest, CompareCheckpoints, At, Ends,
         Request, tables
<1>4. CASE ScanUpsertRef(w) \/ ScanUpsertTest(w)
  BY <1>1, <1>4, BecomeContinues, GotoContinues
     DEF ScanUpsertRef, ScanUpsertTest, At, Ends, Request, Labels
<1>5. CASE ComparePair(w) \/ CompareExisting(w) \/ CompareCreate(w)
  BY <1>1, <1>5, BecomeContinues, GotoContinues
     DEF ComparePair, CompareExisting, CompareCreate, At, Ends, Request,
         Labels, tables
<1>6. ASSUME NEW d \in DivIds, TraceBegin(w, d)
      PROVE  Begins(w, "trace")
  BY <1>6, ArgsTyped DEF TraceBegin, Begins, Accepts, Ops, Labels, tables
<1>7. CASE TraceGet(w) \/ TraceRef(w) \/ TraceTest(w)
  BY <1>1, <1>7, BecomeContinues, GotoContinues
     DEF TraceGet, TraceRef, TraceTest, At, Ends, Request, tables
<1>8. CASE TraceDeps(w)
  BY <1>1, <1>8, BecomeContinues, GotoContinues
     DEF TraceDeps, At, Ends, Request
<1>9. CASE TraceSaveChain(w) \/ TraceUpdate(w)
  BY <1>1, <1>9, BecomeContinues, GotoContinues
     DEF TraceSaveChain, TraceUpdate, At, Ends, Labels
<1>10. CASE CompareEnd(w) \/ TraceConfirm(w)
  BY <1>10 DEF CompareEnd, TraceConfirm, At, Ends
<1> QED
  BY <1>2, <1>3, <1>4, <1>5, <1>6, <1>7, <1>8, <1>9, <1>10 DEF CompareNext

LEMMA SnapshotStepKinds ==
  ASSUME TypeInv, NEW w \in Workers, SnapshotNext(w)
  PROVE  \/ \E op \in {"confirm", "seal", "draft", "publish"} : Begins(w, op)
         \/ Continues(w)
         \/ Ends(w)
<1>1. /\ req[w] \in Request
      /\ batch.status \in BatchStatus
  BY DEF TypeInv, TypeOK, StoreTypeOK, RequestsTypeOK, BatchRow
<1>2. CASE ConfirmBegin(w) \/ SealBegin(w) \/ DraftBegin(w)
  BY <1>2, IdleTyped
     DEF ConfirmBegin, SealBegin, DraftBegin, Begins, Accepts, Ops, Labels, tables
<1>3. CASE DraftCheckpoints(w) \/ DraftExcluded(w) \/ PublishSummary(w)
  BY <1>1, <1>3, BecomeContinues, GotoContinues
     DEF DraftCheckpoints, DraftExcluded, PublishSummary, At, Ends, Request, tables
<1>4. ASSUME NEW s \in SnapIds, PublishBegin(w, s)
      PROVE  Begins(w, "publish")
  BY <1>1, <1>4, ArgsTyped DEF PublishBegin, Begins, Accepts, Ops, Labels, tables
<1>5. CASE PublishGet(w)
  BY <1>1, <1>5, BecomeContinues, GotoContinues
     DEF PublishGet, At, Ends, Labels, tables
<1>6. CASE \/ ConfirmUpdate(w) \/ SealUpdate(w) \/ DraftInsert(w)
           \/ PublishCommit(w)
  BY <1>6 DEF ConfirmUpdate, SealUpdate, DraftInsert, PublishCommit, At, Ends
<1> QED
  BY <1>2, <1>3, <1>4, <1>5, <1>6 DEF SnapshotNext

LEMMA StepKinds ==
  ASSUME TypeInv, NEW w \in Workers, Fail(w) \/ Step(w)
  PROVE  (\E op \in Ops : Begins(w, op)) \/ Continues(w) \/ Ends(w)
BY TrailStepKinds, CompareStepKinds, SnapshotStepKinds DEF Ops, Fail, Ends, Step

\* What each kind of step makes of the requests.
LEMMA BeginsRequests ==
  ASSUME TypeInv, NEW w \in Workers, NEW op \in Ops, Begins(w, op)
  PROVE  /\ req[w].op = "none"
         /\ req'[w].op = op /\ req'[w].b = batch
         /\ batch.status \in Accepts(op) /\ UNCHANGED batch
         /\ \A v \in Workers \ {w} :
              /\ req'[v] = req[v]
              /\ req[v].op = "none" \/ (req[v].op \in Concurrent /\ op \in Concurrent)
<1>1. PICK pc \in Labels, args \in Request :
        /\ Begin(w, op, pc, args)
        /\ batch.status \in Accepts(op)
        /\ UNCHANGED batch
  BY DEF Begins
<1>2. req'[w].op = op /\ req'[w].b = batch
  BY <1>1 DEF Begin, TypeInv, TypeOK, RequestsTypeOK, Request
<1> QED
  BY <1>1, <1>2 DEF Begin, MayStart, TypeInv, TypeOK, RequestsTypeOK

LEMMA EndsRequests ==
  ASSUME TypeInv, NEW w \in Workers, Ends(w)
  PROVE  /\ req[w].op # "none" /\ req'[w].op = "none"
         /\ \A v \in Workers \ {w} : req'[v] = req[v]
BY DEF Ends, Finish, Become, Idle, TypeInv, TypeOK, RequestsTypeOK

\* A step changes the request of its worker, whose operation was none, becomes
\* none, or stays.
LEMMA StepRequests ==
  ASSUME TypeInv, NEW w \in Workers, Fail(w) \/ Step(w)
  PROVE  /\ \A v \in Workers \ {w} : req'[v] = req[v]
         /\ req[w].op # "none" => req'[w].op \in {req[w].op, "none"}
         /\ req[w].op = "none" =>
              \A v \in Workers \ {w} :
                req[v].op = "none" \/ (req[v].op \in Concurrent /\ req'[w].op \in Concurrent)
<1>1. CASE \E op \in Ops : Begins(w, op)
  BY <1>1, BeginsRequests
<1>2. CASE Continues(w)
  BY <1>2 DEF Continues
<1>3. CASE Ends(w)
  BY <1>3, EndsRequests
<1> QED
  BY <1>1, <1>2, <1>3, StepKinds

-----------------------------------------------------------------------------
(* The invariant, for any overlap.                                         *)

LEMMA InitOverlapInv ==
  ASSUME Init
  PROVE  OverlapInv /\ \A w \in Workers : req[w].op = "none"
<1>1. \A w \in Workers : req[w].op = "none"
  BY DEF Init, RequestsInit, Idle
<1> QED
  BY <1>1, InitTypeInv DEF OverlapInv, Overlaps, CopyAccepted, CopyCurrent

LEMMA NextOverlapInv ==
  ASSUME OverlapInv, [Next]_vars
  PROVE  OverlapInv'
<1> USE DEF OverlapInv
<1>1. TypeInv'
  BY NextTypeInv
<1>2. CASE Restart
  BY <1>1, <1>2 DEF Restart, Idle, Overlaps, CopyAccepted, CopyCurrent
<1>3. ASSUME NEW w \in Workers, Fail(w) \/ Step(w)
      PROVE  Overlaps' /\ CopyAccepted' /\ CopyCurrent'
  <2>1. ASSUME NEW op \in Ops, Begins(w, op)
        PROVE  Overlaps' /\ CopyAccepted' /\ CopyCurrent'
    BY <2>1, BeginsRequests DEF Overlaps, CopyAccepted, CopyCurrent
  <2>2. CASE Continues(w)
    <3>1. \A v \in Workers : req'[v].op = req[v].op /\ req'[v].b = req[v].b
      BY <2>2 DEF Continues
    <3> QED
      BY <2>2, <3>1 DEF Continues, Overlaps, CopyAccepted, CopyCurrent
  <2>3. CASE Ends(w)
    BY <2>3, EndsRequests DEF Overlaps, CopyAccepted, CopyCurrent
  <2> QED
    BY <1>3, <2>1, <2>2, <2>3, StepKinds
<1>4. CASE UNCHANGED vars
  BY <1>1, <1>4 DEF vars, Overlaps, CopyAccepted, CopyCurrent
<1> QED
  BY <1>1, <1>2, <1>3, <1>4 DEF Next, Step

\* At most one request of an operation that runs alone is in flight, and only
\* its own steps find it there; an error or a restart leaves none.
LEMMA AloneSteps ==
  ASSUME OverlapInv, NEW op \in Ops, Alone({op}), [Next]_vars
  PROVE  \/ UNCHANGED vars
         \/ UNCHANGED tables /\ \A w \in Workers : req'[w].op # op
         \/ \E w \in Workers :
              Step(w) /\ \A v \in Workers \ {w} : req'[v].op # op
<1>1. TypeInv /\ Overlaps /\ op \notin Concurrent /\ op # "none"
  BY DEF OverlapInv, Alone, Ops
<1>2. CASE Restart
  BY <1>1, <1>2 DEF Restart, Idle
<1>3. ASSUME NEW w \in Workers, Fail(w) \/ Step(w)
      PROVE  \A v \in Workers \ {w} : req'[v].op # op
  BY <1>1, <1>3, StepRequests DEF Overlaps
<1>4. ASSUME NEW w \in Workers, Fail(w)
      PROVE  UNCHANGED tables /\ req'[w].op # op
  BY <1>1, <1>4, EndsRequests DEF Fail, Ends
<1> QED
  BY <1>2, <1>3, <1>4 DEF Next, Step

-----------------------------------------------------------------------------
(* Only six actions write the batch row.                                   *)

LEMMA BatchWriters ==
  ASSUME [Next]_vars
  PROVE  \/ UNCHANGED batch
         \/ \E w \in Workers :
              \/ SyncCommit(w) \/ CompareEnd(w) \/ TraceConfirm(w)
              \/ ConfirmUpdate(w) \/ SealUpdate(w) \/ PublishCommit(w)
<1>1. CASE UNCHANGED vars
  BY <1>1 DEF vars
<1>2. CASE Restart
  BY <1>2 DEF Restart, tables
<1>3. ASSUME NEW w \in Workers, Fail(w)
      PROVE  UNCHANGED batch
  BY <1>3 DEF Fail, tables
<1>4. ASSUME NEW w \in Workers, TrailNext(w)
      PROVE  UNCHANGED batch \/ SyncCommit(w)
  BY <1>4
     DEF TrailNext, ImportBegin, ImportCheck, ImportInsert, CheckpointBegin,
         CheckpointInsert, MarkBegin, MarkUpdate, ExcludeBegin, ExcludeUpdate,
         SyncBegin, SyncRangeRef, SyncRangeTest, SyncListRef, SyncListTest,
         SyncAlignRef, SyncAlignTest, tables
<1>5. ASSUME NEW w \in Workers, CompareNext(w)
      PROVE  UNCHANGED batch \/ CompareEnd(w) \/ TraceConfirm(w)
  BY <1>5
     DEF CompareNext, ScanBegin, ScanCheckpoints, ScanRef, ScanTest,
         ScanUpsertRef, ScanUpsertTest, CompareBegin, CompareCheckpoints,
         ComparePair, CompareExisting, CompareCreate, TraceBegin, TraceGet,
         TraceRef, TraceTest, TraceDeps, TraceSaveChain, TraceUpdate, tables
<1>6. ASSUME NEW w \in Workers, SnapshotNext(w)
      PROVE  \/ UNCHANGED batch
             \/ ConfirmUpdate(w) \/ SealUpdate(w) \/ PublishCommit(w)
  BY <1>6
     DEF SnapshotNext, ConfirmBegin, SealBegin, DraftBegin, DraftCheckpoints,
         DraftExcluded, DraftInsert, PublishBegin, PublishGet, PublishSummary, tables
<1> QED
  BY <1>1, <1>2, <1>3, <1>4, <1>5, <1>6 DEF Next

\* The status that each of them writes, and the copies they start from.
LEMMA BatchWrites ==
  ASSUME OverlapInv, NEW w \in Workers, batch' # batch,
         \/ SyncCommit(w) \/ CompareEnd(w) \/ TraceConfirm(w)
         \/ ConfirmUpdate(w) \/ SealUpdate(w) \/ PublishCommit(w)
  PROVE  /\ Ends(w)
         /\ \/ /\ req[w].op = "sync"
               /\ batch' = [status |-> "syncing", min |-> req[w].lo, max |-> req[w].hi]
            \/ \E to \in {"pending_loc", "confirmed", "sealed"} :
                 /\ batch' = [req[w].b EXCEPT !.status = to]
                 /\ batch'.status = to
                 /\ RangeOf(batch') = RangeOf(req[w].b)
                 /\ \/ /\ req[w].op = "compare" /\ to = "pending_loc"
                       /\ req[w].b.status = "syncing"
                    \/ /\ req[w].op \in {"trace", "confirm"} /\ to = "confirmed"
                       /\ req[w].b.status = "pending_loc"
                    \/ /\ req[w].op \in {"seal", "publish"} /\ to = "sealed"
                       /\ req[w].b.status = "confirmed"
<1>1. /\ req[w] \in Request /\ req[w].b \in BatchRow
      /\ req[w].b.status \in BatchStatus
  BY DEF OverlapInv, TypeInv, TypeOK, RequestsTypeOK, Request, BatchRow
<1>2. Ends(w)
  BY DEF SyncCommit, CompareEnd, TraceConfirm, ConfirmUpdate, SealUpdate,
         PublishCommit, At, Ends
<1>3. CASE SyncCommit(w)
  BY <1>2, <1>3 DEF SyncCommit, At, UpdateBatch
<1>4. ASSUME NEW to \in {"pending_loc", "confirmed", "sealed"},
             CanTransitionBatch(req[w].b.status, to),
             batch' = [req[w].b EXCEPT !.status = to],
             \/ to = "pending_loc" /\ req[w].op = "compare"
             \/ to = "confirmed" /\ req[w].op \in {"trace", "confirm"}
             \/ to = "sealed" /\ req[w].op \in {"seal", "publish"}
      PROVE  /\ batch' = [req[w].b EXCEPT !.status = to]
             /\ batch'.status = to
             /\ RangeOf(batch') = RangeOf(req[w].b)
             /\ \/ /\ req[w].op = "compare" /\ to = "pending_loc"
                   /\ req[w].b.status = "syncing"
                \/ /\ req[w].op \in {"trace", "confirm"} /\ to = "confirmed"
                   /\ req[w].b.status = "pending_loc"
                \/ /\ req[w].op \in {"seal", "publish"} /\ to = "sealed"
                   /\ req[w].b.status = "confirmed"
  BY <1>1, <1>4 DEF BatchRow, RangeOf, CanTransitionBatch, batchTransitions, BatchStatus
<1>5. CASE CompareEnd(w)
  <2>1. /\ CanTransitionBatch(req[w].b.status, "pending_loc")
        /\ batch' = [req[w].b EXCEPT !.status = "pending_loc"]
        /\ req[w].op = "compare"
    BY <1>5 DEF CompareEnd, UpdateBatch, At
  <2> QED
    BY <1>2, <1>4, <2>1
<1>6. CASE TraceConfirm(w) \/ ConfirmUpdate(w)
  <2>1. /\ CanTransitionBatch(req[w].b.status, "confirmed")
        /\ batch' = [req[w].b EXCEPT !.status = "confirmed"]
        /\ req[w].op \in {"trace", "confirm"}
    BY <1>6 DEF TraceConfirm, ConfirmUpdate, UpdateBatch, At
  <2> QED
    BY <1>2, <1>4, <2>1
<1>7. CASE SealUpdate(w) \/ PublishCommit(w)
  <2>1. /\ CanTransitionBatch(req[w].b.status, "sealed")
        /\ batch' = [req[w].b EXCEPT !.status = "sealed"]
        /\ req[w].op \in {"seal", "publish"}
    BY <1>7 DEF SealUpdate, PublishCommit, UpdateBatch, At
  <2> QED
    BY <1>2, <1>4, <2>1
<1> QED
  BY <1>2, <1>3, <1>5, <1>6, <1>7

\* A request that runs alone and ends leaves none.
LEMMA EndsAlone ==
  ASSUME OverlapInv, NEW w \in Workers, Ends(w), req[w].op \notin Concurrent
  PROVE  \A v \in Workers : req'[v].op = "none"
BY EndsRequests DEF OverlapInv, Overlaps

\* What a step does to the requests, whatever it does to the row.
LEMMA RequestSteps ==
  ASSUME OverlapInv, [Next]_vars, NEW w \in Workers, req'[w].op # "none"
  PROVE  \/ req'[w].op = req[w].op /\ req'[w].b = req[w].b
         \/ /\ req'[w].op \in Ops /\ batch.status \in Accepts(req'[w].op)
            /\ req'[w].b = batch /\ UNCHANGED batch
<1>1. TypeInv
  BY DEF OverlapInv
<1>2. CASE Restart
  BY <1>2 DEF Restart, Idle
<1>3. ASSUME NEW v \in Workers, Fail(v) \/ Step(v)
      PROVE  \/ req'[w].op = req[w].op /\ req'[w].b = req[w].b
             \/ /\ req'[w].op \in Ops /\ batch.status \in Accepts(req'[w].op)
                /\ req'[w].b = batch /\ UNCHANGED batch
  <2>1. CASE v # w
    BY <1>1, <1>3, <2>1, StepRequests
  <2>2. CASE v = w
    BY <1>1, <1>3, <2>2, StepKinds, BeginsRequests, EndsRequests DEF Continues
  <2> QED
    BY <2>1, <2>2
<1>4. CASE UNCHANGED vars
  BY <1>4 DEF vars
<1> QED
  BY <1>2, <1>3, <1>4 DEF Next, Step

-----------------------------------------------------------------------------
(* The sealed batch: sealing and publication run alone, the others overlap.*)

\* In a sealed batch only publications run.
SealedQuiet ==
  batch.status = "sealed" => \A w \in Workers : req[w].op \in {"none", "publish"}

SealedInv == OverlapInv /\ SealedQuiet

LEMMA InitSealedInv ==
  ASSUME Init
  PROVE  SealedInv
BY InitOverlapInv DEF SealedInv, SealedQuiet

LEMMA NextSealedInv ==
  ASSUME Alone({"seal", "publish"}), SealedInv, [Next]_vars
  PROVE  SealedInv'
<1>1. OverlapInv /\ OverlapInv'
  BY NextOverlapInv DEF SealedInv
<1>2. SUFFICES ASSUME batch'.status = "sealed", NEW w \in Workers,
                      req'[w].op \notin {"none", "publish"}
               PROVE  FALSE
  BY <1>1 DEF SealedInv, SealedQuiet
<1>3. CASE batch.status = "sealed"
  <2>1. \A op \in Ops : "sealed" \in Accepts(op) => op = "publish"
    BY DEF Accepts, Ops
  <2> QED
    BY <1>1, <1>2, <1>3, <2>1, RequestSteps DEF SealedInv, SealedQuiet
<1>4. CASE batch.status # "sealed"
  <2>1. PICK v \in Workers :
          \/ SyncCommit(v) \/ CompareEnd(v) \/ TraceConfirm(v)
          \/ ConfirmUpdate(v) \/ SealUpdate(v) \/ PublishCommit(v)
    BY <1>2, <1>4, BatchWriters
  <2>2. Ends(v) /\ req[v].op \in {"seal", "publish"}
    BY <1>1, <1>2, <1>4, <2>1, BatchWrites
  <2> QED
    BY <1>1, <1>2, <2>2, EndsAlone DEF Alone
<1> QED
  BY <1>3, <1>4

\* In a sealed batch, a request that takes a step has an operation that a sealed
\* batch accepts.
LEMMA OnlyPublishWhenSealed ==
  ASSUME SealedInv, batch.status = "sealed", NEW w \in Workers, req[w].op \in Ops
  PROVE  req[w].op = "publish"
BY DEF SealedInv, SealedQuiet, Ops

LEMMA SealedStep ==
  ASSUME Alone({"publish"}), SealedInv, [Next]_vars, batch.status = "sealed"
  PROVE  UNCHANGED <<batch, events, cps, fps, deps, divs, chain>>
<1>1. CASE UNCHANGED vars
  BY <1>1 DEF vars
<1>2. CASE Restart
  BY <1>2 DEF Restart, tables
<1>3. ASSUME NEW w \in Workers, Fail(w)
      PROVE  UNCHANGED tables
  BY <1>3 DEF Fail
<1>4. ASSUME NEW w \in Workers, TrailNext(w)
      PROVE  UNCHANGED tables
  BY <1>4, OnlyPublishWhenSealed
     DEF TrailNext, ImportBegin, ImportCheck, ImportInsert, CheckpointBegin,
         CheckpointInsert, MarkBegin, MarkUpdate, ExcludeBegin, ExcludeUpdate,
         SyncBegin, SyncRangeRef, SyncRangeTest, SyncListRef, SyncListTest,
         SyncAlignRef, SyncAlignTest, SyncCommit, At, Ops
<1>5. ASSUME NEW w \in Workers, CompareNext(w)
      PROVE  UNCHANGED tables
  BY <1>5, OnlyPublishWhenSealed
     DEF CompareNext, ScanBegin, ScanCheckpoints, ScanRef, ScanTest,
         ScanUpsertRef, ScanUpsertTest, CompareBegin, CompareCheckpoints,
         ComparePair, CompareExisting, CompareCreate, CompareEnd, TraceBegin,
         TraceGet, TraceRef, TraceTest, TraceDeps, TraceSaveChain, TraceUpdate,
         TraceConfirm, At, Ops
<1>6. ASSUME NEW w \in Workers, SnapshotNext(w)
      PROVE  UNCHANGED <<batch, events, cps, fps, deps, divs, chain>>
  <2>1. CASE PublishCommit(w)
    <3>1. req[w].b = batch
      BY <2>1 DEF PublishCommit, At, SealedInv, OverlapInv, CopyCurrent, Alone
    <3> QED
      BY <2>1, <3>1 DEF PublishCommit, CanTransitionBatch, batchTransitions, BatchStatus
  <2>2. CASE ~PublishCommit(w)
    BY <1>6, <2>2, OnlyPublishWhenSealed
       DEF SnapshotNext, ConfirmBegin, ConfirmUpdate, SealBegin, SealUpdate,
           DraftBegin, DraftCheckpoints, DraftExcluded, DraftInsert,
           PublishBegin, PublishGet, PublishSummary, At, Ops, tables
  <2> QED
    BY <2>1, <2>2
<1> QED
  BY <1>1, <1>2, <1>3, <1>4, <1>5, <1>6 DEF Next, tables

\* errors.go's "read-only once sealed", as long as nothing overlaps the requests
\* that seal.
THEOREM SealedIsReadOnly ==
  ASSUME Alone({"seal", "publish"})
  PROVE  Spec => SealedReadOnly
<1>1. Init => SealedInv
  BY InitSealedInv
<1>2. SealedInv /\ [Next]_vars => SealedInv'
  BY NextSealedInv
<1>3. SealedInv /\ [Next]_vars =>
        [batch.status = "sealed" =>
           UNCHANGED <<batch, events, cps, fps, deps, divs, chain>>]_vars
  BY SealedStep DEF Alone
<1> QED
  BY <1>1, <1>2, <1>3, PTL DEF Spec, SealedReadOnly

LEMMA PublishedSealedStep ==
  ASSUME Alone({"seal", "publish"}), SealedInv, PublishedSealed, [Next]_vars
  PROVE  PublishedSealed'
<1>1. /\ TypeOK
      /\ batch.status = "sealed" => UNCHANGED batch
  BY SealedStep DEF SealedInv, OverlapInv, TypeInv, Alone
<1>2. CASE UNCHANGED snaps
  BY <1>1, <1>2 DEF PublishedSealed, PublishedIds
<1>3. ASSUME NEW w \in Workers, DraftInsert(w)
      PROVE  PublishedSealed'
  BY <1>1, <1>3, DraftKeepsOthers DEF PublishedSealed
<1>4. ASSUME NEW w \in Workers, PublishCommit(w)
      PROVE  PublishedSealed'
  <2>1. req[w].b = batch /\ batch \in BatchRow
    BY <1>1, <1>4
       DEF PublishCommit, At, SealedInv, OverlapInv, CopyCurrent, Alone, TypeOK,
           StoreTypeOK
  <2>2. CASE UNCHANGED snaps
    BY <1>1, <2>2 DEF PublishedSealed, PublishedIds
  <2>3. CASE ~UNCHANGED snaps
    BY <1>4, <2>1, <2>3 DEF PublishCommit, UpdateBatch, BatchRow, PublishedSealed
  <2> QED
    BY <2>2, <2>3
<1> QED
  BY <1>2, <1>3, <1>4, SnapshotWriters

\* A batch with a published snapshot is sealed, and stays so.
THEOREM PublishedImpliesSealed ==
  ASSUME Alone({"seal", "publish"})
  PROVE  Spec => []PublishedSealed
<1>1. Init => SealedInv /\ PublishedSealed
  BY InitSealedInv DEF Init, StoreInit, PublishedSealed, PublishedIds, NoSnap
<1>2. SealedInv /\ PublishedSealed /\ [Next]_vars => SealedInv' /\ PublishedSealed'
  BY NextSealedInv, PublishedSealedStep
<1> QED
  BY <1>1, <1>2, PTL DEF Spec

-----------------------------------------------------------------------------
(* The open batch: Compare runs alone, the others overlap.  It is the only *)
(* way out of the statuses in which trails grow.                           *)

Early == {"receiving", "syncing"}

\* Once the batch is compared, no request is left that writes a trail, and no
\* Compare.  Before, no request has seen it compared.
EarlyQuiet ==
  /\ batch.status \notin Early =>
       \A w \in Workers : req[w].op \notin {"import", "sync", "compare"}
  /\ batch.status \in Early =>
       \A w \in Workers : req[w].op # "none" => req[w].b.status \in Early

EarlyInv == OverlapInv /\ EarlyQuiet

LEMMA InitEarlyInv ==
  ASSUME Init
  PROVE  EarlyInv
BY InitOverlapInv DEF EarlyInv, EarlyQuiet

\* The batch leaves the early statuses with the end of a Compare, and for good.
LEMMA EarlyWrites ==
  ASSUME EarlyInv, [Next]_vars, batch' # batch
  PROVE  \/ batch.status \in Early /\ batch'.status \in Early
         \/ batch.status \notin Early /\ batch'.status \notin Early
         \/ \E w \in Workers : Ends(w) /\ req[w].op = "compare"
<1>1. PICK w \in Workers :
        \/ SyncCommit(w) \/ CompareEnd(w) \/ TraceConfirm(w)
        \/ ConfirmUpdate(w) \/ SealUpdate(w) \/ PublishCommit(w)
  BY BatchWriters
<1>2. OverlapInv
  BY DEF EarlyInv
<1>3. Ends(w) /\ req[w].op # "none"
  BY <1>1, <1>2, BatchWrites DEF Ends
<1>4. CASE req[w].op = "sync" /\ batch'.status = "syncing"
  BY <1>4 DEF EarlyInv, EarlyQuiet, Early
<1>5. CASE /\ req[w].b.status \in {"pending_loc", "confirmed"}
           /\ batch'.status \in {"confirmed", "sealed"}
  BY <1>3, <1>5 DEF EarlyInv, EarlyQuiet, Early
<1>6. CASE req[w].op = "compare"
  BY <1>3, <1>6
<1> QED
  BY <1>1, <1>2, <1>4, <1>5, <1>6, BatchWrites

LEMMA NextEarlyInv ==
  ASSUME Alone({"compare"}), EarlyInv, [Next]_vars
  PROVE  EarlyInv'
<1>1. OverlapInv /\ OverlapInv'
  BY NextOverlapInv DEF EarlyInv
<1>2. CASE \E w \in Workers : Ends(w) /\ req[w].op = "compare"
  <2>1. \A w \in Workers : req'[w].op = "none"
    BY <1>1, <1>2, EndsAlone DEF Alone
  <2> QED
    BY <1>1, <2>1 DEF EarlyInv, EarlyQuiet
<1>3. CASE batch.status \in Early /\ batch'.status \in Early
  <2>1. ASSUME NEW w \in Workers, req'[w].op # "none"
        PROVE  req'[w].b.status \in Early
    BY <1>1, <1>3, <2>1, RequestSteps DEF EarlyInv, EarlyQuiet
  <2> QED
    BY <1>1, <1>3, <2>1 DEF EarlyInv, EarlyQuiet
<1>4. CASE batch.status \notin Early /\ batch'.status \notin Early
  <2>1. ASSUME NEW w \in Workers
        PROVE  req'[w].op \notin {"import", "sync", "compare"}
    <3>1. \A op \in {"import", "sync", "compare"} : batch.status \notin Accepts(op)
      BY <1>4 DEF Accepts, Early
    <3> QED
      BY <1>1, <1>4, <3>1, RequestSteps DEF EarlyInv, EarlyQuiet
  <2> QED
    BY <1>1, <1>4, <2>1 DEF EarlyInv, EarlyQuiet
<1> QED
  BY <1>2, <1>3, <1>4, EarlyWrites

-----------------------------------------------------------------------------
(* The locked range: Sync runs alone, the others overlap.                  *)

\* Every copy of the row that is past the lock has the range of the row.
LockedCopies ==
  \A w \in Workers :
    req[w].op # "none" /\ req[w].b.status # "receiving" =>
      batch.status # "receiving" /\ RangeOf(req[w].b) = RangeOf(batch)

LockedInv == OverlapInv /\ LockedCopies

LEMMA InitLockedInv ==
  ASSUME Init
  PROVE  LockedInv
BY InitOverlapInv DEF LockedInv, LockedCopies

\* A write of the row is the end of a Sync, or keeps the range.
LEMMA LockedWrites ==
  ASSUME LockedInv, [Next]_vars, batch' # batch
  PROVE  \/ \E w \in Workers : SyncCommit(w) /\ Ends(w) /\ req[w].op = "sync"
         \/ /\ batch.status # "receiving" /\ batch'.status # "receiving"
            /\ RangeOf(batch') = RangeOf(batch)
<1>1. PICK w \in Workers :
        \/ SyncCommit(w) \/ CompareEnd(w) \/ TraceConfirm(w)
        \/ ConfirmUpdate(w) \/ SealUpdate(w) \/ PublishCommit(w)
  BY BatchWriters
<1>2. OverlapInv
  BY DEF LockedInv
<1>3. Ends(w) /\ req[w].op # "none"
  BY <1>1, <1>2, BatchWrites DEF Ends
<1>4. CASE SyncCommit(w)
  BY <1>3, <1>4 DEF SyncCommit, At
<1>5. CASE ~SyncCommit(w)
  <2>1. req[w].op # "sync"
    BY <1>1, <1>5 DEF CompareEnd, TraceConfirm, ConfirmUpdate, SealUpdate,
                      PublishCommit, At
  <2>2. /\ req[w].b.status # "receiving" /\ batch'.status # "receiving"
        /\ RangeOf(batch') = RangeOf(req[w].b)
    BY <1>1, <1>2, <2>1, BatchWrites
  <2> QED
    BY <1>3, <2>2 DEF LockedInv, LockedCopies
<1> QED
  BY <1>4, <1>5

LEMMA NextLockedInv ==
  ASSUME Alone({"sync"}), LockedInv, [Next]_vars
  PROVE  LockedInv'
<1>1. OverlapInv /\ OverlapInv'
  BY NextOverlapInv DEF LockedInv
<1>2. SUFFICES ASSUME NEW w \in Workers, req'[w].op # "none",
                      req'[w].b.status # "receiving"
               PROVE  batch'.status # "receiving" /\ RangeOf(req'[w].b) = RangeOf(batch')
  BY <1>1 DEF LockedInv, LockedCopies, RangeOf
<1>3. CASE \E v \in Workers : Ends(v) /\ req[v].op = "sync"
  BY <1>1, <1>2, <1>3, EndsAlone DEF Alone
<1>4. CASE /\ batch'.status # "receiving" <=> batch.status # "receiving"
           /\ RangeOf(batch') = RangeOf(batch)
  BY <1>1, <1>2, <1>4, RequestSteps DEF LockedInv, LockedCopies
<1> QED
  BY <1>3, <1>4, LockedWrites

-----------------------------------------------------------------------------
(* The order of the stages.                                                *)

StageInv == SealedInv /\ EarlyQuiet /\ LockedCopies

LEMMA StageStep ==
  ASSUME Alone({"sync", "compare", "seal", "publish"}), StageInv, [Next]_vars
  PROVE  [(<<batch.status, batch'.status>>) \in Stages]_batch
<1>1. SUFFICES ASSUME batch' # batch
               PROVE  <<batch.status, batch'.status>> \in Stages
  OBVIOUS
<1>2. PICK w \in Workers :
        \/ SyncCommit(w) \/ CompareEnd(w) \/ TraceConfirm(w)
        \/ ConfirmUpdate(w) \/ SealUpdate(w) \/ PublishCommit(w)
  BY <1>1, BatchWriters
<1>3. /\ OverlapInv /\ SealedQuiet
      /\ batch \in BatchRow /\ batch.status \in BatchStatus
      /\ req[w].b \in BatchRow
      /\ Ends(w) /\ req[w].op # "none"
  BY <1>1, <1>2, BatchWrites
     DEF StageInv, SealedInv, OverlapInv, TypeInv, TypeOK, StoreTypeOK,
         RequestsTypeOK, Request, BatchRow, Ends
<1>4. CASE req[w].op \in {"sync", "compare", "seal", "publish"}
  <2>1. req[w].b = batch /\ batch.status \in Accepts(req[w].op)
    BY <1>3, <1>4 DEF OverlapInv, CopyCurrent, CopyAccepted, Alone
  <2>2. req[w].op = "sync" => batch.status = "receiving"
    BY <2>1 DEF Accepts
  <2> QED
    BY <1>1, <1>2, <1>3, <2>1, <2>2, BatchWrites DEF Stages
<1>5. CASE req[w].op \in {"trace", "confirm"}
  <2>1. /\ req[w].b.status = "pending_loc"
        /\ batch' = [req[w].b EXCEPT !.status = "confirmed"]
        /\ batch'.status = "confirmed"
    BY <1>1, <1>2, <1>3, <1>5, BatchWrites
  <2>2. RangeOf(req[w].b) = RangeOf(batch) /\ batch.status # "receiving"
    BY <1>3, <2>1 DEF StageInv, LockedCopies
  <2>3. batch.status \notin Early
    BY <1>3, <2>1 DEF StageInv, EarlyQuiet, Early
  <2>4. batch.status # "sealed"
    BY <1>3, <1>5 DEF SealedQuiet
  <2>5. batch.status \in {"pending_loc", "confirmed"}
    BY <1>3, <2>3, <2>4 DEF BatchStatus, Early
  <2>6. batch.status # "confirmed"
    BY <1>1, <1>3, <2>1, <2>2 DEF BatchRow, RangeOf
  <2> QED
    BY <2>1, <2>5, <2>6 DEF Stages
<1> QED
  BY <1>1, <1>2, <1>3, <1>4, <1>5, BatchWrites

LEMMA NextStageInv ==
  ASSUME Alone({"sync", "compare", "seal", "publish"}), StageInv, [Next]_vars
  PROVE  StageInv'
BY NextSealedInv, NextEarlyInv, NextLockedInv
   DEF StageInv, SealedInv, EarlyInv, LockedInv, Alone

\* The status only moves forward.  A trace and a confirmation may overlap, or
\* two of them: both write the same row.
THEOREM StagesInOrder ==
  ASSUME Alone({"sync", "compare", "seal", "publish"})
  PROVE  Spec => LifecycleOrder
<1>1. Init => StageInv
  BY InitSealedInv, InitEarlyInv, InitLockedInv DEF StageInv, EarlyInv, LockedInv
<1>2. StageInv /\ [Next]_vars => StageInv'
  BY NextStageInv
<1>3. StageInv /\ [Next]_vars => [(<<batch.status, batch'.status>>) \in Stages]_batch
  BY StageStep
<1> QED
  BY <1>1, <1>2, <1>3, PTL DEF Spec, LifecycleOrder

=============================================================================
