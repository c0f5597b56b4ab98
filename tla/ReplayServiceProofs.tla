------------------------ MODULE ReplayServiceProofs ------------------------
(***************************************************************************)
(* Proofs about ReplayService, for every set of workers, operations,       *)
(* fragments, sequence numbers and values, and every bound.                *)
(***************************************************************************)
EXTENDS ReplayService, FiniteSetTheorems, TLAPS

-----------------------------------------------------------------------------
(* Type correctness.                                                       *)

\* The rows that stand for "nothing there" are rows.
LEMMA EmptyRowsTyped ==
  /\ NewBatch \in BatchRow
  /\ NoEvent \in EventRow
  /\ NoDiv \in DivRow
  /\ NoConfig \in Config
  /\ NoSummary \in Summary
  /\ NoSnap \in SnapRow
  /\ NoTrail \in Trail
<1>1. NewBatch \in BatchRow
  BY DEF NewBatch, BatchRow, BatchStatus
<1>2. NoEvent \in EventRow
  BY DEF NoEvent, EventRow, EventStatus
<1>3. NoDiv \in DivRow
  BY DEF NoDiv, DivRow, DivStatus
<1>4. NoConfig \in Config
  BY DEF NoConfig, Config
<1>5. NoSummary \in Summary
  BY DEF NoSummary, Summary
<1>6. NoSnap \in SnapRow
  BY <1>4, <1>5 DEF NoSnap, SnapRow
<1>7. NoTrail \in Trail
  BY DEF NoTrail, Trail
<1> QED
  BY <1>1, <1>2, <1>3, <1>4, <1>5, <1>6, <1>7

\* What a method leaves behind when it returns is a request.
LEMMA IdleTyped == Idle \in Request
BY EmptyRowsTyped DEF Idle, Request, Side, Labels

\* So are the arguments each request starts with.
LEMMA ArgsTyped ==
  /\ \A f \in Fragments, trail \in Trail :
       [Idle EXCEPT !.side = f.side, !.ref = trail,
                    !.left = {s \in Seqs : f.inputs[s] # {}}] \in Request
  /\ \A s \in Seqs : [Idle EXCEPT !.seq = s] \in Request
  /\ \A side \in Side, s \in Seqs :
       [Idle EXCEPT !.side = side, !.seq = s] \in Request
  /\ \A i \in DivIds \cup SnapIds :
       /\ [Idle EXCEPT !.id = i] \in Request
       /\ [Idle EXCEPT !.id = i].id = i
<1>1. ASSUME NEW f \in Fragments, NEW trail \in Trail
      PROVE  [Idle EXCEPT !.side = f.side, !.ref = trail,
                    !.left = {s \in Seqs : f.inputs[s] # {}}] \in Request
  BY IdleTyped, FragmentsAssumption DEF Request
<1>2. ASSUME NEW s \in Seqs
      PROVE  /\ [Idle EXCEPT !.seq = s] \in Request
             /\ \A side \in Side : [Idle EXCEPT !.side = side, !.seq = s] \in Request
  BY IdleTyped, SeqsAssumption DEF Request
<1>3. ASSUME NEW i \in DivIds \cup SnapIds
      PROVE  [Idle EXCEPT !.id = i] \in Request /\ [Idle EXCEPT !.id = i].id = i
  <2>1. i \in Nat
    BY BoundsAssumption DEF DivIds, SnapIds
  <2> QED
    BY <2>1, IdleTyped DEF Request
<1> QED
  BY <1>1, <1>2, <1>3

\* Begin, Become, Goto and Finish keep every worker's locals typed.
LEMMA BeginTyped ==
  ASSUME TypeOK, NEW w \in Workers, NEW op \in Ops, NEW pc \in Labels,
         NEW args \in Request, Begin(w, op, pc, args)
  PROVE  RequestsTypeOK'
BY DEF TypeOK, StoreTypeOK, RequestsTypeOK, Begin, Request

LEMMA BecomeTyped ==
  ASSUME TypeOK, NEW w \in Workers, NEW r \in Request, Become(w, r)
  PROVE  RequestsTypeOK'
BY DEF TypeOK, RequestsTypeOK, Become

LEMMA GotoTyped ==
  ASSUME TypeOK, NEW w \in Workers, NEW pc \in Labels, Goto(w, pc)
  PROVE  RequestsTypeOK'
BY DEF TypeOK, RequestsTypeOK, Goto, Request

LEMMA FinishTyped ==
  ASSUME TypeOK, NEW w \in Workers, Finish(w)
  PROVE  RequestsTypeOK'
BY IdleTyped, BecomeTyped DEF Finish

LEMMA TablesTyped ==
  ASSUME TypeOK, UNCHANGED tables
  PROVE  StoreTypeOK'
BY DEF TypeOK, StoreTypeOK, tables

\* The initial state is typed: an empty batch and no request.
LEMMA InitTyped == Init => TypeOK
<1> SUFFICES ASSUME Init PROVE TypeOK
  OBVIOUS
<1>1. StoreTypeOK
  BY EmptyRowsTyped DEF Init, StoreInit, StoreTypeOK, Hash
<1>2. RequestsTypeOK
  BY IdleTyped DEF Init, RequestsInit, RequestsTypeOK
<1> QED
  BY <1>1, <1>2 DEF TypeOK

-----------------------------------------------------------------------------
(* Each action of TrailService keeps the state typed.                      *)

LEMMA ImportBeginTyped ==
  ASSUME TypeOK, NEW w \in Workers, NEW f \in Fragments, ImportBegin(w, f)
  PROVE  TypeOK'
BY ArgsTyped, BeginTyped, TablesTyped DEF ImportBegin, TypeOK, Ops, Labels

LEMMA ImportCheckTyped ==
  ASSUME TypeOK, NEW w \in Workers, ImportCheck(w)
  PROVE  TypeOK'
<1> DEFINE r == req[w]
<1>1. r \in Request
  BY DEF TypeOK, RequestsTypeOK
<1>2. PICK s \in Seqs :
        LET todo == IF s \in Rows(r.side) THEN [r.ref EXCEPT ![s] = "none"] ELSE r.ref
        IN  IF r.left # {s}
              THEN Become(w, [r EXCEPT !.left = @ \ {s}, !.ref = todo])
              ELSE IF todo = NoTrail
                THEN Finish(w)
                ELSE Become(w, [r EXCEPT !.left = {}, !.ref = todo, !.pc = "insert"])
  BY DEF ImportCheck
<1> DEFINE todo == IF s \in Rows(r.side) THEN [r.ref EXCEPT ![s] = "none"] ELSE r.ref
<1>3. todo \in Trail
  BY <1>1 DEF Request, Trail
<1>4. /\ [r EXCEPT !.left = @ \ {s}, !.ref = todo] \in Request
      /\ [r EXCEPT !.left = {}, !.ref = todo, !.pc = "insert"] \in Request
  <2> HIDE DEF todo
  <2> QED
    BY <1>1, <1>3 DEF Request, Labels
<1>5. RequestsTypeOK'
  BY <1>2, <1>4, BecomeTyped, FinishTyped
<1> QED
  BY <1>5, TablesTyped DEF ImportCheck, TypeOK

LEMMA ImportInsertTyped ==
  ASSUME TypeOK, NEW w \in Workers, ImportInsert(w)
  PROVE  TypeOK'
<1>1. req[w].ref \in Trail /\ req[w].side \in Side
  BY DEF TypeOK, RequestsTypeOK, Request
<1>2. events' \in [Side -> [Seqs -> EventRow]]
  <2>1. ASSUME NEW s \in Seqs, req[w].ref[s] # "none"
        PROVE  [val |-> req[w].ref[s], status |-> "raw"] \in EventRow
    BY <1>1, <2>1 DEF Trail, EventRow, EventStatus
  <2>2. events \in [Side -> [Seqs -> EventRow]]
    BY DEF TypeOK, StoreTypeOK
  <2>3. CASE UNCHANGED events
    BY <2>2, <2>3
  <2>4. CASE events' = [events EXCEPT ![req[w].side] = [s \in Seqs |->
               IF req[w].ref[s] # "none"
                 THEN [val |-> req[w].ref[s], status |-> "raw"] ELSE @[s]]]
    <3>1. [s \in Seqs |->
             IF req[w].ref[s] # "none"
               THEN [val |-> req[w].ref[s], status |-> "raw"]
               ELSE events[req[w].side][s]] \in [Seqs -> EventRow]
      BY <1>1, <2>1, <2>2
    <3> QED
      BY <1>1, <2>2, <2>4, <3>1
  <2> QED
    BY <2>3, <2>4 DEF ImportInsert, InsertBatch
<1>3. StoreTypeOK'
  BY <1>2 DEF ImportInsert, TypeOK, StoreTypeOK
<1> QED
  BY <1>3, FinishTyped DEF ImportInsert, TypeOK

LEMMA CheckpointTyped ==
  ASSUME TypeOK, NEW w \in Workers, NEW s \in Seqs,
         CheckpointBegin(w, s) \/ MarkBegin(w, s)
  PROVE  TypeOK'
BY ArgsTyped, BeginTyped, TablesTyped
     DEF CheckpointBegin, MarkBegin, TypeOK, Ops, Labels

LEMMA CheckpointInsertTyped ==
  ASSUME TypeOK, NEW w \in Workers, CheckpointInsert(w) \/ MarkUpdate(w)
  PROVE  TypeOK'
<1>1. cps' \in [Seqs -> {"none", "trusted", "unreliable"}]
  BY DEF CheckpointInsert, CreateCheckpoint, MarkUpdate, UpdateCheckpointStatus,
         TypeOK, StoreTypeOK
<1>2. StoreTypeOK'
  BY <1>1 DEF CheckpointInsert, MarkUpdate, TypeOK, StoreTypeOK
<1> QED
  BY <1>2, FinishTyped DEF CheckpointInsert, MarkUpdate, TypeOK

LEMMA ExcludeBeginTyped ==
  ASSUME TypeOK, NEW w \in Workers, NEW side \in Side, NEW s \in Seqs,
         ExcludeBegin(w, side, s)
  PROVE  TypeOK'
BY ArgsTyped, BeginTyped, TablesTyped DEF ExcludeBegin, TypeOK, Ops, Labels

\* UPDATE exec_events SET status keeps the table typed.
LEMMA EventStatusTyped ==
  ASSUME TypeOK, NEW side \in Side, NEW s, NEW status \in EventStatus,
         UpdateEventStatus(side, s, status)
  PROVE  events' \in [Side -> [Seqs -> EventRow]]
<1>1. events \in [Side -> [Seqs -> EventRow]]
  BY DEF TypeOK, StoreTypeOK
<1>2. s \in Seqs => [events[side][s] EXCEPT !.status = status] \in EventRow
  BY <1>1 DEF EventRow
<1>3. [events[side] EXCEPT ![s] = [events[side][s] EXCEPT !.status = status]]
        \in [Seqs -> EventRow]
  BY <1>1, <1>2
<1>4. events' = [events EXCEPT ![side] =
                  [events[side] EXCEPT ![s] = [events[side][s] EXCEPT !.status = status]]]
  BY <1>1 DEF UpdateEventStatus
<1> QED
  BY <1>1, <1>3, <1>4

LEMMA ExcludeUpdateTyped ==
  ASSUME TypeOK, NEW w \in Workers, ExcludeUpdate(w)
  PROVE  TypeOK'
<1>1. events' \in [Side -> [Seqs -> EventRow]]
  BY EventStatusTyped DEF ExcludeUpdate, EventStatus, TypeOK, RequestsTypeOK, Request
<1>2. StoreTypeOK'
  BY <1>1 DEF ExcludeUpdate, TypeOK, StoreTypeOK
<1> QED
  BY <1>2, FinishTyped DEF ExcludeUpdate, TypeOK

LEMMA SyncBeginTyped ==
  ASSUME TypeOK, NEW w \in Workers, SyncBegin(w)
  PROVE  TypeOK'
BY IdleTyped, BeginTyped, TablesTyped DEF SyncBegin, TypeOK, Ops, Labels

LEMMA SyncRangeTyped ==
  ASSUME TypeOK, NEW w \in Workers, SyncRangeRef(w) \/ SyncRangeTest(w)
  PROVE  TypeOK'
<1>1. req[w] \in Request
  BY DEF TypeOK, RequestsTypeOK
<1>2. ASSUME NEW lo \in Nat, NEW hi \in Nat, NEW pc \in Labels
      PROVE  [req[w] EXCEPT !.lo = lo, !.hi = hi, !.pc = pc] \in Request
  BY <1>1 DEF Request
<1>3. CASE SyncRangeRef(w)
  <2>1. PICK lo, hi \in Nat :
          Become(w, [req[w] EXCEPT !.lo = lo, !.hi = hi, !.pc = "range_test"])
    BY <1>3, SeqsAssumption DEF SyncRangeRef
  <2> QED
    BY <1>2, <1>3, <2>1, BecomeTyped, TablesTyped DEF SyncRangeRef, TypeOK, Labels
<1>4. CASE SyncRangeTest(w)
  <2>1. Finish(w) \/ \E lo, hi \in Nat :
          Become(w, [req[w] EXCEPT !.lo = lo, !.hi = hi, !.pc = "list_ref"])
    <3>1. req[w].lo \in Nat /\ req[w].hi \in Nat
      BY <1>1 DEF Request
    <3> QED
      BY <1>4, <3>1, SeqsAssumption DEF SyncRangeTest
  <2> QED
    BY <1>2, <1>4, <2>1, BecomeTyped, FinishTyped, TablesTyped
       DEF SyncRangeTest, TypeOK, Labels
<1> QED
  BY <1>3, <1>4

LEMMA SyncListTyped ==
  ASSUME TypeOK, NEW w \in Workers, SyncListRef(w) \/ SyncListTest(w)
  PROVE  TypeOK'
<1>1. req[w] \in Request
  BY DEF TypeOK, RequestsTypeOK
<1>2. /\ [req[w] EXCEPT !.left = Alignable("reference"), !.pc = "list_test"] \in Request
      /\ [req[w] EXCEPT !.next = Alignable("under_test"), !.pc = "align"] \in Request
  BY <1>1 DEF Request, Alignable, Rows, Labels
<1> QED
  BY <1>2, BecomeTyped, TablesTyped DEF SyncListRef, SyncListTest, TypeOK

LEMMA SyncAlignTyped ==
  ASSUME TypeOK, NEW w \in Workers, SyncAlignRef(w) \/ SyncAlignTest(w)
  PROVE  TypeOK'
<1>1. req[w] \in Request
  BY DEF TypeOK, RequestsTypeOK
<1>2. ASSUME NEW s \in Seqs
      PROVE  /\ [req[w] EXCEPT !.left = @ \ {s}] \in Request
             /\ [req[w] EXCEPT !.next = @ \ {s}] \in Request
  BY <1>1 DEF Request
<1>3. RequestsTypeOK'
  BY <1>2, BecomeTyped DEF SyncAlignRef, SyncAlignTest
<1>4. events' \in [Side -> [Seqs -> EventRow]]
  BY EventStatusTyped DEF SyncAlignRef, SyncAlignTest, EventStatus, Side
<1>5. StoreTypeOK'
  BY <1>4 DEF SyncAlignRef, SyncAlignTest, TypeOK, StoreTypeOK
<1> QED
  BY <1>3, <1>5 DEF TypeOK

LEMMA SyncCommitTyped ==
  ASSUME TypeOK, NEW w \in Workers, SyncCommit(w)
  PROVE  TypeOK'
<1>1. req[w].lo \in Nat /\ req[w].hi \in Nat
  BY DEF TypeOK, RequestsTypeOK, Request
<1>2. batch' \in BatchRow
  BY <1>1 DEF SyncCommit, UpdateBatch, BatchRow, BatchStatus, TypeOK, StoreTypeOK
<1>3. StoreTypeOK'
  BY <1>2 DEF SyncCommit, TypeOK, StoreTypeOK
<1> QED
  BY <1>3, FinishTyped DEF SyncCommit, TypeOK

LEMMA TrailTyped ==
  ASSUME TypeOK, NEW w \in Workers, TrailNext(w)
  PROVE  TypeOK'
BY ImportBeginTyped, ImportCheckTyped, ImportInsertTyped, CheckpointTyped,
   CheckpointInsertTyped, ExcludeBeginTyped, ExcludeUpdateTyped, SyncBeginTyped,
   SyncRangeTyped, SyncListTyped, SyncAlignTyped, SyncCommitTyped
   DEF TrailNext

-----------------------------------------------------------------------------
(* Each action of CompareService keeps the state typed.                    *)

LEMMA TrailListed ==
  ASSUME TypeOK, NEW side \in Side
  PROVE  ListBySide(side) \in Trail
<1>1. \A s \in Seqs : events[side][s] \in EventRow
  BY DEF TypeOK, StoreTypeOK
<1>2. \A s \in Seqs : events[side][s].val \in Content \cup {"none"}
  BY <1>1 DEF EventRow
<1> QED
  BY <1>2 DEF ListBySide, Trail

LEMMA ScanBeginTyped ==
  ASSUME TypeOK, NEW w \in Workers, ScanBegin(w) \/ CompareBegin(w)
  PROVE  TypeOK'
BY IdleTyped, BeginTyped, TablesTyped
   DEF ScanBegin, CompareBegin, TypeOK, Ops, Labels

LEMMA ListTyped ==
  ASSUME TypeOK, NEW w \in Workers,
         ScanCheckpoints(w) \/ CompareCheckpoints(w) \/ ScanRef(w)
           \/ TraceRef(w) \/ ScanTest(w) \/ TraceTest(w)
  PROVE  TypeOK'
<1>1. req[w] \in Request
  BY DEF TypeOK, RequestsTypeOK
<1>2. ASSUME NEW trail \in Trail, NEW pc \in Labels
      PROVE  /\ [req[w] EXCEPT !.ref = trail, !.pc = pc] \in Request
             /\ [req[w] EXCEPT !.test = trail, !.pc = pc] \in Request
             /\ [req[w] EXCEPT !.left = TrustedCheckpoints, !.pc = pc] \in Request
  BY <1>1 DEF Request, TrustedCheckpoints
<1>3. \A side \in Side : ListBySide(side) \in Trail
  BY TrailListed
<1>4. RequestsTypeOK'
  BY <1>2, <1>3, BecomeTyped, FinishTyped
     DEF ScanCheckpoints, CompareCheckpoints, ScanRef, TraceRef, ScanTest,
         TraceTest, Side, Labels
<1> QED
  BY <1>4, TablesTyped
     DEF ScanCheckpoints, CompareCheckpoints, ScanRef, TraceRef, ScanTest,
         TraceTest, TypeOK

\* The upsert keeps the fingerprint table typed.
LEMMA UpsertTyped ==
  ASSUME TypeOK, NEW cp \in Seqs, NEW side \in Side, NEW hash \in Hash,
         UpsertFingerprint(cp, side, hash)
  PROVE  fps' \in [Seqs -> [Side -> Hash \cup {"none"}]]
<1>1. fps \in [Seqs -> [Side -> Hash \cup {"none"}]]
  BY DEF TypeOK, StoreTypeOK
<1>2. [fps[cp] EXCEPT ![side] = hash] \in [Side -> Hash \cup {"none"}]
  BY <1>1
<1>3. fps' = [fps EXCEPT ![cp] = [fps[cp] EXCEPT ![side] = hash]]
  BY <1>1 DEF UpsertFingerprint
<1> QED
  BY <1>1, <1>2, <1>3

LEMMA ScanUpsertTyped ==
  ASSUME TypeOK, NEW w \in Workers, ScanUpsertRef(w) \/ ScanUpsertTest(w)
  PROVE  TypeOK'
<1>1. req[w] \in Request
  BY DEF TypeOK, RequestsTypeOK
<1>2. fps' \in [Seqs -> [Side -> Hash \cup {"none"}]]
  <2>1. fps \in [Seqs -> [Side -> Hash \cup {"none"}]]
    BY DEF TypeOK, StoreTypeOK
  <2> QED
    BY <2>1, UpsertTyped DEF ScanUpsertRef, ScanUpsertTest, Side
<1>3. StoreTypeOK'
  BY <1>2 DEF ScanUpsertRef, ScanUpsertTest, TypeOK, StoreTypeOK
<1>4. ASSUME NEW cp \in Seqs
      PROVE  [req[w] EXCEPT !.left = @ \ {cp}, !.pc = "upsert_ref"] \in Request
  BY <1>1 DEF Request, Labels
<1>5. RequestsTypeOK'
  BY <1>4, BecomeTyped, GotoTyped, FinishTyped
     DEF ScanUpsertRef, ScanUpsertTest, Labels
<1> QED
  BY <1>3, <1>5 DEF TypeOK

LEMMA CompareReadTyped ==
  ASSUME TypeOK, NEW w \in Workers, ComparePair(w) \/ CompareExisting(w)
  PROVE  TypeOK'
<1>1. req[w] \in Request
  BY DEF TypeOK, RequestsTypeOK
<1>2. ASSUME NEW cp \in Seqs
      PROVE  /\ [req[w] EXCEPT !.scanned = TRUE, !.pc = "existing"] \in Request
             /\ [req[w] EXCEPT !.scanned = @ \/ PairFound(cp), !.left = @ \ {cp}]
                  \in Request
             /\ [req[w] EXCEPT !.left = @ \ {cp}, !.pc = "pair"] \in Request
  BY <1>1 DEF Request, Labels, PairFound
<1>3. RequestsTypeOK'
  BY <1>2, BecomeTyped, GotoTyped DEF ComparePair, CompareExisting, Labels
<1> QED
  BY <1>3, TablesTyped DEF ComparePair, CompareExisting, TypeOK

LEMMA CompareCreateTyped ==
  ASSUME TypeOK, NEW w \in Workers, CompareCreate(w)
  PROVE  TypeOK'
<1>1. req[w] \in Request
  BY DEF TypeOK, RequestsTypeOK
<1>2. PICK cp \in Seqs :
        /\ CreateDivergence(cp)
        /\ Become(w, [req[w] EXCEPT !.left = @ \ {cp}, !.pc = "pair"])
  BY DEF CompareCreate
<1>3. [req[w] EXCEPT !.left = @ \ {cp}, !.pc = "pair"] \in Request
  BY <1>1 DEF Request, Labels
<1>4. [cp |-> cp, status |-> "candidate", first |-> 0] \in DivRow
  BY SeqsAssumption DEF DivRow, DivStatus
<1>5. divs' \in [DivIds -> DivRow]
  BY <1>2, <1>4 DEF CreateDivergence, TypeOK, StoreTypeOK
<1>6. StoreTypeOK'
  BY <1>5 DEF CompareCreate, TypeOK, StoreTypeOK
<1> QED
  BY <1>2, <1>3, <1>6, BecomeTyped DEF TypeOK

\* A batch row with another status is a batch row.
LEMMA BatchRowTyped ==
  ASSUME TypeOK, NEW w \in Workers, NEW status \in BatchStatus
  PROVE  [req[w].b EXCEPT !.status = status] \in BatchRow
<1>1. req[w].b \in BatchRow
  BY DEF TypeOK, RequestsTypeOK, Request
<1> QED
  BY <1>1 DEF BatchRow

\* The actions that only write the batch row.
LEMMA BatchUpdateTyped ==
  ASSUME TypeOK, NEW w \in Workers,
         CompareEnd(w) \/ TraceConfirm(w) \/ ConfirmUpdate(w) \/ SealUpdate(w)
  PROVE  TypeOK'
<1>1. batch \in BatchRow
  BY DEF TypeOK, StoreTypeOK
<1>2. batch' \in BatchRow
  BY <1>1, BatchRowTyped
     DEF CompareEnd, TraceConfirm, ConfirmUpdate, SealUpdate, UpdateBatch, BatchStatus
<1>3. StoreTypeOK'
  BY <1>2 DEF CompareEnd, TraceConfirm, ConfirmUpdate, SealUpdate, TypeOK, StoreTypeOK
<1> QED
  BY <1>3, FinishTyped DEF CompareEnd, TraceConfirm, ConfirmUpdate, SealUpdate, TypeOK

LEMMA TraceBeginTyped ==
  ASSUME TypeOK, NEW w \in Workers, NEW d \in DivIds, TraceBegin(w, d)
  PROVE  TypeOK'
BY ArgsTyped, BeginTyped, TablesTyped DEF TraceBegin, TypeOK, Ops, Labels

-----------------------------------------------------------------------------
(* TypeOK alone is not inductive: a trace reads and writes rows by the id  *)
(* it was given, and saves the chain of the instruction it has located.    *)

LocalOK(r) ==
  /\ r.op = "trace" => r.id \in DivIds
  /\ r.op = "publish" => r.id \in SnapIds
  /\ r.pc = "save_chain" => ChainNodes(r.div) \subseteq Seqs

LocalsOK == \A w \in Workers : LocalOK(req[w])

\* A step of one worker leaves the locals of the others alone.
LEMMA BecomeLocals ==
  ASSUME TypeOK, LocalsOK, NEW w \in Workers, NEW r, Become(w, r), LocalOK(r)
  PROVE  LocalsOK'
BY DEF TypeOK, RequestsTypeOK, LocalsOK, Become

LEMMA FinishLocals ==
  ASSUME TypeOK, LocalsOK, NEW w \in Workers, Finish(w)
  PROVE  LocalsOK'
<1>1. LocalOK(Idle)
  BY DEF LocalOK, Idle
<1> QED
  BY <1>1, BecomeLocals DEF Finish

\* An operation that holds no id and saves no chain.
Quiet(op, pc) == op \notin {"trace", "publish"} /\ pc # "save_chain"

LEMMA QuietBecome ==
  ASSUME TypeOK, LocalsOK, NEW w \in Workers, NEW r, Become(w, r),
         Quiet(r.op, r.pc)
  PROVE  LocalsOK'
BY BecomeLocals DEF LocalOK, Quiet

LEMMA GotoLocals ==
  ASSUME TypeOK, LocalsOK, NEW w \in Workers, NEW pc \in Labels, Goto(w, pc),
         pc # "save_chain"
  PROVE  LocalsOK'
BY DEF Goto, TypeOK, RequestsTypeOK, Request, LocalsOK, LocalOK

LEMMA BeginLocals ==
  ASSUME TypeOK, LocalsOK, NEW w \in Workers, NEW op \in Ops, NEW pc \in Labels,
         NEW args \in Request, Begin(w, op, pc, args), pc # "save_chain",
         op = "trace" => args.id \in DivIds,
         op = "publish" => args.id \in SnapIds
  PROVE  LocalsOK'
BY DEF Begin, TypeOK, RequestsTypeOK, Request, LocalsOK, LocalOK

LEMMA TrailLocals ==
  ASSUME TypeOK, LocalsOK, NEW w \in Workers, TrailNext(w)
  PROVE  LocalsOK'
<1>1. req[w] \in Request
  BY DEF TypeOK, RequestsTypeOK
<1>2. ASSUME NEW f \in Fragments, ImportBegin(w, f)
      PROVE  LocalsOK'
  BY <1>2, ArgsTyped, BeginLocals DEF ImportBegin, Ops, Labels
<1>3. CASE ImportCheck(w)
  BY <1>1, <1>3, QuietBecome, FinishLocals DEF ImportCheck, At, Request, Quiet
<1>4. ASSUME NEW s \in Seqs, CheckpointBegin(w, s) \/ MarkBegin(w, s)
      PROVE  LocalsOK'
  BY <1>4, ArgsTyped, BeginLocals DEF CheckpointBegin, MarkBegin, Ops, Labels
<1>5. ASSUME NEW side \in Side, NEW s \in Seqs, ExcludeBegin(w, side, s)
      PROVE  LocalsOK'
  BY <1>5, ArgsTyped, BeginLocals DEF ExcludeBegin, Ops, Labels
<1>6. CASE SyncBegin(w)
  BY <1>6, IdleTyped, BeginLocals DEF SyncBegin, Ops, Labels
<1>7. CASE SyncRangeRef(w) \/ SyncRangeTest(w)
  BY <1>1, <1>7, QuietBecome, FinishLocals
     DEF SyncRangeRef, SyncRangeTest, At, Request, Quiet
<1>8. CASE SyncListRef(w) \/ SyncListTest(w)
  BY <1>1, <1>8, QuietBecome DEF SyncListRef, SyncListTest, At, Request, Quiet
<1>9. CASE SyncAlignRef(w) \/ SyncAlignTest(w)
  BY <1>1, <1>9, QuietBecome DEF SyncAlignRef, SyncAlignTest, At, Request, Quiet
<1>10. CASE \/ ImportInsert(w) \/ CheckpointInsert(w) \/ MarkUpdate(w)
            \/ ExcludeUpdate(w) \/ SyncCommit(w)
  BY <1>10, FinishLocals
     DEF ImportInsert, CheckpointInsert, MarkUpdate, ExcludeUpdate, SyncCommit
<1> QED
  BY <1>2, <1>3, <1>4, <1>5, <1>6, <1>7, <1>8, <1>9, <1>10 DEF TrailNext

LEMMA CompareLocals ==
  ASSUME TypeOK, LocalsOK, NEW w \in Workers, CompareNext(w)
  PROVE  LocalsOK'
<1>1. req[w] \in Request /\ LocalOK(req[w])
  BY DEF TypeOK, RequestsTypeOK, LocalsOK
<1>2. CASE ScanBegin(w) \/ CompareBegin(w)
  BY <1>2, IdleTyped, BeginLocals DEF ScanBegin, CompareBegin, Ops, Labels
<1>3. CASE ScanCheckpoints(w) \/ ScanRef(w) \/ ScanTest(w) \/ CompareCheckpoints(w)
  BY <1>1, <1>3, QuietBecome, FinishLocals
     DEF ScanCheckpoints, ScanRef, ScanTest, CompareCheckpoints, At, Request, Quiet
<1>4. CASE ScanUpsertRef(w)
  BY <1>4, GotoLocals, FinishLocals DEF ScanUpsertRef, Labels
<1>5. CASE ScanUpsertTest(w)
  BY <1>1, <1>5, QuietBecome, FinishLocals DEF ScanUpsertTest, At, Request, Quiet
<1>6. CASE ComparePair(w) \/ CompareCreate(w)
  BY <1>1, <1>6, QuietBecome DEF ComparePair, CompareCreate, At, Request, Quiet
<1>7. CASE CompareExisting(w)
  BY <1>1, <1>7, QuietBecome, GotoLocals
     DEF CompareExisting, At, Request, Quiet, Labels
<1>8. ASSUME NEW d \in DivIds, TraceBegin(w, d)
      PROVE  LocalsOK'
  <2> DEFINE args == [Idle EXCEPT !.id = d]
  <2>1. args \in Request /\ args.id \in DivIds
    BY ArgsTyped
  <2>2. Begin(w, "trace", "get", args)
    BY <1>8 DEF TraceBegin
  <2> HIDE DEF args
  <2> QED
    BY <2>1, <2>2, BeginLocals DEF Ops, Labels
<1>9. CASE TraceGet(w) \/ TraceRef(w) \/ TraceTest(w)
  <2>1. \A pc \in {"ref", "test", "deps"} :
          /\ \A div : LocalOK([req[w] EXCEPT !.div = div, !.pc = pc])
          /\ \A ref : LocalOK([req[w] EXCEPT !.ref = ref, !.pc = pc])
          /\ \A test : LocalOK([req[w] EXCEPT !.test = test, !.pc = pc])
    BY <1>1 DEF Request, LocalOK
  <2> QED
    BY <1>9, <2>1, BecomeLocals DEF TraceGet, TraceRef, TraceTest
<1>10. CASE TraceDeps(w)
  <2> DEFINE r  == req[w]
             cp == r.div.cp
             found == WritesDiffer(r.ref, r.test, cp)
             located(s) == [r EXCEPT
               !.div.first = s,
               !.div.status = IF found = {} THEN "insufficient_evidence"
                                            ELSE "confirmed",
               !.pc = "save_chain"]
             undecided == [r EXCEPT !.div.status = "insufficient_evidence",
                                    !.pc = "update"]
  <2>1. r \in Request /\ r.op = "trace" /\ r.id \in DivIds /\ r.div \in DivRow
    BY <1>1, <1>10 DEF TraceDeps, At, LocalOK, Request
  <2>2. \/ Finish(w)
        \/ Become(w, undecided)
        \/ \E s \in Seqs \cup {0} :
             FirstDivergent(r.ref, r.test, cp, s) /\ Become(w, located(s))
    BY <1>10 DEF TraceDeps
  <2>3. LocalOK(undecided)
    BY <2>1 DEF Request, LocalOK
  <2>4. ASSUME NEW s \in Seqs \cup {0}, FirstDivergent(r.ref, r.test, cp, s)
        PROVE  LocalOK(located(s))
    <3>1. found \subseteq Seqs
      BY DEF WritesDiffer, Written, UpTo
    <3>2. found # {} => s \in Seqs
      BY <2>4, <3>1 DEF FirstDivergent, IsFirst
    <3>3. ChainNodes(located(s).div) \subseteq Seqs
      BY <2>1, <3>2 DEF Request, DivRow, ChainNodes
    <3> QED
      BY <2>1, <3>3 DEF Request, LocalOK
  <2> QED
    BY <2>2, <2>3, <2>4, FinishLocals, BecomeLocals
<1>11. CASE TraceSaveChain(w) \/ TraceUpdate(w)
  BY <1>11, GotoLocals, FinishLocals DEF TraceSaveChain, TraceUpdate, Labels
<1>12. CASE CompareEnd(w) \/ TraceConfirm(w)
  BY <1>12, FinishLocals DEF CompareEnd, TraceConfirm
<1> QED
  BY <1>2, <1>3, <1>4, <1>5, <1>6, <1>7, <1>8, <1>9, <1>10, <1>11, <1>12
     DEF CompareNext

LEMMA SnapshotLocals ==
  ASSUME TypeOK, LocalsOK, NEW w \in Workers, SnapshotNext(w)
  PROVE  LocalsOK'
<1>1. req[w] \in Request /\ LocalOK(req[w])
  BY DEF TypeOK, RequestsTypeOK, LocalsOK
<1>2. CASE ConfirmBegin(w) \/ SealBegin(w) \/ DraftBegin(w)
  BY <1>2, IdleTyped, BeginLocals DEF ConfirmBegin, SealBegin, DraftBegin, Ops, Labels
<1>3. CASE DraftCheckpoints(w)
  BY <1>1, <1>3, QuietBecome DEF DraftCheckpoints, At, Request, Quiet
<1>4. CASE DraftExcluded(w)
  BY <1>1, <1>4, QuietBecome DEF DraftExcluded, At, Request, Quiet
<1>5. ASSUME NEW s \in SnapIds, PublishBegin(w, s)
      PROVE  LocalsOK'
  <2> DEFINE args == [Idle EXCEPT !.id = s]
  <2>1. args \in Request /\ args.id \in SnapIds
    BY ArgsTyped
  <2>2. Begin(w, "publish", "get", args)
    BY <1>5 DEF PublishBegin
  <2> HIDE DEF args
  <2> QED
    BY <2>1, <2>2, BeginLocals DEF Ops, Labels
<1>6. CASE PublishGet(w)
  BY <1>6, GotoLocals, FinishLocals DEF PublishGet, Labels
<1>7. CASE PublishSummary(w)
  <2>1. \A n, first : LocalOK([req[w] EXCEPT !.sum.count = n, !.sum.first = first,
                                             !.pc = "publish"])
    BY <1>1 DEF Request, LocalOK
  <2> QED
    BY <1>7, <2>1, BecomeLocals DEF PublishSummary
<1>8. CASE \/ ConfirmUpdate(w) \/ SealUpdate(w) \/ DraftInsert(w)
           \/ PublishCommit(w)
  BY <1>8, FinishLocals DEF ConfirmUpdate, SealUpdate, DraftInsert, PublishCommit
<1> QED
  BY <1>2, <1>3, <1>4, <1>5, <1>6, <1>7, <1>8 DEF SnapshotNext

-----------------------------------------------------------------------------
(* The actions whose typing needs LocalsOK, and those of SnapshotService.   *)

LEMMA TraceReadTyped ==
  ASSUME TypeOK, LocalsOK, NEW w \in Workers, TraceGet(w)
  PROVE  TypeOK'
<1>1. req[w] \in Request /\ divs[req[w].id] \in DivRow
  BY DEF TraceGet, At, TypeOK, StoreTypeOK, RequestsTypeOK, LocalsOK, LocalOK
<1>2. [req[w] EXCEPT !.div = divs[req[w].id], !.pc = "ref"] \in Request
  BY <1>1 DEF Request, Labels
<1> QED
  BY <1>2, BecomeTyped, TablesTyped DEF TraceGet, TypeOK

LEMMA TraceDepsTyped ==
  ASSUME TypeOK, NEW w \in Workers, TraceDeps(w)
  PROVE  TypeOK'
<1> DEFINE r == req[w]
           found == WritesDiffer(r.ref, r.test, r.div.cp)
<1>1. r \in Request /\ r.div \in DivRow
  BY DEF TypeOK, RequestsTypeOK, Request
<1>2. deps' \subseteq Seqs \X Seqs
  BY DEF TraceDeps, ReplaceDependencies, DependencyEdges
<1>3. StoreTypeOK'
  BY <1>2 DEF TraceDeps, TypeOK, StoreTypeOK
<1>4. [r EXCEPT !.div.status = "insufficient_evidence", !.pc = "update"] \in Request
  <2>1. [r.div EXCEPT !.status = "insufficient_evidence"] \in DivRow
    BY <1>1 DEF DivRow, DivStatus
  <2> QED
    BY <1>1, <2>1 DEF Request, Labels
<1> DEFINE status == IF found = {} THEN "insufficient_evidence" ELSE "confirmed"
<1>5. ASSUME NEW s \in Seqs \cup {0}
      PROVE  [r EXCEPT !.div.first = s, !.div.status = status, !.pc = "save_chain"]
               \in Request
  <2>1. status \in DivStatus
    BY DEF DivStatus
  <2>2. s \in Nat
    BY SeqsAssumption
  <2> HIDE DEF status
  <2>3. [[r.div EXCEPT !.first = s] EXCEPT !.status = status] \in DivRow
    BY <1>1, <2>1, <2>2 DEF DivRow
  <2> QED
    BY <1>1, <2>3 DEF Request, Labels
<1>6. \/ Finish(w)
      \/ Become(w, [r EXCEPT !.div.status = "insufficient_evidence", !.pc = "update"])
      \/ \E s \in Seqs \cup {0} :
           Become(w, [r EXCEPT !.div.first = s, !.div.status = status,
                               !.pc = "save_chain"])
  BY DEF TraceDeps
<1>7. RequestsTypeOK'
  <2> HIDE DEF status, found
  <2> QED
    BY <1>4, <1>5, <1>6, FinishTyped, BecomeTyped
<1> QED
  BY <1>3, <1>7 DEF TypeOK

LEMMA TraceSaveChainTyped ==
  ASSUME TypeOK, LocalsOK, NEW w \in Workers, TraceSaveChain(w)
  PROVE  TypeOK'
<1>1. ChainNodes(req[w].div) \subseteq Seqs
  BY DEF TraceSaveChain, At, LocalsOK, LocalOK
<1>2. chain' \in [DivIds -> SUBSET Seqs]
  BY <1>1 DEF TraceSaveChain, SaveChain, TypeOK, StoreTypeOK
<1>3. StoreTypeOK'
  BY <1>2 DEF TraceSaveChain, TypeOK, StoreTypeOK
<1> QED
  BY <1>3, GotoTyped DEF TraceSaveChain, TypeOK, Labels

LEMMA TraceUpdateTyped ==
  ASSUME TypeOK, LocalsOK, NEW w \in Workers, TraceUpdate(w)
  PROVE  TypeOK'
<1> DEFINE d   == req[w].id
           div == req[w].div
<1>1. d \in DivIds /\ div \in DivRow
  BY DEF TraceUpdate, At, TypeOK, RequestsTypeOK, Request, LocalsOK, LocalOK
<1>2. divs \in [DivIds -> DivRow]
  BY DEF TypeOK, StoreTypeOK
<1>3. [[divs[d] EXCEPT !.status = div.status] EXCEPT !.first = div.first] \in DivRow
  BY <1>1, <1>2 DEF DivRow
<1>4. divs' = [divs EXCEPT ![d] =
                [[divs[d] EXCEPT !.status = div.status] EXCEPT !.first = div.first]]
  BY <1>1, <1>2 DEF TraceUpdate, UpdateDivergence
<1>5. StoreTypeOK'
  BY <1>2, <1>3, <1>4 DEF TraceUpdate, TypeOK, StoreTypeOK
<1> QED
  BY <1>5, FinishTyped, GotoTyped DEF TraceUpdate, TypeOK, Labels

LEMMA CompareTyped ==
  ASSUME TypeOK, LocalsOK, NEW w \in Workers, CompareNext(w)
  PROVE  TypeOK'
BY ScanBeginTyped, ListTyped, ScanUpsertTyped, CompareReadTyped,
   CompareCreateTyped, BatchUpdateTyped, TraceBeginTyped, TraceReadTyped,
   TraceDepsTyped, TraceSaveChainTyped, TraceUpdateTyped
   DEF CompareNext

LEMMA SnapshotBeginTyped ==
  ASSUME TypeOK, NEW w \in Workers,
         \/ ConfirmBegin(w) \/ SealBegin(w) \/ DraftBegin(w)
         \/ \E s \in SnapIds : PublishBegin(w, s)
  PROVE  TypeOK'
BY IdleTyped, ArgsTyped, BeginTyped, TablesTyped
   DEF ConfirmBegin, SealBegin, DraftBegin, PublishBegin, TypeOK, Ops, Labels

LEMMA DraftReadTyped ==
  ASSUME TypeOK, NEW w \in Workers, DraftCheckpoints(w) \/ DraftExcluded(w)
  PROVE  TypeOK'
<1>1. /\ req[w] \in Request
      /\ req[w].cfg \in Config
      /\ req[w].b \in BatchRow
  BY DEF TypeOK, RequestsTypeOK, Request
<1>2. CASE DraftCheckpoints(w)
  <2> DEFINE cfg == [req[w].cfg EXCEPT !.min = req[w].b.min,
                                       !.max = req[w].b.max,
                                       !.trusted = TrustedCheckpoints,
                                       !.unreliable = UnreliableCheckpoints]
  <2>1. cfg \in Config
    BY <1>1 DEF Config, BatchRow, TrustedCheckpoints, UnreliableCheckpoints
  <2>2. Become(w, [req[w] EXCEPT !.cfg = cfg, !.pc = "excluded"])
    BY <1>1, <1>2 DEF DraftCheckpoints, Become, Request, Config
  <2> HIDE DEF cfg
  <2>3. [req[w] EXCEPT !.cfg = cfg, !.pc = "excluded"] \in Request
    BY <1>1, <2>1 DEF Request, Labels
  <2> QED
    BY <1>2, <2>2, <2>3, BecomeTyped, TablesTyped DEF DraftCheckpoints, TypeOK
<1>3. CASE DraftExcluded(w)
  <2> DEFINE cfg == [req[w].cfg EXCEPT !.excluded = ListExcluded("under_test")]
  <2>1. cfg \in Config
    BY <1>1 DEF Config, ListExcluded
  <2>2. Become(w, [req[w] EXCEPT !.cfg = cfg, !.pc = "insert"])
    BY <1>1, <1>3 DEF DraftExcluded, Become, Request, Config
  <2> HIDE DEF cfg
  <2>3. [req[w] EXCEPT !.cfg = cfg, !.pc = "insert"] \in Request
    BY <1>1, <2>1 DEF Request, Labels
  <2> QED
    BY <1>3, <2>2, <2>3, BecomeTyped, TablesTyped DEF DraftExcluded, TypeOK
<1> QED
  BY <1>2, <1>3

LEMMA DraftInsertTyped ==
  ASSUME TypeOK, NEW w \in Workers, DraftInsert(w)
  PROVE  TypeOK'
<1>1. req[w].cfg \in Config
  BY DEF TypeOK, RequestsTypeOK, Request
<1>2. [NoSnap EXCEPT !.status = "draft", !.cfg = req[w].cfg] \in SnapRow
  BY <1>1, EmptyRowsTyped DEF SnapRow, SnapStatus
<1>3. snaps' \in [SnapIds -> SnapRow]
  BY <1>2 DEF DraftInsert, CreateSnapshotRow, TypeOK, StoreTypeOK
<1>4. StoreTypeOK'
  BY <1>3 DEF DraftInsert, TypeOK, StoreTypeOK
<1> QED
  BY <1>4, FinishTyped DEF DraftInsert, TypeOK

LEMMA PublishReadTyped ==
  ASSUME TypeOK, NEW w \in Workers, PublishGet(w) \/ PublishSummary(w)
  PROVE  TypeOK'
<1>1. req[w] \in Request /\ req[w].sum \in Summary
  BY DEF TypeOK, RequestsTypeOK, Request
<1>2. Cardinality(Divergences) \in Nat
  <2>1. IsFiniteSet(DivIds)
    BY BoundsAssumption, FS_Interval DEF DivIds
  <2> QED
    BY <2>1, FS_Subset, FS_CardinalityType DEF Divergences
<1>3. CASE PublishGet(w)
  BY <1>3, GotoTyped, FinishTyped, TablesTyped DEF PublishGet, TypeOK, Labels
<1>4. CASE PublishSummary(w)
  <2>1. \A d \in Located : divs[d].first \in Nat
    BY DEF Located, Divergences, TypeOK, StoreTypeOK, DivRow
  <2>2. PICK first \in Nat :
          Become(w, [req[w] EXCEPT !.sum.count = Cardinality(Divergences),
                                   !.sum.first = first,
                                   !.pc = "publish"])
    BY <1>4, <2>1 DEF PublishSummary
  <2> DEFINE n == Cardinality(Divergences)
             sum == [[req[w].sum EXCEPT !.count = n] EXCEPT !.first = first]
  <2> HIDE DEF n
  <2>3. sum \in Summary
    BY <1>1, <1>2 DEF Summary, n
  <2>4. [req[w] EXCEPT !.sum.count = n, !.sum.first = first, !.pc = "publish"]
          \in Request
    BY <1>1, <2>3 DEF Request, Labels
  <2> QED
    BY <1>4, <2>2, <2>4, BecomeTyped, TablesTyped DEF PublishSummary, TypeOK, n
<1> QED
  BY <1>3, <1>4

\* The rows that PublishSnapshot's transaction leaves are typed.
LEMMA PublishedTyped ==
  ASSUME TypeOK, NEW s \in SnapIds, NEW sum \in Summary
  PROVE  Published(s, sum) \in [SnapIds -> SnapRow]
<1>1. ASSUME NEW t \in SnapIds
      PROVE  /\ snaps[t] \in SnapRow
             /\ [snaps[t] EXCEPT !.status = "published", !.sum = sum, !.by = 0]
                  \in SnapRow
             /\ [snaps[t] EXCEPT !.status = "superseded", !.by = s] \in SnapRow
  <2>1. snaps[t] \in SnapRow /\ s \in Nat
    BY BoundsAssumption DEF TypeOK, StoreTypeOK, SnapIds
  <2> QED
    BY <2>1 DEF SnapRow, SnapStatus
<1> QED
  BY <1>1 DEF Published

LEMMA PublishCommitTyped ==
  ASSUME TypeOK, LocalsOK, NEW w \in Workers, PublishCommit(w)
  PROVE  TypeOK'
<1>1. req[w].id \in SnapIds /\ req[w].sum \in Summary
  BY DEF PublishCommit, At, TypeOK, RequestsTypeOK, Request, LocalsOK, LocalOK
<1>2. Published(req[w].id, req[w].sum) \in [SnapIds -> SnapRow]
  BY <1>1, PublishedTyped
<1>3. batch' \in BatchRow /\ snaps' \in [SnapIds -> SnapRow]
  BY <1>2, BatchRowTyped
     DEF PublishCommit, UpdateBatch, BatchStatus, TypeOK, StoreTypeOK
<1>4. StoreTypeOK'
  BY <1>3 DEF PublishCommit, TypeOK, StoreTypeOK
<1> QED
  BY <1>4, FinishTyped DEF PublishCommit, TypeOK

LEMMA SnapshotTyped ==
  ASSUME TypeOK, LocalsOK, NEW w \in Workers, SnapshotNext(w)
  PROVE  TypeOK'
BY BatchUpdateTyped, SnapshotBeginTyped, DraftReadTyped, DraftInsertTyped,
   PublishReadTyped, PublishCommitTyped DEF SnapshotNext

-----------------------------------------------------------------------------

TypeInv == TypeOK /\ LocalsOK

LEMMA InitTypeInv == Init => TypeInv
<1> SUFFICES ASSUME Init PROVE TypeInv
  OBVIOUS
<1>1. LocalsOK
  BY DEF Init, RequestsInit, LocalsOK, LocalOK, Idle
<1> QED
  BY <1>1, InitTyped DEF TypeInv

LEMMA NextTypeInv == TypeInv /\ [Next]_vars => TypeInv'
<1> SUFFICES ASSUME TypeInv, [Next]_vars PROVE TypeInv'
  OBVIOUS
<1> USE DEF TypeInv
<1>1. CASE Restart
  <2>1. RequestsTypeOK' /\ LocalsOK'
    BY <1>1, IdleTyped DEF Restart, RequestsTypeOK, LocalsOK, LocalOK, Idle
  <2> QED
    BY <1>1, <2>1, TablesTyped DEF Restart, TypeOK
<1>2. ASSUME NEW w \in Workers, Fail(w)
      PROVE  TypeInv'
  BY <1>2, FinishTyped, FinishLocals, TablesTyped DEF Fail, TypeOK
<1>3. ASSUME NEW w \in Workers, TrailNext(w)
      PROVE  TypeInv'
  BY <1>3, TrailTyped, TrailLocals
<1>4. ASSUME NEW w \in Workers, CompareNext(w)
      PROVE  TypeInv'
  BY <1>4, CompareTyped, CompareLocals
<1>5. ASSUME NEW w \in Workers, SnapshotNext(w)
      PROVE  TypeInv'
  BY <1>5, SnapshotTyped, SnapshotLocals
<1>6. CASE UNCHANGED vars
  <2>1. RequestsTypeOK' /\ LocalsOK'
    BY <1>6 DEF vars, TypeOK, RequestsTypeOK, LocalsOK
  <2> QED
    BY <1>6, <2>1, TablesTyped DEF vars, tables, TypeOK
<1> QED
  BY <1>1, <1>2, <1>3, <1>4, <1>5, <1>6 DEF Next

\* Every reachable state is typed: no interleaving, failure or restart makes a
\* method store or hold a value the tables do not know.
THEOREM TypeCorrect == Spec => []TypeOK
<1>1. TypeInv => TypeOK
  BY DEF TypeInv
<1> QED
  BY <1>1, InitTypeInv, NextTypeInv, PTL DEF Spec

=============================================================================
