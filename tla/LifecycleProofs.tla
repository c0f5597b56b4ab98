--------------------------- MODULE LifecycleProofs ---------------------------
(***************************************************************************)
(* Proof that the service implements BatchLifecycle, as long as Sync,      *)
(* Compare, the traces, sealing, drafts and publications run alone.        *)
(*                                                                         *)
(* Besides the copy of the batch row, two requests carry what they have    *)
(* read over several statements: a draft its configuration, a publication  *)
(* the status of its snapshot and the summary.  They run alone, so what    *)
(* they carry is still true when the last statement writes it.             *)
(***************************************************************************)
EXTENDS EvidenceProofs

\* A configuration that has got as far as the excluded events.
DraftLocal(r) ==
  /\ r.op = "draft" /\ r.pc \in {"excluded", "insert"} =>
       /\ r.cfg.min = batch.min /\ r.cfg.max = batch.max
       /\ r.cfg.trusted = TrustedCheckpoints
       /\ r.cfg.unreliable = UnreliableCheckpoints
  /\ r.op = "draft" /\ r.pc = "insert" =>
       r.cfg.excluded = ListExcluded("under_test")

PublishLocal(r) ==
  /\ r.op = "publish" /\ r.pc \in {"summary", "publish"} =>
       snaps[r.id].status = "draft"
  /\ r.op = "publish" /\ r.pc = "publish" => r.sum = Verdict

DraftsCurrent == \A w \in Workers : DraftLocal(req[w])
PublishesCurrent == \A w \in Workers : PublishLocal(req[w])

LifecycleInv == StageInv /\ DraftsCurrent /\ PublishesCurrent

-----------------------------------------------------------------------------
(* The locals of drafts and publications.                                  *)

\* Trail and comparison requests stay what they are.
LEMMA TrailOps ==
  ASSUME NEW w \in Workers, TrailNext(w), req[w].op # "none"
  PROVE  req[w].op \in {"import", "checkpoint", "mark", "exclude", "sync"}
BY DEF TrailNext, ImportBegin, ImportCheck, ImportInsert, CheckpointBegin,
       CheckpointInsert, MarkBegin, MarkUpdate, ExcludeBegin, ExcludeUpdate,
       SyncBegin, SyncRangeRef, SyncRangeTest, SyncListRef, SyncListTest,
       SyncAlignRef, SyncAlignTest, SyncCommit, At, Begin, MayStart

LEMMA CompareOps ==
  ASSUME NEW w \in Workers, CompareNext(w), req[w].op # "none"
  PROVE  req[w].op \in {"scan", "compare", "trace"}
BY DEF CompareNext, ScanBegin, ScanCheckpoints, ScanRef, ScanTest, ScanUpsertRef,
       ScanUpsertTest, CompareBegin, CompareCheckpoints, ComparePair,
       CompareExisting, CompareCreate, CompareEnd, TraceBegin, TraceGet,
       TraceRef, TraceTest, TraceDeps, TraceSaveChain, TraceUpdate,
       TraceConfirm, At, Begin, MayStart

LEMMA BecomeIs ==
  ASSUME TypeInv, NEW w \in Workers, NEW r, Become(w, r)
  PROVE  req'[w] = r
BY DEF Become, TypeInv, TypeOK, RequestsTypeOK

\* A step of TrailNext or CompareNext ends with a request of the same kind.
LEMMA EvidenceStepOps ==
  ASSUME TypeInv, NEW w \in Workers, TrailNext(w) \/ CompareNext(w)
  PROVE  req'[w].op \notin {"draft", "publish"}
<1>1. CASE \E op \in {"import", "checkpoint", "mark", "exclude", "sync",
                      "scan", "compare", "trace"} : Begins(w, op)
  BY <1>1, BeginsRequests DEF Ops
<1>2. CASE Continues(w)
  BY <1>2, TrailOps, CompareOps DEF Continues
<1>3. CASE Ends(w)
  BY <1>3, EndsRequests
<1> QED
  BY <1>1, <1>2, <1>3, TrailStepKinds, CompareStepKinds

\* A request that starts has none of the locals.
LEMMA SnapshotBegins ==
  ASSUME TypeInv, NEW w \in Workers,
         \/ ConfirmBegin(w) \/ SealBegin(w) \/ DraftBegin(w)
         \/ \E s \in SnapIds : PublishBegin(w, s)
  PROVE  req'[w].pc \notin {"excluded", "insert", "summary", "publish"}
<1>1. PICK op \in Ops, pc \in {"update", "checkpoints", "get"}, args \in Request :
        Begin(w, op, pc, args)
  BY IdleTyped, ArgsTyped DEF Ops, ConfirmBegin, SealBegin, DraftBegin, PublishBegin
<1>2. req'[w].pc = pc
  BY <1>1 DEF TypeInv, TypeOK, RequestsTypeOK, Begin, Request
<1> QED
  BY <1>2

LEMMA DraftStepLocals ==
  ASSUME Alone({"draft"}), OverlapInv, NEW w \in Workers, DraftLocal(req[w]),
         DraftCheckpoints(w) \/ DraftExcluded(w)
  PROVE  DraftLocal(req[w])'
<1>1. /\ TypeInv
      /\ req[w] \in Request /\ req[w].cfg \in Config
      /\ req[w].op = "draft" /\ req[w].b = batch
      /\ UNCHANGED tables
  BY DEF OverlapInv, TypeInv, TypeOK, RequestsTypeOK, Request, DraftCheckpoints,
         DraftExcluded, At, CopyCurrent, Alone
<1>2. CASE DraftCheckpoints(w)
  <2>1. PICK r : r = [req[w] EXCEPT !.cfg.min = req[w].b.min,
                                    !.cfg.max = req[w].b.max,
                                    !.cfg.trusted = TrustedCheckpoints,
                                    !.cfg.unreliable = UnreliableCheckpoints,
                                    !.pc = "excluded"]
    OBVIOUS
  <2>2. /\ r.op = "draft" /\ r.pc = "excluded"
        /\ r.cfg.min = batch.min /\ r.cfg.max = batch.max
        /\ r.cfg.trusted = TrustedCheckpoints
        /\ r.cfg.unreliable = UnreliableCheckpoints
    BY <1>1, <2>1 DEF Request, Config
  <2>3. req'[w] = r
    BY <1>1, <1>2, <2>1, BecomeIs DEF DraftCheckpoints
  <2> QED
    BY <1>1, <2>2, <2>3
       DEF DraftLocal, tables, TrustedCheckpoints, UnreliableCheckpoints
<1>3. CASE DraftExcluded(w)
  <2>1. PICK r : r = [req[w] EXCEPT !.cfg.excluded = ListExcluded("under_test"),
                                    !.pc = "insert"]
    OBVIOUS
  <2>2. /\ r.op = "draft" /\ r.pc = "insert"
        /\ r.cfg.min = req[w].cfg.min /\ r.cfg.max = req[w].cfg.max
        /\ r.cfg.trusted = req[w].cfg.trusted
        /\ r.cfg.unreliable = req[w].cfg.unreliable
        /\ r.cfg.excluded = ListExcluded("under_test")
    BY <1>1, <2>1 DEF Request, Config
  <2>3. req'[w] = r
    BY <1>1, <1>3, <2>1, BecomeIs DEF DraftExcluded
  <2>4. req[w].pc = "excluded"
    BY <1>3 DEF DraftExcluded, At
  <2>5. /\ req[w].cfg.min = batch.min /\ req[w].cfg.max = batch.max
        /\ req[w].cfg.trusted = TrustedCheckpoints
        /\ req[w].cfg.unreliable = UnreliableCheckpoints
    BY <1>1, <2>4 DEF DraftLocal
  <2>6. /\ batch' = batch
        /\ TrustedCheckpoints' = TrustedCheckpoints
        /\ UnreliableCheckpoints' = UnreliableCheckpoints
        /\ ListExcluded("under_test")' = ListExcluded("under_test")
    BY <1>1 DEF tables, TrustedCheckpoints, UnreliableCheckpoints, ListExcluded
  <2> QED
    BY <2>2, <2>3, <2>5, <2>6 DEF DraftLocal
<1> QED
  BY <1>2, <1>3

\* The summary written is the verdict of the divergences as they are.
LEMMA LatestFirstIs ==
  ASSUME NEW first, LatestFirst(first)
  PROVE  first = Verdict.first
<1>1. CASE Located = {}
  BY <1>1 DEF LatestFirst, Verdict
<1>2. CASE Located # {}
  <2>1. PICK d \in Located : IsLast(d, Located) /\ first = divs[d].first
    BY <1>2 DEF LatestFirst
  <2>2. Located \subseteq DivIds /\ DivIds \subseteq Int
    BY BoundsAssumption DEF Located, Divergences, DivIds
  <2>3. \A e \in DivIds : IsLast(e, Located) => e = d
    BY <2>1, <2>2 DEF IsLast
  <2>4. LatestLocated = d
    BY <2>1, <2>2, <2>3 DEF LatestLocated
  <2> QED
    BY <1>2, <2>1, <2>4 DEF Verdict
<1> QED
  BY <1>1, <1>2

LEMMA PublishStepLocals ==
  ASSUME OverlapInv, NEW w \in Workers, PublishLocal(req[w]),
         PublishGet(w) \/ PublishSummary(w)
  PROVE  PublishLocal(req[w])'
<1>1. /\ TypeInv
      /\ req[w] \in Request /\ req[w].sum \in Summary
      /\ req[w].op = "publish"
      /\ UNCHANGED tables
  BY DEF OverlapInv, TypeInv, TypeOK, RequestsTypeOK, Request, PublishGet,
         PublishSummary, At
<1>2. CASE PublishGet(w)
  <2>1. CASE snaps[req[w].id].status # "draft"
    <3>1. req'[w].op = "none"
      BY <1>1, <1>2, <2>1, BecomeIs DEF PublishGet, Finish, Idle
    <3> QED
      BY <3>1 DEF PublishLocal
  <2>2. CASE snaps[req[w].id].status = "draft"
    <3>1. /\ req'[w].op = "publish" /\ req'[w].pc = "summary"
          /\ req'[w].id = req[w].id
      BY <1>1, <1>2, <2>2 DEF PublishGet, Goto, TypeInv, TypeOK, RequestsTypeOK, Request
    <3> QED
      BY <1>1, <2>2, <3>1 DEF PublishLocal, tables
  <2> QED
    BY <2>1, <2>2
<1>3. CASE PublishSummary(w)
  <2>1. PICK first : /\ LatestFirst(first)
                     /\ Become(w, [req[w] EXCEPT !.sum.count = Cardinality(Divergences),
                                                 !.sum.first = first,
                                                 !.pc = "publish"])
    BY <1>3 DEF PublishSummary
  <2>2. PICK r : r = [req[w] EXCEPT !.sum.count = Cardinality(Divergences),
                                    !.sum.first = first, !.pc = "publish"]
    OBVIOUS
  <2>3. /\ r.op = "publish" /\ r.pc = "publish" /\ r.id = req[w].id
        /\ r.sum = [count |-> Cardinality(Divergences), first |-> first]
    BY <1>1, <2>2 DEF Request, Summary
  <2>4. r.sum = Verdict
    BY <2>1, <2>3, LatestFirstIs DEF Verdict
  <2>5. req'[w] = r
    BY <1>1, <2>1, <2>2, BecomeIs
  <2>6. snaps[req[w].id].status = "draft"
    BY <1>1, <1>3 DEF PublishSummary, At, PublishLocal
  <2>7. Verdict' = Verdict /\ snaps' = snaps
    BY <1>1 DEF tables, Verdict, LatestLocated, Divergences, Located
  <2> QED
    BY <2>3, <2>4, <2>5, <2>6, <2>7 DEF PublishLocal
<1> QED
  BY <1>2, <1>3

\* What the step of a worker makes of its own request.
LEMMA DraftStays ==
  ASSUME Alone({"draft"}), OverlapInv, NEW w \in Workers, DraftLocal(req[w]), Step(w)
  PROVE  DraftLocal(req[w])'
<1>1. TypeInv
  BY DEF OverlapInv
<1>2. CASE TrailNext(w) \/ CompareNext(w)
  BY <1>1, <1>2, EvidenceStepOps DEF DraftLocal
<1>3. CASE \/ ConfirmBegin(w) \/ SealBegin(w) \/ DraftBegin(w)
           \/ \E s \in SnapIds : PublishBegin(w, s)
  BY <1>1, <1>3, SnapshotBegins DEF DraftLocal
<1>4. CASE \/ ConfirmUpdate(w) \/ SealUpdate(w) \/ DraftInsert(w)
           \/ PublishGet(w) \/ PublishSummary(w) \/ PublishCommit(w)
  <2>1. Ends(w) \/ req[w].op = "publish"
    BY <1>4 DEF Ends, ConfirmUpdate, SealUpdate, DraftInsert, PublishGet,
                PublishSummary, PublishCommit, At
  <2>2. req'[w].op \in {"none", "publish"}
    BY <1>1, <2>1, EndsRequests, StepRequests
  <2> QED
    BY <2>2 DEF DraftLocal
<1> QED
  BY <1>2, <1>3, <1>4, DraftStepLocals DEF Step, SnapshotNext

LEMMA PublishStays ==
  ASSUME OverlapInv, NEW w \in Workers, PublishLocal(req[w]), Step(w)
  PROVE  PublishLocal(req[w])'
<1>1. TypeInv
  BY DEF OverlapInv
<1>2. CASE TrailNext(w) \/ CompareNext(w)
  BY <1>1, <1>2, EvidenceStepOps DEF PublishLocal
<1>3. CASE \/ ConfirmBegin(w) \/ SealBegin(w) \/ DraftBegin(w)
           \/ \E s \in SnapIds : PublishBegin(w, s)
  BY <1>1, <1>3, SnapshotBegins DEF PublishLocal
<1>4. CASE \/ ConfirmUpdate(w) \/ SealUpdate(w) \/ DraftCheckpoints(w)
           \/ DraftExcluded(w) \/ DraftInsert(w) \/ PublishCommit(w)
  <2>1. Ends(w) \/ req[w].op = "draft"
    BY <1>4 DEF Ends, ConfirmUpdate, SealUpdate, DraftCheckpoints, DraftExcluded,
                DraftInsert, PublishCommit, At
  <2>2. req'[w].op \in {"none", "draft"}
    BY <1>1, <2>1, EndsRequests, StepRequests
  <2> QED
    BY <2>2 DEF PublishLocal
<1> QED
  BY <1>2, <1>3, <1>4, PublishStepLocals DEF Step, SnapshotNext

LEMMA NextDrafts ==
  ASSUME Alone({"draft"}), OverlapInv, DraftsCurrent, [Next]_vars
  PROVE  DraftsCurrent'
<1>1. CASE UNCHANGED vars
  BY <1>1 DEF vars, DraftsCurrent, DraftLocal, TrustedCheckpoints,
              UnreliableCheckpoints, ListExcluded
<1>2. CASE \A w \in Workers : req'[w].op # "draft"
  BY <1>2 DEF DraftsCurrent, DraftLocal
<1>3. ASSUME NEW w \in Workers, Step(w), \A v \in Workers \ {w} : req'[v].op # "draft"
      PROVE  DraftsCurrent'
  <2>1. DraftLocal(req[w])'
    BY <1>3, DraftStays DEF DraftsCurrent
  <2> QED
    BY <1>3, <2>1 DEF DraftsCurrent, DraftLocal
<1> QED
  BY <1>1, <1>2, <1>3, AloneSteps DEF Ops

LEMMA NextPublishes ==
  ASSUME Alone({"publish"}), OverlapInv, PublishesCurrent, [Next]_vars
  PROVE  PublishesCurrent'
<1>1. CASE UNCHANGED vars
  BY <1>1 DEF vars, PublishesCurrent, PublishLocal, Verdict, LatestLocated,
              Divergences, Located
<1>2. CASE \A w \in Workers : req'[w].op # "publish"
  BY <1>2 DEF PublishesCurrent, PublishLocal
<1>3. ASSUME NEW w \in Workers, Step(w),
             \A v \in Workers \ {w} : req'[v].op # "publish"
      PROVE  PublishesCurrent'
  <2>1. PublishLocal(req[w])'
    BY <1>3, PublishStays DEF PublishesCurrent
  <2> QED
    BY <1>3, <2>1 DEF PublishesCurrent, PublishLocal
<1> QED
  BY <1>1, <1>2, <1>3, AloneSteps DEF Ops

LEMMA InitLocals ==
  ASSUME Init
  PROVE  DraftsCurrent /\ PublishesCurrent
BY InitOverlapInv DEF DraftsCurrent, PublishesCurrent, DraftLocal, PublishLocal

-----------------------------------------------------------------------------
(* The summaries of the published snapshots.                               *)

\* BENZHI_README.md's promise that a published snapshot keeps its summary
\* holds as long as publications run alone, whatever else overlaps them.
THEOREM SummariesKept ==
  ASSUME Alone({"publish"})
  PROVE  Spec => PublishedSummaryKept
<1>1. Init => OverlapInv /\ PublishesCurrent
  BY InitOverlapInv, InitLocals
<1>2. OverlapInv /\ PublishesCurrent /\ [Next]_vars => OverlapInv' /\ PublishesCurrent'
  BY NextOverlapInv, NextPublishes
<1>3. OverlapInv /\ PublishesCurrent /\ [Next]_vars =>
        [\A s \in PublishedIds \cup SupersededIds : snaps'[s].sum = snaps[s].sum]_snaps
  <2>1. SUFFICES ASSUME OverlapInv, PublishesCurrent, [Next]_vars, ~UNCHANGED snaps,
                        NEW s \in PublishedIds \cup SupersededIds
                 PROVE  snaps'[s].sum = snaps[s].sum
    OBVIOUS
  <2>2. TypeOK /\ \A t \in SnapIds : snaps[t] \in SnapRow
    BY <2>1 DEF OverlapInv, TypeInv, TypeOK, StoreTypeOK
  <2>3. ASSUME NEW w \in Workers, DraftInsert(w)
        PROVE  snaps'[s].sum = snaps[s].sum
    BY <2>1, <2>2, <2>3, DraftKeepsOthers
  <2>4. ASSUME NEW w \in Workers, PublishCommit(w)
        PROVE  snaps'[s].sum = snaps[s].sum
    <3>1. /\ snaps' = Published(req[w].id, req[w].sum)
          /\ snaps[req[w].id].status = "draft"
      BY <2>1, <2>4 DEF PublishCommit, At, PublishesCurrent, PublishLocal
    <3>2. s # req[w].id /\ s \in SnapIds
      BY <3>1 DEF PublishedIds, SupersededIds
    <3> QED
      BY <2>2, <3>1, <3>2 DEF Published, SnapRow
  <2> QED
    BY <2>1, <2>3, <2>4, SnapshotWriters
<1> QED
  BY <1>1, <1>2, <1>3, PTL DEF Spec, PublishedSummaryKept

\* Whatever was published says what the evidence says now.
VerdictSaid ==
  \A s \in PublishedIds \cup SupersededIds :
    batch.status = "sealed" /\ snaps[s].sum = Verdict

SummaryInv == SealedInv /\ PublishesCurrent /\ VerdictSaid

\* What the evidence says follows the tables.
LEMMA EvidenceSame ==
  ASSUME UNCHANGED <<events, cps, fps, deps, divs, chain>>
  PROVE  UNCHANGED <<Evidence, Selection, Verdict>>
BY DEF Evidence, Selection, Verdict, TrustedCheckpoints, UnreliableCheckpoints,
       ListExcluded, LatestLocated, Divergences, Located

LEMMA VerdictSaidStep ==
  ASSUME Alone({"seal", "publish"}), SummaryInv, [Next]_vars
  PROVE  VerdictSaid'
<1>1. /\ TypeOK
      /\ \A t \in SnapIds : snaps[t] \in SnapRow
      /\ SealedInv /\ OverlapInv /\ VerdictSaid
  BY DEF SummaryInv, SealedInv, OverlapInv, TypeInv, TypeOK, StoreTypeOK
<1>2. batch.status = "sealed" => Verdict' = Verdict /\ batch' = batch
  BY <1>1, SealedStep, EvidenceSame DEF Alone
<1>3. CASE UNCHANGED snaps
  <2>1. PublishedIds' = PublishedIds /\ SupersededIds' = SupersededIds
    BY <1>3 DEF PublishedIds, SupersededIds
  <2> QED
    BY <1>1, <1>2, <1>3, <2>1 DEF VerdictSaid
<1>4. ASSUME NEW w \in Workers, DraftInsert(w)
      PROVE  VerdictSaid'
  BY <1>1, <1>2, <1>4, DraftKeepsOthers DEF VerdictSaid
<1>5. ASSUME NEW w \in Workers, PublishCommit(w), ~UNCHANGED snaps
      PROVE  VerdictSaid'
  <2>1. /\ req[w].b = batch /\ batch \in BatchRow
        /\ req[w].sum = Verdict
        /\ UNCHANGED <<events, cps, fps, deps, divs, chain>>
    BY <1>1, <1>5
       DEF SummaryInv, OverlapInv, TypeOK, StoreTypeOK, PublishCommit, At,
           CopyCurrent, PublishesCurrent, PublishLocal, Alone
  <2>2. PICK s \in SnapIds : s = req[w].id
    BY <1>1, <1>5 DEF OverlapInv, TypeInv, LocalsOK, LocalOK, PublishCommit, At
  <2>3. snaps' = Published(s, Verdict) /\ batch'.status = "sealed"
    BY <1>5, <2>1, <2>2 DEF PublishCommit, UpdateBatch, BatchRow
  <2>4. SupersededIds' \cup PublishedIds' = SupersededIds \cup PublishedIds \cup {s}
    BY <1>1, <2>3, PublishedRows
  <2>5. \A t \in SnapIds :
          snaps'[t].sum = IF t = s THEN Verdict ELSE snaps[t].sum
    BY <1>1, <2>3 DEF Published, SnapRow
  <2>6. Verdict' = Verdict
    BY <2>1, EvidenceSame
  <2> QED
    BY <1>1, <2>3, <2>4, <2>5, <2>6 DEF VerdictSaid, PublishedIds, SupersededIds
<1> QED
  BY <1>3, <1>4, <1>5, SnapshotWriters

\* A later publication of a batch never contradicts an earlier one.
THEOREM SummariesAlwaysAgree ==
  ASSUME Alone({"seal", "publish"})
  PROVE  Spec => []SummariesAgree
<1>1. Init => SummaryInv
  BY InitSealedInv, InitLocals
     DEF Init, StoreInit, NoSnap, SummaryInv, VerdictSaid, PublishedIds, SupersededIds
<1>2. SummaryInv /\ [Next]_vars => SummaryInv'
  BY NextSealedInv, NextPublishes, VerdictSaidStep DEF SummaryInv, SealedInv, Alone
<1>3. SummaryInv => SummariesAgree
  BY DEF SummaryInv, VerdictSaid, SummariesAgree
<1> QED
  BY <1>1, <1>2, <1>3, PTL DEF Spec
-----------------------------------------------------------------------------
(* The refinement: every step is a step of BatchLifecycle, or none.        *)

\* The mapped variables follow the tables.
LEMMA SnapshotsSame ==
  ASSUME UNCHANGED snaps
  PROVE  UNCHANGED Lifecycle!snapshots
BY DEF Lifecycle!snapshots, Snapshots, PublishedIds, SupersededIds, Configuration, RangeOf

LEMMA TablesSame ==
  ASSUME UNCHANGED tables
  PROVE  UNCHANGED Lifecycle!vars
BY SnapshotsSame, EvidenceSame
   DEF tables, Lifecycle!vars, Lifecycle!snapshots, RangeOf

LEMMA InitAbstract ==
  ASSUME Init
  PROVE  Lifecycle!Init
BY DEF Init, StoreInit, NewBatch, NoSnap, Lifecycle!Init, Snapshots, PublishedIds,
       SupersededIds

\* The requests that have to run alone for the service to be a BatchLifecycle.
Exclusive == {"sync", "compare", "trace", "seal", "draft", "publish"}

LEMMA NextLifecycleInv ==
  ASSUME Alone(Exclusive), LifecycleInv, [Next]_vars
  PROVE  LifecycleInv'
BY NextStageInv, NextDrafts, NextPublishes
   DEF LifecycleInv, StageInv, SealedInv, Alone, Exclusive

\* A statement that writes evidence.
LEMMA CollectStep ==
  ASSUME Alone(Exclusive), LifecycleInv, [Next]_vars, UNCHANGED <<batch, snaps>>
  PROVE  Lifecycle!Collect \/ UNCHANGED Lifecycle!vars
<1>1. CASE batch.status = "sealed"
  BY <1>1, SealedStep, TablesSame DEF LifecycleInv, StageInv, Alone, Exclusive, tables
<1>2. CASE batch.status # "sealed"
  <2>1. batch.status \notin {"syncing", "pending_loc"} => UNCHANGED divs
    <3>1. ASSUME NEW w \in Workers, CompareCreate(w) \/ TraceUpdate(w)
          PROVE  batch.status \in {"syncing", "pending_loc"}
      BY <3>1
         DEF CompareCreate, TraceUpdate, At, LifecycleInv, StageInv, SealedInv,
             OverlapInv, CopyCurrent, CopyAccepted, Accepts, Alone, Exclusive
    <3> QED
      BY <3>1, DivWriters
  <2>2. UNCHANGED divs => UNCHANGED Verdict
    BY DEF Verdict, LatestLocated, Divergences, Located
  <2> QED
    BY <1>2, <2>1, <2>2, SnapshotsSame DEF Lifecycle!Collect, RangeOf
<1> QED
  BY <1>1, <1>2

\* A method that ends with the batch row.
LEMMA StageChange ==
  ASSUME Alone(Exclusive), LifecycleInv, [Next]_vars, NEW w \in Workers,
         \/ SyncCommit(w) \/ CompareEnd(w) \/ TraceConfirm(w)
         \/ ConfirmUpdate(w) \/ SealUpdate(w)
  PROVE  Lifecycle!Next \/ UNCHANGED Lifecycle!vars
<1>1. UNCHANGED <<events, cps, fps, deps, divs, chain, snaps>>
  BY DEF SyncCommit, CompareEnd, TraceConfirm, ConfirmUpdate, SealUpdate
<1>2. CASE UNCHANGED batch
  BY <1>1, <1>2, TablesSame DEF tables
<1>3. CASE batch' # batch
  <2>1. <<batch.status, batch'.status>> \in Stages
    BY <1>3, StageStep DEF LifecycleInv, Alone, Exclusive
  <2>2. CASE <<batch.status, batch'.status>> = <<"receiving", "syncing">>
    BY <1>1, <2>2, SnapshotsSame, EvidenceSame DEF Lifecycle!Next, Lifecycle!Sync
  <2>3. CASE <<batch.status, batch'.status>> # <<"receiving", "syncing">>
    <3>1. batch.status # "receiving" /\ LockedInv
      BY <2>1, <2>3 DEF Stages, LifecycleInv, StageInv, SealedInv, LockedInv
    <3>2. ASSUME NEW v \in Workers, SyncCommit(v), req[v].op = "sync"
          PROVE  FALSE
      BY <3>1, <3>2
         DEF LockedInv, OverlapInv, CopyCurrent, CopyAccepted, Accepts, Alone, Exclusive
    <3>3. RangeOf(batch)' = RangeOf(batch)
      BY <1>3, <3>1, <3>2, LockedWrites DEF RangeOf
    <3> QED
      BY <1>1, <2>1, <2>3, <3>3, SnapshotsSame, EvidenceSame
         DEF Lifecycle!Next, Lifecycle!Advance, Stages
  <2> QED
    BY <2>2, <2>3
<1> QED
  BY <1>2, <1>3

LEMMA DraftStep ==
  ASSUME Alone(Exclusive), LifecycleInv, NEW w \in Workers, DraftInsert(w)
  PROVE  Lifecycle!Next
<1>1. /\ TypeOK
      /\ snaps \in [SnapIds -> SnapRow]
      /\ batch.status \in {"pending_loc", "confirmed"}
      /\ DraftLocal(req[w])
  BY DEF LifecycleInv, StageInv, SealedInv, OverlapInv, TypeInv, TypeOK,
         StoreTypeOK, DraftInsert, At, CopyCurrent, CopyAccepted, Accepts,
         DraftsCurrent, Alone, Exclusive
<1>2. PICK s \in SnapIds :
        /\ snaps[s].status = "none"
        /\ snaps' = [snaps EXCEPT ![s] =
             [NoSnap EXCEPT !.status = "draft", !.cfg = req[w].cfg]]
  BY DEF DraftInsert, CreateSnapshotRow, IsFirst, Snapshots
<1>3. /\ snaps'[s].status = "draft"
      /\ snaps'[s].cfg = req[w].cfg
      /\ \A t \in SnapIds : t # s => snaps'[t] = snaps[t]
  BY <1>1, <1>2 DEF NoSnap
<1>4. Configuration(req[w].cfg) = <<RangeOf(batch), Selection>>
  BY <1>1 DEF DraftInsert, At, DraftLocal, Configuration, RangeOf, Selection
<1>5. /\ Snapshots' = Snapshots \cup {s} /\ s \notin Snapshots
      /\ \A t \in Snapshots : snaps'[t] = snaps[t]
  BY <1>2, <1>3 DEF Snapshots
<1>6. [t \in Snapshots |-> Configuration(snaps[t].cfg)]'
        = Lifecycle!With([t \in Snapshots |-> Configuration(snaps[t].cfg)], s,
                         <<RangeOf(batch), Selection>>)
  BY <1>3, <1>4, <1>5 DEF Lifecycle!With, Configuration, RangeOf
<1>7. /\ PublishedIds' = PublishedIds /\ SupersededIds' = SupersededIds
      /\ \A t \in PublishedIds \cup SupersededIds : snaps'[t] = snaps[t]
  BY <1>1, DraftKeepsOthers
<1>8. UNCHANGED <<batch, Evidence, Selection, Verdict>>
  BY EvidenceSame DEF DraftInsert
<1>9. Lifecycle!Draft(s)
  BY <1>1, <1>5, <1>6, <1>7, <1>8 DEF Lifecycle!Draft, Lifecycle!batch, RangeOf
<1> QED
  BY <1>9 DEF Lifecycle!Next

LEMMA PublishStep ==
  ASSUME Alone(Exclusive), LifecycleInv, NEW w \in Workers, PublishCommit(w)
  PROVE  Lifecycle!Next \/ UNCHANGED Lifecycle!vars
<1>1. /\ TypeOK
      /\ \A t \in SnapIds : snaps[t] \in SnapRow
      /\ req[w].b = batch /\ batch \in BatchRow
      /\ req[w].id \in SnapIds
      /\ snaps[req[w].id].status = "draft"
      /\ req[w].sum = Verdict
      /\ UNCHANGED <<events, cps, fps, deps, divs, chain>>
  BY DEF LifecycleInv, StageInv, SealedInv, OverlapInv, TypeInv, TypeOK,
         StoreTypeOK, PublishCommit, At, CopyCurrent, PublishesCurrent,
         PublishLocal, LocalsOK, LocalOK, Alone, Exclusive
<1>2. CASE UNCHANGED <<snaps, batch>>
  BY <1>1, <1>2, TablesSame DEF tables
<1>3. CASE ~UNCHANGED <<snaps, batch>>
  <2>1. PICK s \in SnapIds : s = req[w].id
    BY <1>1
  <2>2. /\ snaps' = Published(s, Verdict)
        /\ batch.status \in {"confirmed", "sealed"}
        /\ batch'.status = "sealed" /\ RangeOf(batch)' = RangeOf(batch)
    BY <1>1, <1>3, <2>1
       DEF PublishCommit, UpdateBatch, CanTransitionBatch, batchTransitions, BatchRow,
           BatchStatus, RangeOf
  <2>3. /\ PublishedIds' = {s}
        /\ SupersededIds' = (SupersededIds \cup PublishedIds) \ {s}
    BY <1>1, <2>2, PublishedRows
  <2>4. s \notin SupersededIds \cup PublishedIds /\ s \in Snapshots
    BY <1>1, <2>1 DEF SupersededIds, PublishedIds, Snapshots
  <2>5. ASSUME NEW t \in SnapIds
        PROVE  /\ snaps'[t].cfg = snaps[t].cfg
               /\ snaps'[t].sum = IF t = s THEN Verdict ELSE snaps[t].sum
               /\ snaps'[t].status = "none" <=> snaps[t].status = "none"
    BY <1>1, <2>1, <2>2 DEF Published, SnapRow
  <2>6. [t \in Snapshots |-> Configuration(snaps[t].cfg)]'
          = [t \in Snapshots |-> Configuration(snaps[t].cfg)]
    BY <2>5 DEF Snapshots, Configuration, RangeOf
  <2>7. [t \in PublishedIds \cup SupersededIds |-> snaps[t].sum]'
          = Lifecycle!With([t \in PublishedIds \cup SupersededIds |-> snaps[t].sum],
                           s, Verdict)
    BY <2>3, <2>4, <2>5 DEF Lifecycle!With, PublishedIds, SupersededIds
  <2>8. UNCHANGED <<Evidence, Selection, Verdict>>
    BY <1>1, EvidenceSame
  <2>9. Lifecycle!Publish(s)
    BY <2>2, <2>3, <2>4, <2>6, <2>7, <2>8 DEF Lifecycle!Publish, Lifecycle!Drafts
  <2> QED
    BY <2>9 DEF Lifecycle!Next
<1> QED
  BY <1>2, <1>3

LEMMA StepAbstract ==
  ASSUME Alone(Exclusive), LifecycleInv, [Next]_vars
  PROVE  Lifecycle!Next \/ UNCHANGED Lifecycle!vars
<1>1. CASE UNCHANGED <<batch, snaps>>
  BY <1>1, CollectStep DEF Lifecycle!Next
<1>2. CASE ~UNCHANGED <<batch, snaps>>
  BY <1>2, BatchWriters, SnapshotWriters, StageChange, DraftStep, PublishStep
<1> QED
  BY <1>1, <1>2

\* The multi-statement methods, with their failures and restarts, look like the
\* single steps of BatchLifecycle, whatever imports, exclusions, checkpoints,
\* scans and confirmations overlap.
THEOREM ServiceIsLifecycle ==
  ASSUME Alone({"sync", "compare", "trace", "seal", "draft", "publish"})
  PROVE  Spec => ImplementsLifecycle
<1>1. Alone(Exclusive)
  BY DEF Exclusive
<1>2. Init => LifecycleInv
  BY InitSealedInv, InitEarlyInv, InitLockedInv, InitLocals
     DEF LifecycleInv, StageInv, EarlyInv, LockedInv
<1>3. LifecycleInv /\ [Next]_vars => LifecycleInv'
  BY <1>1, NextLifecycleInv
<1>4. Init => Lifecycle!Init
  BY InitAbstract
<1>5. LifecycleInv /\ [Next]_vars => [Lifecycle!Next]_(Lifecycle!vars)
  BY <1>1, StepAbstract
<1> QED
  BY <1>2, <1>3, <1>4, <1>5, PTL DEF Spec, ImplementsLifecycle, Lifecycle!Spec

=============================================================================
