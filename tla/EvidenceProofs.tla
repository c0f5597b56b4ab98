--------------------------- MODULE EvidenceProofs ---------------------------
(***************************************************************************)
(* Proofs about the evidence of a batch, for every interleaving of its     *)
(* requests: imported events are kept, and a confirmed divergence names an *)
(* instruction at which the trails of the batch do differ.                 *)
(***************************************************************************)
EXTENDS OverlapProofs

\* Only an import and the updates of a status write exec_events.
LEMMA EventWriters ==
  ASSUME TypeInv, [Next]_vars
  PROVE  \/ UNCHANGED events
         \/ \E side \in Side, frag \in Trail : InsertBatch(side, frag)
         \/ \E side \in Side, s \in Seqs, status \in EventStatus :
              UpdateEventStatus(side, s, status)
<1>1. CASE Restart \/ UNCHANGED vars
  BY <1>1 DEF Restart, tables, vars
<1>2. ASSUME NEW w \in Workers, Fail(w)
      PROVE  UNCHANGED events
  BY <1>2 DEF Fail, tables
<1>3. ASSUME NEW w \in Workers, TrailNext(w)
      PROVE  \/ UNCHANGED events
             \/ \E side \in Side, frag \in Trail : InsertBatch(side, frag)
             \/ \E side \in Side, s \in Seqs, status \in EventStatus :
                  UpdateEventStatus(side, s, status)
  <2>1. req[w] \in Request
    BY DEF TypeInv, TypeOK, RequestsTypeOK
  <2>2. CASE ImportInsert(w)
    BY <2>1, <2>2 DEF ImportInsert, Request
  <2>3. CASE ExcludeUpdate(w)
    <3>1. req[w].side \in Side /\ req[w].seq \in Nat
      BY <2>1 DEF Request
    <3>2. CASE req[w].seq \in Seqs
      BY <2>3, <3>1, <3>2 DEF ExcludeUpdate, EventStatus
    <3>3. CASE req[w].seq \notin Seqs
      <4>1. /\ events \in [Side -> [Seqs -> EventRow]]
            /\ events' = [events EXCEPT ![req[w].side] =
                 [@ EXCEPT ![req[w].seq].status = "excluded"]]
        BY <2>3, <3>1 DEF ExcludeUpdate, UpdateEventStatus, TypeInv, TypeOK, StoreTypeOK
      <4>2. [events[req[w].side] EXCEPT ![req[w].seq].status = "excluded"]
              = events[req[w].side]
        BY <3>1, <3>3, <4>1
      <4> QED
        BY <3>1, <4>1, <4>2
    <3> QED
      BY <3>2, <3>3
  <2>4. CASE SyncAlignRef(w) \/ SyncAlignTest(w)
    BY <2>4 DEF SyncAlignRef, SyncAlignTest, Side, EventStatus
  <2>5. CASE ~(ImportInsert(w) \/ ExcludeUpdate(w) \/ SyncAlignRef(w) \/ SyncAlignTest(w))
    BY <1>3, <2>5
       DEF TrailNext, ImportBegin, ImportCheck, CheckpointBegin, CheckpointInsert,
           MarkBegin, MarkUpdate, ExcludeBegin, SyncBegin, SyncRangeRef,
           SyncRangeTest, SyncListRef, SyncListTest, SyncCommit, tables
  <2> QED
    BY <2>2, <2>3, <2>4, <2>5
<1>4. ASSUME NEW w \in Workers, CompareNext(w)
      PROVE  UNCHANGED events
  BY <1>4
     DEF CompareNext, ScanBegin, ScanCheckpoints, ScanRef, ScanTest,
         ScanUpsertRef, ScanUpsertTest, CompareBegin, CompareCheckpoints,
         ComparePair, CompareExisting, CompareCreate, CompareEnd, TraceBegin,
         TraceGet, TraceRef, TraceTest, TraceDeps, TraceSaveChain, TraceUpdate,
         TraceConfirm, tables
<1>5. ASSUME NEW w \in Workers, SnapshotNext(w)
      PROVE  UNCHANGED events
  BY <1>5
     DEF SnapshotNext, ConfirmBegin, ConfirmUpdate, SealBegin, SealUpdate,
         DraftBegin, DraftCheckpoints, DraftExcluded, DraftInsert, PublishBegin,
         PublishGet, PublishSummary, PublishCommit, tables
<1> QED
  BY <1>1, <1>2, <1>3, <1>4, <1>5 DEF Next

\* What an event does is never changed; a row has a status as soon as it does
\* something.
EventsPresent ==
  \A side \in Side, s \in Seqs : events[side][s].val # "none" => s \in Rows(side)

LEMMA EventsStep ==
  ASSUME TypeInv, [Next]_vars
  PROVE  /\ \A side \in Side : \A s \in Rows(side) :
              events'[side][s].val = events[side][s].val
         /\ EventsPresent => EventsPresent'
<1>1. /\ events \in [Side -> [Seqs -> EventRow]]
      /\ \A side \in Side, s \in Seqs : events[side][s] \in EventRow
  BY DEF TypeInv, TypeOK, StoreTypeOK
<1>2. CASE UNCHANGED events
  BY <1>2 DEF EventsPresent, Rows
<1>3. ASSUME NEW side \in Side, NEW frag \in Trail, InsertBatch(side, frag)
      PROVE  /\ \A t \in Side : \A s \in Rows(t) :
                  events'[t][s].val = events[t][s].val
             /\ EventsPresent => EventsPresent'
  <2>1. CASE UNCHANGED events
    BY <1>2, <2>1
  <2>2. CASE ~UNCHANGED events
    <3>1. /\ \A s \in Rows(side) : frag[s] = "none"
          /\ events' = [events EXCEPT ![side] = [s \in Seqs |->
               IF frag[s] # "none" THEN [val |-> frag[s], status |-> "raw"] ELSE @[s]]]
      BY <1>3, <2>2 DEF InsertBatch
    <3>2. \A t \in Side \ {side} : events'[t] = events[t]
      BY <1>1, <3>1
    <3>3. \A s \in Seqs :
            events'[side][s] = IF frag[s] # "none"
                                 THEN [val |-> frag[s], status |-> "raw"]
                                 ELSE events[side][s]
      BY <1>1, <3>1
    <3> QED
      BY <3>1, <3>2, <3>3 DEF EventsPresent, Rows
  <2> QED
    BY <2>1, <2>2
<1>4. ASSUME NEW side \in Side, NEW seq \in Seqs, NEW status \in EventStatus,
             UpdateEventStatus(side, seq, status)
      PROVE  /\ \A t \in Side : \A s \in Rows(t) :
                  events'[t][s].val = events[t][s].val
             /\ EventsPresent => EventsPresent'
  <2>1. \A t \in Side, s \in Seqs :
          IF t = side /\ s = seq
            THEN events'[t][s] = [events[t][s] EXCEPT !.status = status]
            ELSE events'[t][s] = events[t][s]
    BY <1>1, <1>4 DEF UpdateEventStatus
  <2>2. ASSUME NEW t \in Side, NEW s \in Seqs
        PROVE  /\ events'[t][s].val = events[t][s].val
               /\ events[t][s].status # "none" => events'[t][s].status # "none"
    <3>1. events[t][s] \in EventRow
      BY <1>1
    <3>2. CASE t = side /\ s = seq
      BY <2>1, <3>1, <3>2 DEF EventRow, EventStatus
    <3>3. CASE ~(t = side /\ s = seq)
      BY <2>1, <3>3
    <3> QED
      BY <3>2, <3>3
  <2>3. \A t \in Side, s \in Seqs : s \in Rows(t) => s \in Rows(t)'
    BY <2>2 DEF Rows
  <2>4. \A t \in Side : Rows(t) \subseteq Seqs
    BY DEF Rows
  <2> QED
    BY <2>2, <2>3, <2>4 DEF EventsPresent
<1> QED
  BY <1>2, <1>3, <1>4, EventWriters

\* No import changes or removes an event that is there, even where the check
\* of its sequence number was made before another import.
THEOREM EventsKept == Spec => ImportedEventsKept
<1>1. TypeInv /\ [Next]_vars =>
        [\A side \in Side : \A s \in Rows(side) :
           events'[side][s].val = events[side][s].val]_events
  BY EventsStep
<1> QED
  BY <1>1, InitTypeInv, NextTypeInv, PTL DEF Spec, ImportedEventsKept

-----------------------------------------------------------------------------
(* Confirmed divergences.                                                  *)

\* A list read earlier: what it has is still there.
Listed(trail, side) ==
  \A s \in Seqs : trail[s] # "none" => events[side][s].val = trail[s]

\* Where the trails of the batch differ up to a checkpoint.
Differs(cp) ==
  WritesDiffer(ListBySide("reference"), ListBySide("under_test"), cp)

\* What a trace holds at each of its statements.
TraceLocal(r) ==
  /\ r.id \in Divergences
  /\ r.pc # "get" => r.div.cp = divs[r.id].cp
  /\ r.pc \in {"test", "deps"} => Listed(r.ref, "reference")
  /\ r.pc = "deps" => Listed(r.test, "under_test")
  /\ r.pc \in {"save_chain", "update"} =>
       /\ r.div.status \in {"insufficient_evidence", "confirmed"}
       /\ r.div.status = "confirmed" => r.div.first \in Differs(r.div.cp)

TracesOK == \A w \in Workers : req[w].op = "trace" => TraceLocal(req[w])

EvidenceInv == TypeInv /\ EventsPresent /\ TracesOK /\ ConfirmedDiverges

\* Divergences are only created and judged.
LEMMA DivWriters ==
  ASSUME [Next]_vars
  PROVE  UNCHANGED divs \/ \E w \in Workers : CompareCreate(w) \/ TraceUpdate(w)
<1>1. CASE Restart \/ UNCHANGED vars
  BY <1>1 DEF Restart, tables, vars
<1>2. ASSUME NEW w \in Workers, Fail(w)
      PROVE  UNCHANGED divs
  BY <1>2 DEF Fail, tables
<1>3. ASSUME NEW w \in Workers, TrailNext(w)
      PROVE  UNCHANGED divs
  BY <1>3
     DEF TrailNext, ImportBegin, ImportCheck, ImportInsert, CheckpointBegin,
         CheckpointInsert, MarkBegin, MarkUpdate, ExcludeBegin, ExcludeUpdate,
         SyncBegin, SyncRangeRef, SyncRangeTest, SyncListRef, SyncListTest,
         SyncAlignRef, SyncAlignTest, SyncCommit, tables
<1>4. ASSUME NEW w \in Workers, CompareNext(w)
      PROVE  UNCHANGED divs \/ CompareCreate(w) \/ TraceUpdate(w)
  BY <1>4
     DEF CompareNext, ScanBegin, ScanCheckpoints, ScanRef, ScanTest,
         ScanUpsertRef, ScanUpsertTest, CompareBegin, CompareCheckpoints,
         ComparePair, CompareExisting, CompareEnd, TraceBegin, TraceGet,
         TraceRef, TraceTest, TraceDeps, TraceSaveChain, TraceConfirm, tables
<1>5. ASSUME NEW w \in Workers, SnapshotNext(w)
      PROVE  UNCHANGED divs
  BY <1>5
     DEF SnapshotNext, ConfirmBegin, ConfirmUpdate, SealBegin, SealUpdate,
         DraftBegin, DraftCheckpoints, DraftExcluded, DraftInsert, PublishBegin,
         PublishGet, PublishSummary, PublishCommit, tables
<1> QED
  BY <1>1, <1>2, <1>3, <1>4, <1>5 DEF Next

\* A new candidate takes a free row; a verdict is one of two, and never moves
\* a divergence to another checkpoint.
LEMMA DivsStep ==
  ASSUME EvidenceInv, [Next]_vars
  PROVE  \A d \in DivIds :
           \/ divs'[d] = divs[d]
           \/ d \notin Divergences /\ divs'[d].status = "candidate"
           \/ /\ d \in Divergences
              /\ divs'[d].cp = divs[d].cp
              /\ \E w \in Workers :
                   /\ At(w, "trace", "update")
                   /\ req[w].id = d
                   /\ divs'[d].status = req[w].div.status
                   /\ divs'[d].first = req[w].div.first
<1>1. divs \in [DivIds -> DivRow]
  BY DEF EvidenceInv, TypeInv, TypeOK, StoreTypeOK
<1>2. ASSUME NEW w \in Workers, CompareCreate(w), NEW d \in DivIds
      PROVE  divs'[d] = divs[d] \/ (d \notin Divergences /\ divs'[d].status = "candidate")
  BY <1>1, <1>2 DEF CompareCreate, CreateDivergence, IsFirst
<1>3. ASSUME NEW w \in Workers, TraceUpdate(w), NEW d \in DivIds
      PROVE  \/ divs'[d] = divs[d]
             \/ /\ d = req[w].id
                /\ d \in Divergences
                /\ divs'[d].cp = divs[d].cp
                /\ divs'[d].status = req[w].div.status
                /\ divs'[d].first = req[w].div.first
  <2>1. req[w].id \in Divergences /\ req[w].id \in DivIds
    BY <1>3
       DEF TraceUpdate, At, EvidenceInv, TracesOK, TraceLocal, Divergences
  <2>2. divs' = [divs EXCEPT ![req[w].id] =
          [[@ EXCEPT !.status = req[w].div.status] EXCEPT !.first = req[w].div.first]]
    BY <1>1, <1>3, <2>1 DEF TraceUpdate, UpdateDivergence
  <2> QED
    BY <1>1, <2>1, <2>2 DEF DivRow
<1> QED
  BY <1>2, <1>3, DivWriters DEF TraceUpdate

\* What a trace has read stays true while other requests run.
LEMMA EvidenceKept ==
  ASSUME EvidenceInv, [Next]_vars
  PROVE  /\ \A d \in Divergences : d \in Divergences' /\ divs'[d].cp = divs[d].cp
         /\ \A side \in Side, s \in Seqs :
              events[side][s].val # "none" => events'[side][s].val = events[side][s].val
         /\ \A cp : Differs(cp) \subseteq Differs(cp)'
<1>1. ASSUME NEW d \in Divergences
      PROVE  d \in Divergences' /\ divs'[d].cp = divs[d].cp
  <2>1. d \in DivIds /\ divs[d].status # "none"
    BY DEF Divergences
  <2>2. \A w \in Workers :
          At(w, "trace", "update") => req[w].div.status # "none"
    BY DEF At, EvidenceInv, TracesOK, TraceLocal
  <2>3. divs'[d].status # "none" /\ divs'[d].cp = divs[d].cp
    BY <2>1, <2>2, DivsStep
  <2> QED
    BY <2>1, <2>3 DEF Divergences
<1>2. \A side \in Side, s \in Seqs :
        events[side][s].val # "none" => events'[side][s].val = events[side][s].val
  BY EventsStep DEF EvidenceInv, EventsPresent
<1>3. \A cp : Differs(cp) \subseteq Differs(cp)'
  BY <1>2, ValsAssumption
     DEF Differs, WritesDiffer, Written, UpTo, ListBySide, Side
<1> QED
  BY <1>1, <1>2, <1>3

-----------------------------------------------------------------------------
(* The locals of a trace, one step at a time.                              *)

\* A worker that takes no step, or one that leaves it no trace.
LEMMA OtherTraces ==
  ASSUME EvidenceInv, [Next]_vars, NEW w \in Workers, req'[w] = req[w]
  PROVE  req'[w].op = "trace" => TraceLocal(req[w])'
<1> SUFFICES ASSUME req[w].op = "trace"
             PROVE  TraceLocal(req[w])'
  OBVIOUS
<1>1. TraceLocal(req[w])
  BY DEF EvidenceInv, TracesOK
<1>2. req[w] \in Request
  BY DEF EvidenceInv, TypeInv, TypeOK, RequestsTypeOK
<1>3. req[w].id \in Divergences' /\ divs'[req[w].id].cp = divs[req[w].id].cp
  BY <1>1, EvidenceKept DEF TraceLocal
<1>4. \A trail, side : side \in Side /\ Listed(trail, side) => Listed(trail, side)'
  BY EvidenceKept DEF Listed
<1>5. Differs(req[w].div.cp) \subseteq Differs(req[w].div.cp)'
  BY EvidenceKept
<1> QED
  BY <1>1, <1>3, <1>4, <1>5 DEF TraceLocal, Side

\* A step is a step of one worker.
LEMMA OneWorker ==
  ASSUME TypeInv, NEW w \in Workers, TrailNext(w) \/ CompareNext(w) \/ SnapshotNext(w)
  PROVE  \A v \in Workers \ {w} : req'[v] = req[v]
<1>1. (\E op \in Ops : Begins(w, op)) \/ Continues(w) \/ Ends(w)
  BY TrailStepKinds, CompareStepKinds, SnapshotStepKinds DEF Ops
<1>2. CASE \E op \in Ops : Begins(w, op)
  BY <1>2 DEF Begins, Begin, TypeInv, TypeOK, RequestsTypeOK
<1>3. CASE Continues(w) \/ Ends(w)
  BY <1>3 DEF Continues, Ends, Finish, Become, TypeInv, TypeOK, RequestsTypeOK
<1> QED
  BY <1>1, <1>2, <1>3

\* Only CompareService starts a trace or goes on with one.
LEMMA QuietSteps ==
  ASSUME TypeInv, NEW w \in Workers,
         \/ TrailNext(w) \/ SnapshotNext(w)
         \/ CompareNext(w) /\ req[w].op # "trace"
                           /\ ~(\E d \in DivIds : TraceBegin(w, d))
  PROVE  req'[w].op # "trace"
<1>1. \A op \in Ops : Begins(w, op) => req'[w].op = op
  BY DEF Begins, Begin, TypeInv, TypeOK, RequestsTypeOK, Request
<1>2. Continues(w) => req'[w].op = req[w].op
  BY DEF Continues
<1>3. Ends(w) => req'[w].op = "none"
  BY DEF Ends, Finish, Become, Idle, TypeInv, TypeOK, RequestsTypeOK
<1>4. TrailNext(w) \/ SnapshotNext(w) => req[w].op # "trace"
  BY DEF TrailNext, ImportBegin, ImportCheck, ImportInsert, CheckpointBegin,
         CheckpointInsert, MarkBegin, MarkUpdate, ExcludeBegin, ExcludeUpdate,
         SyncBegin, SyncRangeRef, SyncRangeTest, SyncListRef, SyncListTest,
         SyncAlignRef, SyncAlignTest, SyncCommit, SnapshotNext, ConfirmBegin,
         ConfirmUpdate, SealBegin, SealUpdate, DraftBegin, DraftCheckpoints,
         DraftExcluded, DraftInsert, PublishBegin, PublishGet, PublishSummary,
         PublishCommit, At, Begin, MayStart
<1> QED
  BY <1>1, <1>2, <1>3, <1>4, TrailStepKinds, CompareStepKinds, SnapshotStepKinds
     DEF Ops

\* The worker that takes a step of a trace.
LEMMA TraceSteps ==
  ASSUME EvidenceInv, [Next]_vars, NEW w \in Workers,
         CompareNext(w), req[w].op = "trace"
  PROVE  req'[w].op = "trace" => TraceLocal(req[w])'
<1> DEFINE r == req[w]
<1>1. /\ r \in Request /\ r.div \in DivRow
      /\ req \in [Workers -> Request]
      /\ TraceLocal(r)
      /\ r.id \in Divergences' /\ divs'[r.id].cp = divs[r.id].cp
  BY EvidenceKept
     DEF EvidenceInv, TypeInv, TypeOK, RequestsTypeOK, Request, TracesOK, TraceLocal
<1>2. CASE TraceGet(w)
  <2>1. /\ r.pc = "get" /\ UNCHANGED <<divs, events>>
        /\ req'[w] = [r EXCEPT !.div = divs[r.id], !.pc = "ref"]
    BY <1>1, <1>2 DEF TraceGet, At, Become, tables
  <2>2. /\ req'[w].id = r.id /\ req'[w].pc = "ref"
        /\ req'[w].div = divs[r.id]
    BY <1>1, <2>1 DEF Request
  <2> QED
    BY <1>1, <2>1, <2>2 DEF TraceLocal, Divergences
<1>3. CASE TraceRef(w)
  <2>1. /\ r.pc = "ref" /\ UNCHANGED <<divs, events>>
        /\ req'[w] = [r EXCEPT !.ref = ListBySide("reference"), !.pc = "test"]
    BY <1>1, <1>3 DEF TraceRef, At, Become, tables
  <2>2. /\ req'[w].id = r.id /\ req'[w].pc = "test" /\ req'[w].div = r.div
        /\ req'[w].ref = ListBySide("reference")
    BY <1>1, <2>1 DEF Request
  <2>3. Listed(req[w].ref, "reference")'
    BY <2>1, <2>2 DEF Listed, ListBySide
  <2> QED
    BY <1>1, <2>1, <2>2, <2>3 DEF TraceLocal
<1>4. CASE TraceTest(w)
  <2>1. /\ r.pc = "test" /\ UNCHANGED <<divs, events>>
        /\ req'[w] = [r EXCEPT !.test = ListBySide("under_test"), !.pc = "deps"]
    BY <1>1, <1>4 DEF TraceTest, At, Become, tables
  <2>2. /\ req'[w].id = r.id /\ req'[w].pc = "deps" /\ req'[w].div = r.div
        /\ req'[w].ref = r.ref /\ req'[w].test = ListBySide("under_test")
    BY <1>1, <2>1 DEF Request
  <2>3. /\ Listed(req[w].test, "under_test")'
        /\ Listed(req[w].ref, "reference")'
    BY <1>1, <2>1, <2>2 DEF Listed, ListBySide, TraceLocal
  <2> QED
    BY <1>1, <2>1, <2>2, <2>3 DEF TraceLocal
<1>5. CASE TraceDeps(w)
  <2>0. PICK cp : cp = r.div.cp
    OBVIOUS
  <2> DEFINE found == WritesDiffer(r.ref, r.test, cp)
             status == IF found = {} THEN "insufficient_evidence" ELSE "confirmed"
  <2>1. r.pc = "deps" /\ UNCHANGED <<divs, events>>
    BY <1>5 DEF TraceDeps, At
  <2>2. found \subseteq Differs(cp)'
    <3>1. Listed(r.ref, "reference") /\ Listed(r.test, "under_test")
      BY <1>1, <2>1 DEF TraceLocal
    <3>2. found \subseteq Differs(cp)
      BY <3>1, ValsAssumption
         DEF Listed, Differs, WritesDiffer, Written, UpTo, ListBySide
    <3> QED
      BY <3>2, EvidenceKept
  <2>3. CASE Finish(w)
    BY <1>1, <2>3 DEF Finish, Become, Idle
  <2>4. CASE Become(w, [r EXCEPT !.div.status = "insufficient_evidence",
                                 !.pc = "update"])
    <3>1. req'[w] = [r EXCEPT !.div.status = "insufficient_evidence", !.pc = "update"]
      BY <1>1, <2>4 DEF Become
    <3>2. /\ req'[w].id = r.id /\ req'[w].pc = "update"
          /\ req'[w].div.cp = cp /\ req'[w].div.status = "insufficient_evidence"
      BY <1>1, <2>0, <3>1 DEF Request, DivRow
    <3> QED
      BY <1>1, <2>0, <2>1, <3>2 DEF TraceLocal
  <2>5. ASSUME NEW s \in Seqs \cup {0}, FirstDivergent(r.ref, r.test, cp, s),
               Become(w, [r EXCEPT !.div.first = s, !.div.status = status,
                                   !.pc = "save_chain"])
        PROVE  req'[w].op = "trace" => TraceLocal(req[w])'
    <3>1. status = "confirmed" => s \in found
      BY <2>5 DEF FirstDivergent, IsFirst
    <3>2. status \in {"insufficient_evidence", "confirmed"}
      OBVIOUS
    <3> HIDE DEF status, found
    <3>3. req'[w] = [r EXCEPT !.div.first = s, !.div.status = status,
                              !.pc = "save_chain"]
      BY <1>1, <2>5 DEF Become
    <3>4. /\ req'[w].id = r.id /\ req'[w].pc = "save_chain"
          /\ req'[w].div = [[r.div EXCEPT !.first = s] EXCEPT !.status = status]
      BY <1>1, <3>3 DEF Request
    <3>5. /\ req'[w].div.cp = cp /\ req'[w].div.status = status
          /\ req'[w].div.first = s
      BY <1>1, <2>0, <3>4 DEF DivRow
    <3> QED
      BY <1>1, <2>0, <2>1, <2>2, <3>1, <3>2, <3>4, <3>5 DEF TraceLocal
  <2> QED
    BY <1>5, <2>0, <2>3, <2>4, <2>5 DEF TraceDeps
<1>6. CASE TraceSaveChain(w) \/ TraceUpdate(w) \/ TraceConfirm(w)
  <2>1. Finish(w) => req'[w].op = "none"
    BY <1>1 DEF Finish, Become, Idle
  <2>2. TraceConfirm(w) => Finish(w)
    BY DEF TraceConfirm
  <2>3. ASSUME NEW pc \in {"update", "confirm"}, Goto(w, pc)
        PROVE  /\ req'[w].id = r.id /\ req'[w].pc = pc /\ req'[w].div = r.div
    BY <1>1, <2>3 DEF Goto, Request
  <2>4. CASE TraceSaveChain(w)
    <3>1. r.pc = "save_chain" /\ Goto(w, "update") /\ UNCHANGED <<divs, events>>
      BY <2>4 DEF TraceSaveChain, At
    <3>2. PICK cp : cp = r.div.cp
      OBVIOUS
    <3>3. Differs(cp) \subseteq Differs(cp)'
      BY EvidenceKept
    <3> QED
      BY <1>1, <2>3, <3>1, <3>2, <3>3 DEF TraceLocal
  <2>5. CASE TraceUpdate(w)
    <3>1. r.pc = "update" /\ (Finish(w) \/ Goto(w, "confirm"))
      BY <2>5 DEF TraceUpdate, At
    <3> QED
      BY <1>1, <2>1, <2>3, <3>1 DEF TraceLocal
  <2> QED
    BY <1>6, <2>1, <2>2, <2>4, <2>5
<1>7. CASE ~(\/ TraceGet(w) \/ TraceRef(w) \/ TraceTest(w) \/ TraceDeps(w)
             \/ TraceSaveChain(w) \/ TraceUpdate(w) \/ TraceConfirm(w))
  BY <1>7
     DEF CompareNext, ScanBegin, ScanCheckpoints, ScanRef, ScanTest,
         ScanUpsertRef, ScanUpsertTest, CompareBegin, CompareCheckpoints,
         ComparePair, CompareExisting, CompareCreate, CompareEnd, TraceBegin,
         At, Begin, MayStart
<1> QED
  BY <1>2, <1>3, <1>4, <1>5, <1>6, <1>7

LEMMA TraceBegins ==
  ASSUME EvidenceInv, NEW w \in Workers, NEW d \in DivIds, TraceBegin(w, d)
  PROVE  TraceLocal(req[w])'
<1>1. d \in Divergences /\ UNCHANGED divs
  BY DEF TraceBegin, tables
<1>2. [Idle EXCEPT !.id = d].id = d /\ [Idle EXCEPT !.id = d] \in Request
  BY ArgsTyped
<1>3. req'[w].id = d /\ req'[w].pc = "get"
  BY <1>2
     DEF TraceBegin, Begin, EvidenceInv, TypeInv, TypeOK, RequestsTypeOK, Request
<1> QED
  BY <1>1, <1>3 DEF TraceLocal, Divergences

-----------------------------------------------------------------------------

LEMMA InitEvidenceInv ==
  ASSUME Init
  PROVE  EvidenceInv
<1>1. EventsPresent
  BY DEF Init, StoreInit, EventsPresent, NoEvent
<1>2. TracesOK
  BY DEF Init, RequestsInit, TracesOK, Idle
<1>3. ConfirmedDiverges
  BY DEF Init, StoreInit, ConfirmedDiverges, Divergences, NoDiv
<1> QED
  BY <1>1, <1>2, <1>3, InitTypeInv DEF EvidenceInv

LEMMA NextEvidenceInv ==
  ASSUME EvidenceInv, [Next]_vars
  PROVE  EvidenceInv'
<1>1. TypeInv /\ TypeInv' /\ EventsPresent'
  BY NextTypeInv, EventsStep DEF EvidenceInv
<1>2. TracesOK'
  <2>1. SUFFICES ASSUME NEW v \in Workers
                 PROVE  req'[v].op = "trace" => TraceLocal(req[v])'
    BY DEF TracesOK
  <2>2. CASE req'[v] = req[v]
    BY <2>2, OtherTraces
  <2>3. CASE Restart
    BY <2>3 DEF Restart, Idle
  <2>4. ASSUME NEW w \in Workers, Fail(w), req'[v] # req[v]
        PROVE  req'[v].op # "trace"
    BY <1>1, <2>4 DEF Fail, Finish, Become, Idle, TypeInv, TypeOK, RequestsTypeOK
  <2>5. ASSUME NEW w \in Workers, req'[v] # req[v],
               TrailNext(w) \/ CompareNext(w) \/ SnapshotNext(w)
        PROVE  req'[v].op = "trace" => TraceLocal(req[v])'
    <3>1. v = w
      BY <1>1, <2>5, OneWorker
    <3> QED
      BY <1>1, <2>5, <3>1, QuietSteps, TraceSteps, TraceBegins
  <2> QED
    BY <2>2, <2>3, <2>4, <2>5 DEF Next, vars
<1>3. ConfirmedDiverges'
  <2>1. SUFFICES ASSUME NEW d \in DivIds, divs'[d].status = "confirmed"
                 PROVE  divs'[d].first \in Differs(divs[d].cp)'
    BY DEF ConfirmedDiverges, Differs, Divergences
  <2>2. PICK cp : cp = divs[d].cp
    OBVIOUS
  <2>3. Differs(cp) \subseteq Differs(cp)'
    BY EvidenceKept
  <2>4. d \in Divergences => divs'[d].cp = cp
    BY <2>2, EvidenceKept
  <2>5. CASE divs'[d] = divs[d]
    BY <2>1, <2>2, <2>3, <2>5 DEF EvidenceInv, ConfirmedDiverges, Differs, Divergences
  <2>6. ASSUME NEW w \in Workers, At(w, "trace", "update"), req[w].id = d,
               divs'[d].status = req[w].div.status,
               divs'[d].first = req[w].div.first
        PROVE  divs'[d].first \in Differs(divs[d].cp)'
    <3>1. TraceLocal(req[w]) /\ req[w].pc = "update"
      BY <2>6 DEF EvidenceInv, TracesOK, At
    <3>2. d \in Divergences /\ divs'[d].first \in Differs(cp)
      BY <2>1, <2>2, <2>6, <3>1 DEF TraceLocal
    <3> QED
      BY <2>3, <2>4, <3>2
  <2> QED
    BY <2>1, <2>5, <2>6, DivsStep
<1> QED
  BY <1>1, <1>2, <1>3 DEF EvidenceInv

\* A confirmed divergence stays backed by the trails of the batch, although the
\* trace judged copies of them and imports are accepted while it runs.
THEOREM ConfirmedDivergesAlways == Spec => []ConfirmedDiverges
<1>1. Init => EvidenceInv
  BY InitEvidenceInv
<1>2. EvidenceInv /\ [Next]_vars => EvidenceInv'
  BY NextEvidenceInv
<1>3. EvidenceInv => ConfirmedDiverges
  BY DEF EvidenceInv
<1> QED
  BY <1>1, <1>2, <1>3, PTL DEF Spec

=============================================================================
