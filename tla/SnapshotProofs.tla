--------------------------- MODULE SnapshotProofs ---------------------------
(***************************************************************************)
(* Proofs about the snapshots of a batch, for every interleaving of its    *)
(* requests: one published snapshot at most, and every superseded one      *)
(* leads to it.                                                            *)
(***************************************************************************)
EXTENDS ReplayServiceProofs

\* Apart from a draft that is inserted and a publication that commits, no step
\* touches loc_snapshots.
LEMMA SnapshotWriters ==
  ASSUME [Next]_vars
  PROVE  \/ UNCHANGED snaps
         \/ \E w \in Workers : DraftInsert(w) \/ PublishCommit(w)
<1>1. CASE Restart \/ UNCHANGED vars
  BY <1>1 DEF Restart, tables, vars
<1>2. ASSUME NEW w \in Workers, Fail(w)
      PROVE  UNCHANGED snaps
  BY <1>2 DEF Fail, tables
<1>3. ASSUME NEW w \in Workers, TrailNext(w)
      PROVE  UNCHANGED snaps
  BY <1>3 DEF TrailNext, ImportBegin, ImportCheck, ImportInsert, CheckpointBegin,
       MarkBegin, CheckpointInsert, MarkUpdate, ExcludeBegin, ExcludeUpdate,
       SyncBegin, SyncRangeRef, SyncRangeTest, SyncListRef, SyncListTest,
       SyncAlignRef, SyncAlignTest, SyncCommit, tables
<1>4. ASSUME NEW w \in Workers, CompareNext(w)
      PROVE  UNCHANGED snaps
  BY <1>4 DEF CompareNext, ScanBegin, ScanCheckpoints, ScanRef, ScanTest,
       ScanUpsertRef, ScanUpsertTest, CompareBegin, CompareCheckpoints,
       ComparePair, CompareExisting, CompareCreate, CompareEnd, TraceBegin,
       TraceGet, TraceRef, TraceTest, TraceDeps, TraceSaveChain, TraceUpdate,
       TraceConfirm, tables
<1>5. ASSUME NEW w \in Workers, SnapshotNext(w)
      PROVE  \/ UNCHANGED snaps
             \/ DraftInsert(w)
             \/ PublishCommit(w)
  BY <1>5 DEF SnapshotNext, ConfirmBegin, ConfirmUpdate, SealBegin, SealUpdate,
       DraftBegin, DraftCheckpoints, DraftExcluded, PublishBegin, PublishGet,
       PublishSummary, tables
<1> QED
  BY <1>1, <1>2, <1>3, <1>4, <1>5 DEF Next

LEMMA SnapshotSteps ==
  ASSUME [Next]_vars
  PROVE  \/ UNCHANGED snaps
         \/ \E w \in Workers : DraftInsert(w)
         \/ \E w \in Workers :
              At(w, "publish", "publish") /\ snaps' = Published(req[w].id, req[w].sum)
BY SnapshotWriters DEF PublishCommit

\* A draft that is inserted leaves the published and superseded rows alone.
LEMMA DraftKeepsOthers ==
  ASSUME TypeOK, NEW w \in Workers, DraftInsert(w)
  PROVE  /\ PublishedIds' = PublishedIds
         /\ SupersededIds' = SupersededIds
         /\ \A s \in PublishedIds \cup SupersededIds : snaps'[s] = snaps[s]
<1>1. snaps \in [SnapIds -> SnapRow]
  BY DEF TypeOK, StoreTypeOK
<1>2. PICK s \in SnapIds :
        /\ snaps[s].status = "none"
        /\ snaps' = [snaps EXCEPT ![s] =
             [NoSnap EXCEPT !.status = "draft", !.cfg = req[w].cfg]]
  BY DEF DraftInsert, CreateSnapshotRow, IsFirst, Snapshots
<1>3. snaps'[s].status = "draft"
  BY <1>1, <1>2 DEF NoSnap
<1>4. \A t \in SnapIds : t # s => snaps'[t] = snaps[t]
  BY <1>1, <1>2
<1> QED
  BY <1>2, <1>3, <1>4 DEF PublishedIds, SupersededIds

\* After a publication its row is the published one, those published before are
\* superseded by it, and no other row has changed.
LEMMA PublishedRows ==
  ASSUME TypeOK, NEW s \in SnapIds, NEW sum, snaps' = Published(s, sum)
  PROVE  /\ PublishedIds' = {s}
         /\ SupersededIds' = (SupersededIds \cup PublishedIds) \ {s}
         /\ \A t \in PublishedIds \ {s} : snaps'[t].by = s
         /\ \A t \in SupersededIds \ {s} : snaps'[t] = snaps[t]
<1>1. \A t \in SnapIds : snaps[t] \in SnapRow
  BY DEF TypeOK, StoreTypeOK
<1>2. snaps'[s].status = "published"
  BY <1>1 DEF Published, SnapRow
<1>3. ASSUME NEW t \in SnapIds, t # s
      PROVE  IF snaps[t].status = "published"
               THEN snaps'[t].status = "superseded" /\ snaps'[t].by = s
               ELSE snaps'[t] = snaps[t]
  BY <1>1, <1>3 DEF Published, SnapRow
<1> QED
  BY <1>2, <1>3 DEF PublishedIds, SupersededIds

-----------------------------------------------------------------------------

\* Whatever two publications of the batch read before, the transaction of the
\* later one leaves its own snapshot the only published one.
THEOREM OnePublished == Spec => []AtMostOnePublished
<1>1. Init => AtMostOnePublished
  BY DEF Init, StoreInit, AtMostOnePublished, PublishedIds, NoSnap
<1>2. TypeInv /\ AtMostOnePublished /\ [Next]_vars => AtMostOnePublished'
  <2> SUFFICES ASSUME TypeInv, AtMostOnePublished, [Next]_vars
               PROVE  AtMostOnePublished'
    OBVIOUS
  <2>1. CASE UNCHANGED snaps
    BY <2>1 DEF AtMostOnePublished, PublishedIds
  <2>2. ASSUME NEW w \in Workers, DraftInsert(w)
        PROVE  AtMostOnePublished'
    BY <2>2, DraftKeepsOthers DEF AtMostOnePublished, TypeInv
  <2>3. ASSUME NEW w \in Workers, At(w, "publish", "publish"),
               snaps' = Published(req[w].id, req[w].sum)
        PROVE  AtMostOnePublished'
    <3>1. req[w].id \in SnapIds
      BY <2>3 DEF At, TypeInv, LocalsOK, LocalOK
    <3> QED
      BY <2>3, <3>1, PublishedRows DEF AtMostOnePublished, TypeInv
  <2> QED
    BY <2>1, <2>2, <2>3, SnapshotSteps
<1> QED
  BY <1>1, <1>2, InitTypeInv, NextTypeInv, PTL DEF Spec

\* Following superseded_by never runs in a circle and never ends at a draft,
\* even where a stale publication brings a superseded snapshot back.
THEOREM SupersessionSound == Spec => []SupersessionEndsAtPublished
<1>1. Init => SupersessionEndsAtPublished
  BY DEF Init, StoreInit, SupersessionEndsAtPublished, SupersededIds, NoSnap
<1>2. TypeInv /\ SupersessionEndsAtPublished /\ [Next]_vars
        => SupersessionEndsAtPublished'
  <2> SUFFICES ASSUME TypeInv, SupersessionEndsAtPublished, [Next]_vars
               PROVE  SupersessionEndsAtPublished'
    OBVIOUS
  <2>1. CASE UNCHANGED snaps
    BY <2>1 DEF SupersessionEndsAtPublished, PublishedIds, SupersededIds
  <2>2. ASSUME NEW w \in Workers, DraftInsert(w)
        PROVE  SupersessionEndsAtPublished'
    BY <2>2, DraftKeepsOthers DEF SupersessionEndsAtPublished, TypeInv
  <2>3. ASSUME NEW w \in Workers, At(w, "publish", "publish"),
               snaps' = Published(req[w].id, req[w].sum)
        PROVE  SupersessionEndsAtPublished'
    <3> DEFINE s == req[w].id
    <3>1. s \in SnapIds
      BY <2>3 DEF At, TypeInv, LocalsOK, LocalOK
    <3>2. /\ PublishedIds' = {s}
          /\ SupersededIds' = (SupersededIds \cup PublishedIds) \ {s}
          /\ \A t \in PublishedIds \ {s} : snaps'[t].by = s
          /\ \A t \in SupersededIds \ {s} : snaps'[t] = snaps[t]
      BY <2>3, <3>1, PublishedRows DEF TypeInv
    <3> HIDE DEF s
    <3>3. \A t \in SupersededIds' : snaps'[t].by \in SupersededIds' \cup PublishedIds'
      BY <3>2 DEF SupersessionEndsAtPublished
    <3>4. ASSUME NEW S \in SUBSET SupersededIds', S # {},
                 \A t \in S : snaps'[t].by \in S
          PROVE  FALSE
      <4>1. s \notin S
        BY <3>2
      <4>2. S \cap PublishedIds = {}
        BY <3>2, <3>4, <4>1
      <4>3. S \in SUBSET SupersededIds /\ \A t \in S : snaps'[t] = snaps[t]
        BY <3>2, <4>1, <4>2
      <4>4. PICK t \in S : snaps[t].by \notin S
        BY <3>4, <4>3 DEF SupersessionEndsAtPublished
      <4> QED
        BY <3>4, <4>3, <4>4
    <3> QED
      BY <3>3, <3>4 DEF SupersessionEndsAtPublished
  <2> QED
    BY <2>1, <2>2, <2>3, SnapshotSteps
<1> QED
  BY <1>1, <1>2, InitTypeInv, NextTypeInv, PTL DEF Spec

=============================================================================
