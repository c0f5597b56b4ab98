-------------------------- MODULE SnapshotService --------------------------
(***************************************************************************)
(* The methods that close a batch: manual confirmation and sealing, the    *)
(* draft that freezes the comparison configuration, and its publication,   *)
(* which supersedes the earlier published snapshots and seals the batch    *)
(* (batch_service.go, snapshot_service.go).                                *)
(***************************************************************************)
EXTENDS Requests

(* ConfirmBatch and SealBatch: read the row, write it back.                *)

ConfirmBegin(w) ==
  /\ batch.status = "pending_loc"
  /\ Begin(w, "confirm", "update", Idle)
  /\ UNCHANGED tables

ConfirmUpdate(w) ==
  /\ At(w, "confirm", "update")
  /\ CanTransitionBatch(req[w].b.status, "confirmed")
  /\ UpdateBatch([req[w].b EXCEPT !.status = "confirmed"])
  /\ Finish(w)
  /\ UNCHANGED <<events, cps, fps, deps, divs, chain, snaps>>

SealBegin(w) ==
  /\ batch.status = "confirmed"
  /\ Begin(w, "seal", "update", Idle)
  /\ UNCHANGED tables

SealUpdate(w) ==
  /\ At(w, "seal", "update")
  /\ CanTransitionBatch(req[w].b.status, "sealed")
  /\ UpdateBatch([req[w].b EXCEPT !.status = "sealed"])
  /\ Finish(w)
  /\ UNCHANGED <<events, cps, fps, deps, divs, chain, snaps>>

-----------------------------------------------------------------------------
(* CreateSnapshot: the range comes from the batch row, the checkpoint sets *)
(* and the excluded seqs (of the test side only) from two later lists.     *)

DraftBegin(w) ==
  /\ batch.status \in {"confirmed", "pending_loc"}
  /\ Begin(w, "draft", "checkpoints", Idle)
  /\ UNCHANGED tables

DraftCheckpoints(w) ==
  /\ At(w, "draft", "checkpoints")
  /\ Become(w, [req[w] EXCEPT !.cfg.min = req[w].b.min,
                              !.cfg.max = req[w].b.max,
                              !.cfg.trusted = TrustedCheckpoints,
                              !.cfg.unreliable = UnreliableCheckpoints,
                              !.pc = "excluded"])
  /\ UNCHANGED tables

DraftExcluded(w) ==
  /\ At(w, "draft", "excluded")
  /\ Become(w, [req[w] EXCEPT !.cfg.excluded = ListExcluded("under_test"),
                              !.pc = "insert"])
  /\ UNCHANGED tables

DraftInsert(w) ==
  /\ At(w, "draft", "insert")
  /\ CreateSnapshotRow(req[w].cfg)
  /\ Finish(w)
  /\ UNCHANGED <<batch, events, cps, fps, deps, divs, chain>>

-----------------------------------------------------------------------------
(* PublishSnapshot.                                                        *)

PublishBegin(w, s) ==
  /\ s \in Snapshots
  /\ Begin(w, "publish", "get", [Idle EXCEPT !.id = s])
  /\ UNCHANGED tables

\* Mutated: no check of the snapshot's status.
PublishGetUnchecked(w) ==
  /\ At(w, "publish", "get")
  /\ Goto(w, "summary")
  /\ UNCHANGED tables

\* Anything but a draft is refused.
PublishGet(w) ==
  /\ At(w, "publish", "get")
  /\ IF snaps[req[w].id].status = "draft" THEN Goto(w, "summary") ELSE Finish(w)
  /\ UNCHANGED tables

Located == {d \in Divergences : divs[d].status \in {"confirmed", "first_divergence"}}

\* The first divergent seq of the located divergence with the highest id.
LatestFirst(first) ==
  IF Located = {} THEN first = 0
                  ELSE \E d \in Located : IsLast(d, Located) /\ first = divs[d].first

PublishSummary(w) ==
  /\ At(w, "publish", "summary")
  /\ \E first \in {0} \cup {divs[d].first : d \in Located} :
       /\ LatestFirst(first)
       /\ Become(w, [req[w] EXCEPT !.sum.count = Cardinality(Divergences),
                                   !.sum.first = first,
                                   !.pc = "publish"])
  /\ UNCHANGED tables

\* Mutated: only snapshots older than this one are superseded.
PublishedOverOlder(s, sum) ==
  [t \in SnapIds |->
     IF t = s
       THEN [snaps[t] EXCEPT !.status = "published", !.sum = sum, !.by = 0]
       ELSE IF snaps[t].status = "published" /\ t < s
         THEN [snaps[t] EXCEPT !.status = "superseded", !.by = s]
         ELSE snaps[t]]

\* Mutated: the row is written before the others are superseded, and the test
\* old.ID != snapID is gone.
PublishedThenSuperseded(s, sum) ==
  [t \in SnapIds |->
     IF t = s
       THEN [snaps[t] EXCEPT !.status = "superseded", !.sum = sum, !.by = s]
       ELSE IF snaps[t].status = "published"
         THEN [snaps[t] EXCEPT !.status = "superseded", !.by = s]
         ELSE snaps[t]]

\* Mutated: the list of the existing snapshots leaves out their summaries, which
\* the update then writes back empty.
PublishedOverBlanks(s, sum) ==
  [t \in SnapIds |->
     IF t = s
       THEN [snaps[t] EXCEPT !.status = "published", !.sum = sum, !.by = 0]
       ELSE IF snaps[t].status = "published"
         THEN [snaps[t] EXCEPT !.status = "superseded", !.sum = NoSummary, !.by = s]
         ELSE snaps[t]]

\* What the transaction leaves in loc_snapshots: the other published rows
\* superseded, this row written back from the draft that was read.
Published(s, sum) ==
  [t \in SnapIds |->
     IF t = s
       THEN [snaps[t] EXCEPT !.status = "published", !.sum = sum, !.by = 0]
       ELSE IF snaps[t].status = "published"
         THEN [snaps[t] EXCEPT !.status = "superseded", !.by = s]
         ELSE snaps[t]]

\* Mutated: the batch row is not written in the transaction.
PublishCommitUnsealed(w) ==
  /\ At(w, "publish", "publish")
  /\ req[w].b.status \in {"confirmed", "sealed"}
  /\ snaps' = Published(req[w].id, req[w].sum)
  /\ Finish(w)
  /\ UNCHANGED <<batch, events, cps, fps, deps, divs, chain>>

\* Mutated: the status is set without Transition.
PublishCommitUnchecked(w) ==
  /\ At(w, "publish", "publish")
  /\ snaps' = Published(req[w].id, req[w].sum)
  /\ UpdateBatch([req[w].b EXCEPT !.status = "sealed"])
  /\ Finish(w)
  /\ UNCHANGED <<events, cps, fps, deps, divs, chain>>

\* A batch read as sealed is left alone; a transition its copy does not allow
\* rolls the transaction back.
PublishCommit(w) ==
  LET r == req[w]
  IN  /\ At(w, "publish", "publish")
      /\ \/ /\ r.b.status = "sealed"
            /\ snaps' = Published(r.id, r.sum)
            /\ UNCHANGED batch
         \/ /\ CanTransitionBatch(r.b.status, "sealed")
            /\ snaps' = Published(r.id, r.sum)
            /\ UpdateBatch([r.b EXCEPT !.status = "sealed"])
         \/ /\ r.b.status # "sealed" /\ ~CanTransitionBatch(r.b.status, "sealed")
            /\ UNCHANGED <<snaps, batch>>
      /\ Finish(w)
      /\ UNCHANGED <<events, cps, fps, deps, divs, chain>>

-----------------------------------------------------------------------------

SnapshotNext(w) ==
  \/ ConfirmBegin(w)
  \/ ConfirmUpdate(w)
  \/ SealBegin(w)
  \/ SealUpdate(w)
  \/ DraftBegin(w)
  \/ DraftCheckpoints(w)
  \/ DraftExcluded(w)
  \/ DraftInsert(w)
  \/ \E s \in SnapIds : PublishBegin(w, s)
  \/ PublishGet(w)
  \/ PublishSummary(w)
  \/ PublishCommit(w)

=============================================================================
