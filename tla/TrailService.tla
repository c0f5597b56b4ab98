---------------------------- MODULE TrailService ----------------------------
(***************************************************************************)
(* The methods that build a batch up: import of trail fragments,           *)
(* checkpoints, exclusion of events, and Sync, which aligns the two trails *)
(* and locks the range (batch_service.go, sync/aligner.go).                *)
(* One action per SQL statement or transaction.                            *)
(***************************************************************************)
EXTENDS Requests

(* ImportEvents: Validate sorts the inputs and asks for each seq whether it *)
(* exists; one transaction inserts those that do not.                      *)

\* ToModel drops a malformed input.
ToModel(input) == IF input = "malformed" THEN "none" ELSE input

\* Of several inputs at a seq Validate takes the first one; sort.Slice may leave
\* any of them there.
Deduped(inputs) == IF inputs = {} THEN {"none"} ELSE {ToModel(in) : in \in inputs}

\* Mutated: refused only by a sealed batch.
ImportBeginLate(w, f) ==
  /\ batch.status # "sealed"
  /\ \E s \in Seqs : f.inputs[s] # {}
  /\ \E trail \in Trail :
       /\ \A s \in Seqs : trail[s] \in Deduped(f.inputs[s])
       /\ Begin(w, "import", "check",
            [Idle EXCEPT !.side = f.side, !.ref = trail,
                         !.left = {s \in Seqs : f.inputs[s] # {}}])
  /\ UNCHANGED tables

ImportBegin(w, f) ==
  /\ batch.status \in {"receiving", "syncing"}
  /\ \E s \in Seqs : f.inputs[s] # {}
  /\ \E trail \in Trail :
       /\ \A s \in Seqs : trail[s] \in Deduped(f.inputs[s])
       /\ Begin(w, "import", "check",
            [Idle EXCEPT !.side = f.side, !.ref = trail,
                         !.left = {s \in Seqs : f.inputs[s] # {}}])
  /\ UNCHANGED tables

\* A seq that exists is skipped; when nothing is left to insert, so is the
\* transaction.
ImportCheck(w) ==
  /\ At(w, "import", "check")
  /\ \E s \in Seqs :
       LET r    == req[w]
           todo == IF s \in Rows(r.side) THEN [r.ref EXCEPT ![s] = "none"] ELSE r.ref
       IN  /\ IsFirst(s, r.left)
           /\ IF r.left # {s}
                THEN Become(w, [r EXCEPT !.left = @ \ {s}, !.ref = todo])
                ELSE IF todo = NoTrail
                  THEN Finish(w)
                  ELSE Become(w, [r EXCEPT !.left = {}, !.ref = todo, !.pc = "insert"])
  /\ UNCHANGED tables

ImportInsert(w) ==
  /\ At(w, "import", "insert")
  /\ InsertBatch(req[w].side, req[w].ref)
  /\ Finish(w)
  /\ UNCHANGED <<batch, cps, fps, deps, divs, chain, snaps>>

-----------------------------------------------------------------------------
(* AddCheckpoint, MarkCheckpointUnreliable, ExcludeEvent: a guard read from *)
(* the batch, then one statement.                                           *)

CheckpointBegin(w, s) ==
  /\ batch.status # "sealed"
  /\ Begin(w, "checkpoint", "insert", [Idle EXCEPT !.seq = s])
  /\ UNCHANGED tables

CheckpointInsert(w) ==
  /\ At(w, "checkpoint", "insert")
  /\ CreateCheckpoint(req[w].seq)
  /\ Finish(w)
  /\ UNCHANGED <<batch, events, fps, deps, divs, chain, snaps>>

\* Mutated: no IsSealed check.
MarkBeginUnchecked(w, s) ==
  /\ cps[s] # "none"
  /\ Begin(w, "mark", "update", [Idle EXCEPT !.seq = s])
  /\ UNCHANGED tables

MarkBegin(w, s) ==
  /\ batch.status # "sealed"
  /\ cps[s] # "none"
  /\ Begin(w, "mark", "update", [Idle EXCEPT !.seq = s])
  /\ UNCHANGED tables

\* Mutated: the event's status constant written to the checkpoint.
MarkUpdateAsEvent(w) ==
  /\ At(w, "mark", "update")
  /\ UpdateCheckpointStatus(req[w].seq, "excluded")
  /\ Finish(w)
  /\ UNCHANGED <<batch, events, fps, deps, divs, chain, snaps>>

MarkUpdate(w) ==
  /\ At(w, "mark", "update")
  /\ UpdateCheckpointStatus(req[w].seq, "unreliable")
  /\ Finish(w)
  /\ UNCHANGED <<batch, events, fps, deps, divs, chain, snaps>>

ExcludeBegin(w, side, s) ==
  /\ batch.status # "sealed"
  /\ s \in Rows(side)
  /\ Begin(w, "exclude", "update", [Idle EXCEPT !.side = side, !.seq = s])
  /\ UNCHANGED tables

ExcludeUpdate(w) ==
  /\ At(w, "exclude", "update")
  /\ UpdateEventStatus(req[w].side, req[w].seq, "excluded")
  /\ Finish(w)
  /\ UNCHANGED <<batch, cps, fps, deps, divs, chain, snaps>>

-----------------------------------------------------------------------------
(* Sync: the ranges of both sides, the events of both sides, one update    *)
(* per listed event, then the batch row.                                   *)

SyncBegin(w) ==
  /\ batch.status = "receiving"
  /\ Begin(w, "sync", "range_ref", Idle)
  /\ UNCHANGED tables

SyncRangeRef(w) ==
  /\ At(w, "sync", "range_ref")
  /\ \E lo, hi \in Seqs \cup {0} :
       /\ SeqRange("reference", lo, hi)
       /\ Become(w, [req[w] EXCEPT !.lo = lo, !.hi = hi, !.pc = "range_test"])
  /\ UNCHANGED tables

\* Mutated: the second range replaces the first.
SyncRangeTestReplaces(w) ==
  /\ At(w, "sync", "range_test")
  /\ \E lo, hi \in Seqs \cup {0} :
       /\ SeqRange("under_test", lo, hi)
       /\ Become(w, [req[w] EXCEPT !.lo = lo, !.hi = hi, !.pc = "list_ref"])
  /\ UNCHANGED tables

\* Mutated: the minimum taken together with that of a variable never set.
SyncRangeTestFromZero(w) ==
  /\ At(w, "sync", "range_test")
  /\ \E lo, hi \in Seqs \cup {0} :
       LET r == req[w]
       IN  /\ SeqRange("under_test", lo, hi)
           /\ IF r.hi = 0 /\ hi = 0
                THEN Finish(w)
                ELSE Become(w, [r EXCEPT !.lo = 0,
                                         !.hi = IF r.hi > hi THEN r.hi ELSE hi,
                                         !.pc = "list_ref"])
  /\ UNCHANGED tables

\* Two maxima of 0 are reported as "both trails are empty".
SyncRangeTest(w) ==
  /\ At(w, "sync", "range_test")
  /\ \E lo, hi \in Seqs \cup {0} :
       LET r == req[w]
       IN  /\ SeqRange("under_test", lo, hi)
           /\ IF r.hi = 0 /\ hi = 0
                THEN Finish(w)
                ELSE Become(w, [r EXCEPT !.lo = IF r.lo < lo THEN r.lo ELSE lo,
                                         !.hi = IF r.hi > hi THEN r.hi ELSE hi,
                                         !.pc = "list_ref"])
  /\ UNCHANGED tables

\* Mutated: the status check of the alignment loop dropped.
AlignableAll(side) == Rows(side)

\* The events Align sets to aligned.
Alignable(side) == Rows(side) \ ListExcluded(side)

SyncListRef(w) ==
  /\ At(w, "sync", "list_ref")
  /\ Become(w, [req[w] EXCEPT !.left = Alignable("reference"), !.pc = "list_test"])
  /\ UNCHANGED tables

SyncListTest(w) ==
  /\ At(w, "sync", "list_test")
  /\ Become(w, [req[w] EXCEPT !.next = Alignable("under_test"), !.pc = "align"])
  /\ UNCHANGED tables

SyncAlignRef(w) ==
  /\ At(w, "sync", "align")
  /\ \E s \in Seqs :
       /\ IsFirst(s, req[w].left)
       /\ UpdateEventStatus("reference", s, "aligned")
       /\ Become(w, [req[w] EXCEPT !.left = @ \ {s}])
  /\ UNCHANGED <<batch, cps, fps, deps, divs, chain, snaps>>

SyncAlignTest(w) ==
  /\ At(w, "sync", "align")
  /\ req[w].left = {}
  /\ \E s \in Seqs :
       /\ IsFirst(s, req[w].next)
       /\ UpdateEventStatus("under_test", s, "aligned")
       /\ Become(w, [req[w] EXCEPT !.next = @ \ {s}])
  /\ UNCHANGED <<batch, cps, fps, deps, divs, chain, snaps>>

\* LockRange, Transition and Update.
SyncCommit(w) ==
  LET r == req[w]
  IN  /\ At(w, "sync", "align")
      /\ r.left = {} /\ r.next = {}
      /\ IF r.lo <= r.hi /\ CanTransitionBatch(r.b.status, "syncing")
           THEN UpdateBatch([status |-> "syncing", min |-> r.lo, max |-> r.hi])
           ELSE UNCHANGED batch
      /\ Finish(w)
      /\ UNCHANGED <<events, cps, fps, deps, divs, chain, snaps>>

-----------------------------------------------------------------------------

TrailNext(w) ==
  \/ \E f \in Fragments : ImportBegin(w, f)
  \/ ImportCheck(w)
  \/ ImportInsert(w)
  \/ \E s \in Seqs : CheckpointBegin(w, s) \/ MarkBegin(w, s)
  \/ CheckpointInsert(w)
  \/ MarkUpdate(w)
  \/ \E side \in Side, s \in Seqs : ExcludeBegin(w, side, s)
  \/ ExcludeUpdate(w)
  \/ SyncBegin(w)
  \/ SyncRangeRef(w)
  \/ SyncRangeTest(w)
  \/ SyncListRef(w)
  \/ SyncListTest(w)
  \/ SyncAlignRef(w)
  \/ SyncAlignTest(w)
  \/ SyncCommit(w)

=============================================================================
