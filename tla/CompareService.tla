--------------------------- MODULE CompareService ---------------------------
(***************************************************************************)
(* The methods that find and locate divergences: ScanFingerprints replays  *)
(* both trails at each trusted checkpoint, Compare turns mismatching pairs *)
(* into candidates, TraceDivergence locates the first divergent            *)
(* instruction of one of them (batch_service.go, compare_service.go).      *)
(***************************************************************************)
EXTENDS Requests

(* ScanFingerprints: the checkpoints and both trails are listed once, then *)
(* each checkpoint gets two separate upserts.                              *)

ScanBegin(w) ==
  /\ batch.status \in {"syncing", "pending_loc"}
  /\ Begin(w, "scan", "checkpoints", Idle)
  /\ UNCHANGED tables

\* Mutated: only the checkpoints that have no fingerprints yet.
ScanCheckpointsUnscanned(w) ==
  /\ At(w, "scan", "checkpoints")
  /\ Become(w, [req[w] EXCEPT !.left = {cp \in TrustedCheckpoints : ~PairFound(cp)},
                              !.pc = "ref"])
  /\ UNCHANGED tables

ScanCheckpoints(w) ==
  /\ At(w, "scan", "checkpoints")
  /\ Become(w, [req[w] EXCEPT !.left = TrustedCheckpoints, !.pc = "ref"])
  /\ UNCHANGED tables

ScanRef(w) ==
  /\ At(w, "scan", "ref")
  /\ Become(w, [req[w] EXCEPT !.ref = ListBySide("reference"), !.pc = "test"])
  /\ UNCHANGED tables

ScanTest(w) ==
  /\ At(w, "scan", "test")
  /\ IF req[w].left = {}
       THEN Finish(w)
       ELSE Become(w, [req[w] EXCEPT !.test = ListBySide("under_test"),
                                     !.pc = "upsert_ref"])
  /\ UNCHANGED tables

\* Both sides are replayed before either fingerprint is written: a replay
\* that fails ends the scan with the earlier checkpoints already written.
ScanUpsertRef(w) ==
  /\ At(w, "scan", "upsert_ref")
  /\ \E cp \in Seqs :
       LET r == req[w]
       IN  /\ IsFirst(cp, r.left)
           /\ IF Replayable(r.ref, cp) /\ Replayable(r.test, cp)
                THEN \E hash \in Hash :
                       /\ Replayed(r.ref, cp, hash)
                       /\ UpsertFingerprint(cp, "reference", hash)
                       /\ Goto(w, "upsert_test")
                ELSE Finish(w) /\ UNCHANGED fps
  /\ UNCHANGED <<batch, events, cps, deps, divs, chain, snaps>>

ScanUpsertTest(w) ==
  /\ At(w, "scan", "upsert_test")
  /\ \E cp \in Seqs, hash \in Hash :
       LET r == req[w]
       IN  /\ IsFirst(cp, r.left)
           /\ Replayed(r.test, cp, hash)
           /\ UpsertFingerprint(cp, "under_test", hash)
           /\ IF r.left = {cp}
                THEN Finish(w)
                ELSE Become(w, [r EXCEPT !.left = @ \ {cp}, !.pc = "upsert_ref"])
  /\ UNCHANGED <<batch, events, cps, deps, divs, chain, snaps>>

-----------------------------------------------------------------------------
(* Compare: one candidate per trusted checkpoint whose pair mismatches,    *)
(* unless one is already listed; then the batch row.                       *)

CompareBegin(w) ==
  /\ batch.status = "syncing"
  /\ Begin(w, "compare", "checkpoints", Idle)
  /\ UNCHANGED tables

CompareCheckpoints(w) ==
  /\ At(w, "compare", "checkpoints")
  /\ Become(w, [req[w] EXCEPT !.left = TrustedCheckpoints, !.pc = "pair"])
  /\ UNCHANGED tables

\* A checkpoint without both fingerprints is skipped.
ComparePair(w) ==
  /\ At(w, "compare", "pair")
  /\ \E cp \in Seqs :
       LET r == req[w]
       IN  /\ IsFirst(cp, r.left)
           /\ IF PairFound(cp) /\ ~PairMatch(cp)
                THEN Become(w, [r EXCEPT !.scanned = TRUE, !.pc = "existing"])
                ELSE Become(w, [r EXCEPT !.scanned = @ \/ PairFound(cp),
                                         !.left = @ \ {cp}])
  /\ UNCHANGED tables

\* Mutated: no look for an existing candidate.
CompareExistingIgnored(w) ==
  /\ At(w, "compare", "existing")
  /\ Goto(w, "create")
  /\ UNCHANGED tables

\* Mutated: a candidate that exists is an error.
CompareExistingRefused(w) ==
  /\ At(w, "compare", "existing")
  /\ IF \E cp \in Seqs : IsFirst(cp, req[w].left) /\ HasCandidate(cp)
       THEN Finish(w) ELSE Goto(w, "create")
  /\ UNCHANGED tables

CompareExisting(w) ==
  /\ At(w, "compare", "existing")
  /\ \E cp \in Seqs :
       LET r == req[w]
       IN  /\ IsFirst(cp, r.left)
           /\ IF HasCandidate(cp)
                THEN Become(w, [r EXCEPT !.left = @ \ {cp}, !.pc = "pair"])
                ELSE Goto(w, "create")
  /\ UNCHANGED tables

CompareCreate(w) ==
  /\ At(w, "compare", "create")
  /\ \E cp \in Seqs :
       /\ IsFirst(cp, req[w].left)
       /\ CreateDivergence(cp)
       /\ Become(w, [req[w] EXCEPT !.left = @ \ {cp}, !.pc = "pair"])
  /\ UNCHANGED <<batch, events, cps, fps, deps, chain, snaps>>

\* No pair at any checkpoint is ErrFingerprintMissing.
CompareEnd(w) ==
  /\ At(w, "compare", "pair")
  /\ req[w].left = {}
  /\ IF req[w].scanned /\ CanTransitionBatch(req[w].b.status, "pending_loc")
       THEN UpdateBatch([req[w].b EXCEPT !.status = "pending_loc"])
       ELSE UNCHANGED batch
  /\ Finish(w)
  /\ UNCHANGED <<events, cps, fps, deps, divs, chain, snaps>>

-----------------------------------------------------------------------------
(* TraceDivergence: the dependency edges are rebuilt first, then the chain *)
(* and the verdict are written one after the other, and the batch last.    *)

\* Mutated: no check of the batch status.
TraceBeginUnchecked(w, d) ==
  /\ d \in Divergences
  /\ Begin(w, "trace", "get", [Idle EXCEPT !.id = d])
  /\ UNCHANGED tables

TraceBegin(w, d) ==
  /\ batch.status = "pending_loc"
  /\ d \in Divergences
  /\ Begin(w, "trace", "get", [Idle EXCEPT !.id = d])
  /\ UNCHANGED tables

TraceGet(w) ==
  /\ At(w, "trace", "get")
  /\ Become(w, [req[w] EXCEPT !.div = divs[req[w].id], !.pc = "ref"])
  /\ UNCHANGED tables

TraceRef(w) ==
  /\ At(w, "trace", "ref")
  /\ Become(w, [req[w] EXCEPT !.ref = ListBySide("reference"), !.pc = "test"])
  /\ UNCHANGED tables

TraceTest(w) ==
  /\ At(w, "trace", "test")
  /\ Become(w, [req[w] EXCEPT !.test = ListBySide("under_test"), !.pc = "deps"])
  /\ UNCHANGED tables

SameState(ref, test, limit) ==
  \E hash \in Hash : Replayed(ref, limit, hash) /\ Replayed(test, limit, hash)

\* Mutated: the seqs are visited in map order, not sorted.
FirstDivergentUnsorted(ref, test, limit, s) ==
  LET differing == WritesDiffer(ref, test, limit)
  IN  IF differing = {} THEN s = 0 ELSE s \in differing

\* The first instruction that writes differently, 0 when there is none.
FirstDivergent(ref, test, limit, s) ==
  LET differing == WritesDiffer(ref, test, limit)
  IN  IF differing = {} THEN s = 0 ELSE IsFirst(s, differing)

\* The transaction that replaces the edges comes before the replay, whose
\* failure ends the request.  Equal states leave the verdict "insufficient"
\* and the chain alone; otherwise the chain is saved before the verdict.
TraceDeps(w) ==
  LET r  == req[w]
      cp == r.div.cp
  IN  /\ At(w, "trace", "deps")
      /\ ReplaceDependencies(DependencyEdges(r.ref, r.test))
      /\ IF ~(Replayable(r.ref, cp) /\ Replayable(r.test, cp))
           THEN Finish(w)
           ELSE IF SameState(r.ref, r.test, cp)
             THEN Become(w, [r EXCEPT !.div.status = "insufficient_evidence",
                                      !.pc = "update"])
             ELSE \E s \in Seqs \cup {0} :
                    /\ FirstDivergent(r.ref, r.test, cp, s)
                    /\ Become(w, [r EXCEPT
                         !.div.first = s,
                         !.div.status =
                           IF WritesDiffer(r.ref, r.test, cp) = {}
                             THEN "insufficient_evidence" ELSE "confirmed",
                         !.pc = "save_chain"])
      /\ UNCHANGED <<batch, events, cps, fps, divs, chain, snaps>>

\* With one resource the chain is the root instruction alone.
ChainNodes(div) == IF div.status = "confirmed" THEN {div.first} ELSE {}

TraceSaveChain(w) ==
  /\ At(w, "trace", "save_chain")
  /\ SaveChain(req[w].id, ChainNodes(req[w].div))
  /\ Goto(w, "update")
  /\ UNCHANGED <<batch, events, cps, fps, deps, divs, snaps>>

\* Mutated: the early return without a confirmed verdict dropped.
TraceUpdateGoesOn(w) ==
  /\ At(w, "trace", "update")
  /\ UpdateDivergence(req[w].id, req[w].div)
  /\ Goto(w, "confirm")
  /\ UNCHANGED <<batch, events, cps, fps, deps, chain, snaps>>

TraceUpdate(w) ==
  /\ At(w, "trace", "update")
  /\ UpdateDivergence(req[w].id, req[w].div)
  /\ IF req[w].div.status = "insufficient_evidence"
       THEN Finish(w) ELSE Goto(w, "confirm")
  /\ UNCHANGED <<batch, events, cps, fps, deps, chain, snaps>>

TraceConfirm(w) ==
  /\ At(w, "trace", "confirm")
  /\ IF CanTransitionBatch(req[w].b.status, "confirmed")
       THEN UpdateBatch([req[w].b EXCEPT !.status = "confirmed"])
       ELSE UNCHANGED batch
  /\ Finish(w)
  /\ UNCHANGED <<events, cps, fps, deps, divs, chain, snaps>>

-----------------------------------------------------------------------------

CompareNext(w) ==
  \/ ScanBegin(w)
  \/ ScanCheckpoints(w)
  \/ ScanRef(w)
  \/ ScanTest(w)
  \/ ScanUpsertRef(w)
  \/ ScanUpsertTest(w)
  \/ CompareBegin(w)
  \/ CompareCheckpoints(w)
  \/ ComparePair(w)
  \/ CompareExisting(w)
  \/ CompareCreate(w)
  \/ CompareEnd(w)
  \/ \E d \in DivIds : TraceBegin(w, d)
  \/ TraceGet(w)
  \/ TraceRef(w)
  \/ TraceTest(w)
  \/ TraceDeps(w)
  \/ TraceSaveChain(w)
  \/ TraceUpdate(w)
  \/ TraceConfirm(w)

=============================================================================
