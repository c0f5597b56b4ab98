-------------------------- MODULE MCReplayService --------------------------
(* Small instances of ReplayService: the import requests of each run, and   *)
(* the operations its clients send or let overlap.                          *)
EXTENDS ReplayService, TLC

CONSTANTS a, b

\* One input at every seq, or inputs at one seq.
Fragment(side, val) == [side |-> side, inputs |-> [s \in Seqs |-> {val}]]
Inputs(side, s, vals) ==
  [side |-> side, inputs |-> [t \in Seqs |-> IF t = s THEN vals ELSE {}]]
Single(side, s, val) == Inputs(side, s, {val})

\* One instruction per side, written differently, without its value, or twice
\* in one request, once malformed.
OneSeqFragments ==
  {Single("reference", 1, a), Single("under_test", 1, b),
   Inputs("under_test", 1, {"novalue", "malformed"})}

\* Two instructions per side.  The test trail may differ at the first, at the
\* second or at both, or not at all, and arrives in two pieces, in any order.
TwoSeqFragments ==
  {Fragment("reference", a), Single("reference", 2, a), Single("under_test", 1, a),
   Single("under_test", 1, b), Fragment("under_test", b)}

\* One instruction per side, written differently.
DifferingFragments == {Single("reference", 1, a), Single("under_test", 1, b)}

Symmetry == Permutations(Workers)

AllOps == Ops

\* All but the operations that must run alone for the refinement.
FreeOps == Ops \ {"sync", "compare", "trace", "seal", "draft", "publish"}

\* What leads from an empty batch to a located divergence, and all of it but
\* the operations that must run alone for the properties of that run.
LocateOps == {"import", "checkpoint", "sync", "scan", "compare", "trace"}
FreeLocateOps == LocateOps \ {"sync", "scan", "compare"}

\* Confirming, tracing, sealing and publishing, and what must come before.
CloseOps == {"trace", "confirm", "seal", "draft", "publish"}
CloseSent == CloseOps \cup {"import", "checkpoint", "sync", "scan", "compare"}

\* Everything that reads or writes the trails and the divergences.
EvidenceOps == {"import", "checkpoint", "sync", "scan", "compare", "trace"}

=============================================================================
