------------------------------ MODULE Locator ------------------------------
(***************************************************************************)
(* How a divergence is found and located on two trails that do not change: *)
(* ScanFingerprints replays both trails checkpoint by checkpoint on states *)
(* that it carries along, Compare makes a candidate of every checkpoint    *)
(* whose fingerprints differ, TraceDivergence finds the first instruction  *)
(* that writes differently, and expandChain walks from it upstream along   *)
(* the reads, breadth first.                                               *)
(*                                                                         *)
(* One action per checkpoint of the scan and of the comparison, and per    *)
(* instruction that expandChain takes from its queue.  The tables and the  *)
(* requests that interleave on them are modelled in ReplayService.         *)
(***************************************************************************)
EXTENDS Trails, Sequences, SequencesExt

CONSTANTS
  Programs,     \* pairs of trails that a run looks at
  Checkpoints   \* sets of checkpoints that a run looks at: [seq -> scope]

Kinds == Scopes \cup {"none", "unreliable"}

ASSUME ProgramsAssumption == Programs \subseteq [ref: Trail, test: Trail]
ASSUME CheckpointsAssumption == Checkpoints \subseteq [Seqs -> Kinds]

VARIABLES
  prog,      \* the two trails
  cps,       \* [seq] -> scope of its checkpoint, "unreliable" or "none"
  phase,     \* "scan", "compare", "trace", "expand" or "done"
  left,      \* checkpoints that the loop has still to visit
  state,     \* ScanFingerprints: the states replayed so far, of both sides
  prints,    \* [seq] -> the fingerprints stored for its checkpoint
  cands,     \* checkpoints that Compare made a candidate of
  div,       \* the divergence traced: its checkpoint, verdict, first instruction
  chain,     \* seq of a chain node -> its depth
  queue      \* expandChain: instructions whose reads are still to be followed

vars == <<prog, cps, phase, left, state, prints, cands, div, chain, queue>>
inputs == <<prog, cps>>

Phases == {"scan", "compare", "trace", "expand", "done"}
Verdicts == {"candidate", "insufficient_evidence", "confirmed"}

NoPrint == [ref |-> Unset, test |-> Unset]
NoDiv == [cp |-> 0, status |-> "candidate", first |-> 0]

\* ListByBatch, without those marked unreliable.
Trusted == {s \in Seqs : cps[s] \in Scopes}

Init ==
  /\ prog \in Programs
  /\ cps \in Checkpoints
  /\ phase = "scan"
  /\ left = Trusted
  /\ state = [ref |-> EmptyState, test |-> EmptyState]
  /\ prints = [s \in Seqs |-> NoPrint]
  /\ cands = {}
  /\ div = NoDiv
  /\ chain = <<>>
  /\ queue = <<>>

-----------------------------------------------------------------------------
(* ScanFingerprints and Compare.                                           *)

\* Mutated: the checkpoints in the order in which they were registered.
ScanNextUnordered(cp) == cp \in left

\* ORDER BY seq ASC.
ScanNext(cp) == IsFirst(cp, left)

\* The events up to the checkpoint are replayed from the first one on, onto
\* the states that the checkpoint before has left.
ScanCheckpoint ==
  /\ phase = "scan"
  /\ \E cp \in Seqs :
       /\ ScanNext(cp)
       /\ LET ref  == Replay(state.ref, prog.ref, cp)
              test == Replay(state.test, prog.test, cp)
          IN  /\ state' = [ref |-> ref, test |-> test]
              /\ prints' = [prints EXCEPT ![cp] =
                   [ref  |-> Fingerprint(ref, cps[cp]),
                    test |-> Fingerprint(test, cps[cp])]]
       /\ left' = left \ {cp}
  /\ UNCHANGED <<inputs, phase, cands, div, chain, queue>>

ScanEnd ==
  /\ phase = "scan" /\ left = {}
  /\ phase' = "compare"
  /\ left' = Trusted
  /\ UNCHANGED <<inputs, state, prints, cands, div, chain, queue>>

CompareCheckpoint ==
  /\ phase = "compare"
  /\ \E cp \in Seqs :
       /\ IsFirst(cp, left)
       /\ cands' = IF prints[cp].ref = prints[cp].test THEN cands ELSE cands \cup {cp}
       /\ left' = left \ {cp}
  /\ UNCHANGED <<inputs, phase, state, prints, div, chain, queue>>

CompareEnd ==
  /\ phase = "compare" /\ left = {}
  /\ phase' = "trace"
  /\ UNCHANGED <<inputs, left, state, prints, cands, div, chain, queue>>

-----------------------------------------------------------------------------
(* TraceDivergence and Tracer.Trace.                                       *)

Insufficient(cp) ==
  /\ div' = [cp |-> cp, status |-> "insufficient_evidence", first |-> 0]
  /\ phase' = "done"
  /\ UNCHANGED <<chain, queue>>

\* Mutated: the seqs are visited in map order.
FirstDivergentUnsorted(first, differing) == first \in differing

\* firstDivergentEvent visits the seqs in order.
FirstDivergent(first, differing) == IsFirst(first, differing)

\* The trace replays the trails anew, in full and not in the scope of the
\* checkpoint.
TraceStart ==
  /\ phase = "trace"
  /\ \E cp \in cands :
       LET ref  == Replay(EmptyState, prog.ref, cp)
           test == Replay(EmptyState, prog.test, cp)
           differing == Differing(prog.ref, prog.test, cp)
       IN  IF DiffState(ref, test) = {} \/ differing = {}
             THEN Insufficient(cp)
             ELSE \E first \in Seqs :
                    /\ FirstDivergent(first, differing)
                    /\ div' = [cp |-> cp, status |-> "candidate", first |-> first]
                    /\ chain' = [s \in {first} |-> 0]
                    /\ queue' = <<first>>
                    /\ phase' = "expand"
  /\ UNCHANGED <<inputs, left, state, prints, cands>>

\* The first instruction is taken from the test trail, the others come from
\* the reference trail.
Reads(s) == IF s = div.first THEN prog.test[s].reads ELSE prog.ref[s].reads

\* The last writers of what an instruction reads, itself included.
Upstream(s) == RefWriters(prog.ref, Reads(s), s)

\* Mutated: the instructions seen before are not remembered.
NewUpstreamUnvisited(s) == Upstream(s)

\* Mutated: only what the first instruction reads is followed.
NewUpstreamOfFirst(s) == IF s = div.first THEN Upstream(s) \ DOMAIN chain ELSE {}

NewUpstream(s) == Upstream(s) \ DOMAIN chain

\* Mutated: a stack.
Stacked(rest, order) == order \o rest

Queued(rest, order) == rest \o order

\* One turn of the loop of expandChain.  Which of the new instructions is
\* queued first depends on the names of the resources.
Expand ==
  /\ phase = "expand"
  /\ queue # <<>>
  /\ LET s   == Head(queue)
         new == NewUpstream(s)
     IN  /\ \E order \in SetToSeqs(new) : queue' = Queued(Tail(queue), order)
         /\ chain' = [t \in DOMAIN chain \cup new |->
                        IF t \in DOMAIN chain THEN chain[t] ELSE chain[s] + 1]
  /\ UNCHANGED <<inputs, phase, left, state, prints, cands, div>>

TraceEnd ==
  /\ phase = "expand"
  /\ queue = <<>>
  /\ div' = [div EXCEPT !.status = "confirmed"]
  /\ phase' = "done"
  /\ UNCHANGED <<inputs, left, state, prints, cands, chain, queue>>

\* Nothing mismatched, or a divergence has been traced.
Finished == phase = "done" \/ (phase = "trace" /\ cands = {})

Terminated == Finished /\ UNCHANGED vars

Next ==
  \/ ScanCheckpoint \/ ScanEnd
  \/ CompareCheckpoint \/ CompareEnd
  \/ TraceStart \/ Expand \/ TraceEnd
  \/ Terminated

\* Each loop is run by one goroutine to its end.
Spec == Init /\ [][Next]_vars /\ WF_vars(Next)

-----------------------------------------------------------------------------

FingerprintRow == UNION {[InScope(scope) -> Vals \cup {Unset}] : scope \in Scopes}

TypeOK ==
  /\ prog \in [ref: Trail, test: Trail]
  /\ cps \in [Seqs -> Kinds]
  /\ phase \in Phases
  /\ left \subseteq Trusted
  /\ state \in [ref: State, test: State]
  /\ prints \in [Seqs -> [ref: FingerprintRow, test: FingerprintRow] \cup {NoPrint}]
  /\ cands \subseteq Trusted
  /\ div \in [cp: Seqs \cup {0}, status: Verdicts, first: Seqs \cup {0}]
  /\ DOMAIN chain \subseteq Seqs
  /\ \A s \in DOMAIN chain : chain[s] \in Nat
  /\ queue \in Seq(Seqs)
  /\ \A i \in DOMAIN queue : queue[i] \in DOMAIN chain

RefState(limit) == Replay(EmptyState, prog.ref, limit)
TestState(limit) == Replay(EmptyState, prog.test, limit)

\* The trails come from the same instructions: at each sequence number they
\* write the same resources, with whatever values.
Paired ==
  \A s \in Seqs, r \in Resources :
    prog.ref[s].writes[r] = Unset <=> prog.test[s].writes[r] = Unset

\* ScanFingerprints, Compare: although the states are carried from checkpoint to
\* checkpoint, the candidates are the trusted checkpoints at which the trails,
\* each replayed from its first event, differ in the scope of the checkpoint.
CandidatesAreMismatches ==
  phase \in {"trace", "expand", "done"} =>
    cands = {cp \in Trusted :
               DiffState(RefState(cp), TestState(cp)) \cap InScope(cps[cp]) # {}}

\* Tracer.Trace: on trails of the same instructions every candidate can be
\* located, whatever its scope.
PairedIsLocated == Paired /\ phase = "done" => div.status = "confirmed"

\* README.md, "the earliest instruction that triggers it": on trails of the same
\* instructions the states are equal up to the one named and differ from it on.
FirstMakesStatesDiffer ==
  Paired /\ div.first # 0 =>
    /\ div.first <= div.cp
    /\ DiffState(RefState(div.first - 1), TestState(div.first - 1)) = {}
    /\ DiffState(RefState(div.first), TestState(div.first)) # {}

\* expandChain: every node but the first instruction is the last reference
\* writer of something that an earlier node, one level up, reads, and comes
\* before it in the trail.  So the chain never runs in a circle.
ChainIsUpstream ==
  \A s \in DOMAIN chain :
    \/ s = div.first /\ chain[s] = 0
    \/ \E t \in DOMAIN chain :
         s \in Upstream(t) /\ s < t /\ chain[s] = chain[t] + 1

\* expandChain: the finished chain holds the last writer of everything that its
\* nodes read, and each node at the least depth at which it can be reached.
ChainIsComplete ==
  phase = "done" =>
    \A t \in DOMAIN chain : \A s \in Upstream(t) :
      s \in DOMAIN chain /\ chain[s] <= chain[t] + 1

\* expandChain: the walk comes to an end, also when an instruction reads what
\* it writes or several read from the same writer.
TraceEnds == <>Finished

\* README.md, "the reference trail's last writer" of what the instruction reads:
\* the chain holds for each node the instructions whose results it read.
ChainHoldsSources ==
  phase = "done" =>
    \A t \in DOMAIN chain : RefWriters(prog.ref, Reads(t), t - 1) \subseteq DOMAIN chain

\* expandChain: what an instruction reads and does not write itself has its last
\* writer before it in the chain.  A source is missed where an instruction writes
\* what it reads, and nowhere else.
OtherSourcesHeld ==
  phase = "done" =>
    \A t \in DOMAIN chain : \A r \in Reads(t) :
      prog.ref[t].writes[r] = Unset =>
        \A s \in RefWriters(prog.ref, {r}, t - 1) :
          s \in DOMAIN chain /\ chain[s] <= chain[t] + 1

\* More turns than any one of the loops takes.
Turns == MaxSeq + 2

\* What is still to be done at most.  An instruction that is queued has joined the
\* chain, so it is queued once.
Work ==
  CASE phase = "scan"    -> 3 * Turns + Cardinality(left)
    [] phase = "compare" -> 2 * Turns + Cardinality(left)
    [] phase = "trace"   -> Turns
    [] phase = "expand"  -> 1 + Cardinality(Seqs \ DOMAIN chain) + Len(queue)
    [] phase = "done"    -> 0

\* ScanFingerprints, Compare, expandChain: every turn of a loop brings it closer
\* to its end, and the length of the trail bounds the turns.  So no loop can run
\* for ever, whatever the instructions read and write.
EveryTurnIsProgress == [][Work' \in Nat /\ Work' < Work]_vars

=============================================================================
