------------------------------- MODULE Trails -------------------------------
(***************************************************************************)
(* Instruction trails over several architectural resources, and what the   *)
(* service computes from them: the state replayed at a checkpoint, the     *)
(* part of it that a fingerprint covers, the instructions that write       *)
(* differently, and who wrote last what an instruction reads               *)
(* (compare/hash.go, compare/compare.go, backtrace/tracer.go).             *)
(*                                                                         *)
(* Every write has its value here: replay stops at one that has none, as   *)
(* ReplayStore shows.  A resource that was never written is Unset; a value *)
(* is never the empty string.                                              *)
(***************************************************************************)
EXTENDS Naturals

CONSTANTS
  MaxSeq,     \* bound: the highest sequence number of a trail
  Registers,  \* the resources of kind reg
  Memory,     \* the resources of kind mem
  Vals,       \* values an instruction may write
  Unset       \* the state of a resource that was never written

ASSUME MaxSeqAssumption == MaxSeq \in Nat
ASSUME UnsetAssumption == Unset \notin Vals

Seqs == 1..MaxSeq

Resources == Registers \cup Memory

\* An event: the resources it reads, and the value it gives those it writes.
Event == [reads: SUBSET Resources, writes: [Resources -> Vals \cup {Unset}]]

\* No event at a sequence number: one that neither reads nor writes.
NoEvent == [reads |-> {}, writes |-> [r \in Resources |-> Unset]]

Trail == [Seqs -> Event]

State == [Resources -> Vals \cup {Unset}]

EmptyState == [r \in Resources |-> Unset]

-----------------------------------------------------------------------------

IsLast(s, S) == s \in S /\ \A t \in S : t <= s
IsFirst(s, S) == s \in S /\ \A t \in S : s <= t

\* The events up to the limit that write a resource.
Writers(trail, r, limit) ==
  {s \in Seqs : s <= limit /\ trail[s].writes[r] # Unset}

\* Replayer.Replay: the events up to the limit applied to a state, in order;
\* of several writes of a resource the last one stays.
Replay(state, trail, limit) ==
  [r \in Resources |->
     LET writers == Writers(trail, r, limit)
     IN  IF writers = {} THEN state[r]
         ELSE trail[CHOOSE s \in Seqs : IsLast(s, writers)].writes[r]]

Scopes == {"register", "memory", "full"}

InScope(scope) ==
  CASE scope = "register" -> Registers
    [] scope = "memory"   -> Memory
    [] scope = "full"     -> Resources

\* SelectScope and HashState: the resources in scope that have been written,
\* with their values.  Unset stands for a key that is not in the map.
Fingerprint(state, scope) == [r \in InScope(scope) |-> state[r]]

\* DiffState: the resources whose values differ.
DiffState(s, t) == {r \in Resources : s[r] # t[r]}

\* writesDiffer: both events write some resource, with different values.
WritesDiffer(e, f) ==
  \E r \in Resources : Unset \notin {e.writes[r], f.writes[r]} /\ e.writes[r] # f.writes[r]

\* Mutated: the event at the limit is left out.
DifferingBefore(ref, test, limit) ==
  {s \in Seqs : s < limit /\ WritesDiffer(ref[s], test[s])}

\* The events up to the limit that firstDivergentEvent stops at.
Differing(ref, test, limit) ==
  {s \in Seqs : s <= limit /\ WritesDiffer(ref[s], test[s])}

\* Mutated: the last writer of the whole trail.
LastRefWriters(ref, reads, limit) ==
  {s \in Seqs : \E r \in reads : IsLast(s, Writers(ref, r, MaxSeq))}

\* latestRefWriter, for each of the resources read.
RefWriters(ref, reads, limit) ==
  {s \in Seqs : \E r \in reads : IsLast(s, Writers(ref, r, limit))}

=============================================================================
