--------------------------- MODULE LocatorProofs ---------------------------
(***************************************************************************)
(* Proofs about Locator, for every pair of trails, every set of            *)
(* checkpoints, and any number of resources: what the scan carries from    *)
(* checkpoint to checkpoint is the state replayed from the first event,    *)
(* the instruction named is the one that makes the states differ, and the  *)
(* chain is what a breadth-first walk upstream from it should find.        *)
(***************************************************************************)
EXTENDS Locator, FiniteSetTheorems, SequenceTheorems, WellFoundedInduction, TLAPS

-----------------------------------------------------------------------------
(* Trails and states.                                                      *)

\* Some event is the last of those in a set.

LEMMA LastExists ==
  ASSUME NEW W, W \subseteq Seqs, W # {}
  PROVE  \E s \in Seqs : IsLast(s, W)
<1> DEFINE R == {ss \in Nat \X Nat : ss[1] < ss[2]}
           T == {n \in Nat : MaxSeq - n \in W}
<1>1. IsWellFoundedOn(R, Nat)
  BY NatLessThanWellFounded DEF OpToRel
<1>2. T \subseteq Nat /\ T # {}
  <2>1. PICK w \in W : TRUE OBVIOUS
  <2>2. MaxSeq - w \in Nat /\ MaxSeq - (MaxSeq - w) = w
    BY MaxSeqAssumption DEF Seqs
  <2> QED BY <2>2
<1>3. PICK n \in T : \A m \in T : ~ (<<m, n>> \in R)
  <2> HIDE DEF T, R
  <2> QED BY <1>1, <1>2, WFMin
<1>4. ASSUME NEW t \in W PROVE t <= MaxSeq - n
  <2>1. MaxSeq - t \in T BY MaxSeqAssumption DEF Seqs
  <2>2. ~ (MaxSeq - t < n) BY <2>1, <1>3
  <2> QED BY <2>2, MaxSeqAssumption DEF Seqs
<1> QED BY <1>3, <1>4 DEF IsLast

LEMMA LastUnique ==
  ASSUME NEW W \in SUBSET Seqs, NEW s \in Seqs, IsLast(s, W)
  PROVE  (CHOOSE t \in Seqs : IsLast(t, W)) = s
<1>1. \A t \in Seqs : IsLast(t, W) => t = s
  BY MaxSeqAssumption DEF IsLast, Seqs
<1> QED
  BY <1>1

\* What Replay makes of a resource: the value of its last writer.
LEMMA ReplayedValue ==
  ASSUME NEW st, NEW trail, NEW limit \in Nat, NEW r \in Resources,
         Writers(trail, r, limit) # {}
  PROVE  \E s \in Seqs :
           /\ IsLast(s, Writers(trail, r, limit))
           /\ Replay(st, trail, limit)[r] = trail[s].writes[r]
<1> DEFINE W == Writers(trail, r, limit)
<1>1. W \subseteq Seqs /\ W # {}
  BY DEF Writers
<1>2. PICK s \in Seqs : IsLast(s, W)
  <2> HIDE DEF W
  <2> QED
    BY <1>1, LastExists
<1>3. (CHOOSE t \in Seqs : IsLast(t, W)) = s
  <2> HIDE DEF W
  <2> QED
    BY <1>1, <1>2, LastUnique
<1> QED
  BY <1>2, <1>3 DEF Replay

\* Replaying up to a checkpoint on top of the state of an earlier one is
\* replaying from the first event.
LEMMA ReplayOfReplay ==
  ASSUME NEW trail, NEW n \in Nat, NEW m \in Nat, n <= m
  PROVE  Replay(Replay(EmptyState, trail, n), trail, m) = Replay(EmptyState, trail, m)
<1>1. ASSUME NEW r \in Resources, Writers(trail, r, m) = {}
      PROVE  Replay(EmptyState, trail, n)[r] = EmptyState[r]
  <2>1. Writers(trail, r, n) = {}
    BY <1>1, MaxSeqAssumption DEF Writers, Seqs
  <2> QED
    BY <2>1 DEF Replay
<1>2. ASSUME NEW r \in Resources
      PROVE  Replay(Replay(EmptyState, trail, n), trail, m)[r]
               = Replay(EmptyState, trail, m)[r]
  BY <1>1, <1>2 DEF Replay
<1> QED
  BY <1>2 DEF Replay

LEMMA ReplayTyped ==
  ASSUME NEW st \in State, NEW trail \in Trail, NEW limit \in Nat
  PROVE  Replay(st, trail, limit) \in State
<1>1. ASSUME NEW r \in Resources
      PROVE  Replay(st, trail, limit)[r] \in Vals \cup {Unset}
  <2>1. CASE Writers(trail, r, limit) = {}
    BY <1>1, <2>1 DEF Replay, State
  <2>2. CASE Writers(trail, r, limit) # {}
    <3>1. PICK s \in Seqs : Replay(st, trail, limit)[r] = trail[s].writes[r]
      BY <1>1, <2>2, ReplayedValue
    <3> QED
      BY <1>1, <3>1 DEF Trail, Event
  <2> QED
    BY <2>1, <2>2
<1> QED
  BY <1>1 DEF Replay, State

\* Two fingerprints are equal when the states agree on the scope.
LEMMA FingerprintsDiffer ==
  ASSUME NEW s, NEW t, NEW scope \in Scopes
  PROVE  Fingerprint(s, scope) # Fingerprint(t, scope)
           <=> DiffState(s, t) \cap InScope(scope) # {}
<1>1. InScope(scope) \subseteq Resources
  BY DEF InScope, Scopes, Resources
<1> QED
  BY <1>1 DEF Fingerprint, DiffState

LEMMA EmptyStateTyped == EmptyState \in State
BY DEF EmptyState, State

-----------------------------------------------------------------------------
(* Trails of the same instructions.                                        *)

\* Where the same instructions write differing values, nothing but a differing
\* instruction can have done it.
LEMMA SameWritersSameState ==
  ASSUME NEW ref, NEW test, NEW limit \in Nat,
         \A s \in Seqs, r \in Resources :
           ref[s].writes[r] = Unset <=> test[s].writes[r] = Unset,
         Differing(ref, test, limit) = {}
  PROVE  DiffState(Replay(EmptyState, ref, limit), Replay(EmptyState, test, limit)) = {}
<1>1. ASSUME NEW r \in Resources
      PROVE  Replay(EmptyState, ref, limit)[r] = Replay(EmptyState, test, limit)[r]
  <2>1. Writers(ref, r, limit) = Writers(test, r, limit)
    BY <1>1 DEF Writers
  <2>2. CASE Writers(ref, r, limit) = {}
    BY <1>1, <2>1, <2>2 DEF Replay
  <2>3. CASE Writers(ref, r, limit) # {}
    <3>1. PICK s \in Seqs :
            /\ IsLast(s, Writers(ref, r, limit))
            /\ Replay(EmptyState, ref, limit)[r] = ref[s].writes[r]
      BY <1>1, <2>3, ReplayedValue
    <3>2. PICK t \in Seqs :
            /\ IsLast(t, Writers(test, r, limit))
            /\ Replay(EmptyState, test, limit)[r] = test[t].writes[r]
      BY <1>1, <2>1, <2>3, ReplayedValue
    <3>3. s = t
      BY <2>1, <3>1, <3>2, MaxSeqAssumption DEF IsLast, Seqs
    <3>4. ref[s].writes[r] = test[s].writes[r]
      BY <1>1, <3>1 DEF IsLast, Writers, Differing, WritesDiffer
    <3> QED
      BY <3>1, <3>2, <3>3, <3>4
  <2> QED
    BY <2>2, <2>3
<1> QED
  BY <1>1 DEF DiffState

\* The differing instruction is the last writer of what it writes, at its own
\* sequence number.
LEMMA DifferingShows ==
  ASSUME NEW ref, NEW test, NEW s \in Seqs, WritesDiffer(ref[s], test[s])
  PROVE  DiffState(Replay(EmptyState, ref, s), Replay(EmptyState, test, s)) # {}
<1>1. PICK r \in Resources : /\ Unset \notin {ref[s].writes[r], test[s].writes[r]}
                             /\ ref[s].writes[r] # test[s].writes[r]
  BY DEF WritesDiffer
<1>2. s \in Nat
  BY MaxSeqAssumption DEF Seqs
<1>3. ASSUME NEW trail, trail[s].writes[r] # Unset
      PROVE  Replay(EmptyState, trail, s)[r] = trail[s].writes[r]
  <2>1. IsLast(s, Writers(trail, r, s))
    BY <1>2, <1>3 DEF IsLast, Writers
  <2>2. PICK t \in Seqs : /\ IsLast(t, Writers(trail, r, s))
                          /\ Replay(EmptyState, trail, s)[r] = trail[t].writes[r]
    BY <1>1, <1>2, <2>1, ReplayedValue DEF IsLast
  <2>3. s = t
    BY <2>1, <2>2, MaxSeqAssumption DEF IsLast, Seqs
  <2> QED
    BY <2>2, <2>3
<1> QED
  BY <1>1, <1>3 DEF DiffState

-----------------------------------------------------------------------------
(* Types.                                                                  *)

\* SetToSeqs gives the orders of a set, each element once.
LEMMA OrderProperties ==
  ASSUME NEW S \in SUBSET Seqs, NEW order \in SetToSeqs(S)
  PROVE  /\ order \in Seq(Seqs) /\ Len(order) = Cardinality(S)
         /\ \A i \in 1..Len(order) : order[i] \in S
         /\ \A s \in S : \E i \in 1..Len(order) : order[i] = s
<1> DEFINE D == 1..Cardinality(S)
<1>1. IsFiniteSet(S)
  <2>1. IsFiniteSet(Seqs)
    BY FS_Interval, MaxSeqAssumption DEF Seqs
  <2> QED
    BY <2>1, FS_Subset
<1>2. Cardinality(S) \in Nat
  BY <1>1, FS_CardinalityType
<1>3. order \in Injection(D, S)
  BY DEF SetToSeqs, Injection, IsInjective
<1>4. IsFiniteSet(D) /\ Cardinality(D) = Cardinality(S)
  BY <1>2, FS_Interval
<1>5. order \in Surjection(D, S)
  <2> HIDE DEF D
  <2> QED
    BY <1>1, <1>3, <1>4, FS_Injection
<1>6. order \in [D -> S]
  BY <1>3 DEF Injection
<1>7. Len(order) = Cardinality(S) /\ order \in Seq(Seqs)
  BY <1>2, <1>6
<1> QED
  BY <1>5, <1>6, <1>7 DEF Surjection

\* The reads and the upstream writers of an instruction are what they are of the
\* trails and of the instruction first named; writers are instructions.
LEMMA UpstreamAreSeqs ==
  ASSUME NEW s
  PROVE  Upstream(s) \subseteq Seqs
BY DEF Upstream, RefWriters

LEMMA InitTyped == Init => TypeOK
<1> SUFFICES ASSUME Init PROVE TypeOK
  OBVIOUS
<1>1. prog \in [ref: Trail, test: Trail] /\ cps \in [Seqs -> Kinds]
  BY ProgramsAssumption, CheckpointsAssumption DEF Init
<1>2. state \in [ref: State, test: State]
  BY EmptyStateTyped DEF Init
<1>3. queue \in Seq(Seqs) /\ DOMAIN queue = {} /\ DOMAIN chain = {}
  BY EmptySeq DEF Init
<1> QED
  BY <1>1, <1>2, <1>3 DEF Init, TypeOK, Phases, NoDiv, Verdicts, Trusted

LEMMA ScanTyped ==
  ASSUME TypeOK, ScanCheckpoint
  PROVE  TypeOK'
<1>1. PICK cp \in left :
        LET ref  == Replay(state.ref, prog.ref, cp)
            test == Replay(state.test, prog.test, cp)
        IN  /\ state' = [ref |-> ref, test |-> test]
            /\ prints' = [prints EXCEPT ![cp] =
                 [ref  |-> Fingerprint(ref, cps[cp]),
                  test |-> Fingerprint(test, cps[cp])]]
            /\ left' = left \ {cp}
  BY DEF ScanCheckpoint, ScanNext, IsFirst
<1> DEFINE ref  == Replay(state.ref, prog.ref, cp)
           test == Replay(state.test, prog.test, cp)
<1>2. cp \in Seqs /\ cp \in Nat /\ cps[cp] \in Scopes
  BY <1>1, MaxSeqAssumption DEF TypeOK, Trusted, Seqs
<1>3. ref \in State /\ test \in State
  BY <1>2, ReplayTyped DEF TypeOK
<1>4. Fingerprint(ref, cps[cp]) \in FingerprintRow /\ Fingerprint(test, cps[cp]) \in FingerprintRow
  <2>1. \A t \in State : Fingerprint(t, cps[cp]) \in [InScope(cps[cp]) -> Vals \cup {Unset}]
    BY <1>2 DEF Fingerprint, InScope, Scopes, State, Resources
  <2> HIDE DEF ref, test
  <2> QED
    BY <1>2, <1>3, <2>1 DEF FingerprintRow
<1>5. state' \in [ref: State, test: State]
  BY <1>1, <1>3
<1>6. prints' \in [Seqs -> [ref: FingerprintRow, test: FingerprintRow] \cup {NoPrint}]
  BY <1>1, <1>2, <1>4 DEF TypeOK
<1>7. left' \subseteq Trusted /\ Trusted' = Trusted
  BY <1>1 DEF ScanCheckpoint, TypeOK, Trusted, inputs
<1> QED
  BY <1>5, <1>6, <1>7 DEF ScanCheckpoint, TypeOK, inputs

LEMMA ExpandTyped ==
  ASSUME TypeOK, Expand
  PROVE  TypeOK'
<1> DEFINE s == Head(queue)
           new == NewUpstream(s)
<1>1. s \in Seqs /\ s \in DOMAIN chain /\ Tail(queue) \in Seq(Seqs)
      /\ \A i \in 1..Len(Tail(queue)) : Tail(queue)[i] \in DOMAIN chain
  BY HeadTailProperties DEF TypeOK, Expand
<1>2. new \subseteq Seqs
  BY UpstreamAreSeqs DEF NewUpstream
<1>3. PICK order \in SetToSeqs(new) : queue' = Tail(queue) \o order
  BY DEF Expand, Queued
<1>4. order \in Seq(Seqs) /\ \A i \in 1..Len(order) : order[i] \in new
  <2> HIDE DEF new
  <2> QED
    BY <1>2, <1>3, OrderProperties
<1>5. chain' = [t \in DOMAIN chain \cup new |->
                  IF t \in DOMAIN chain THEN chain[t] ELSE chain[s] + 1]
  BY DEF Expand
<1> HIDE DEF s, new
<1>6. DOMAIN chain' = DOMAIN chain \cup new /\ \A t \in DOMAIN chain' : chain'[t] \in Nat
  BY <1>1, <1>5 DEF TypeOK
<1>7. queue' \in Seq(Seqs) /\ \A i \in DOMAIN queue' : queue'[i] \in DOMAIN chain'
  <2>1. /\ queue' \in Seq(Seqs)
        /\ Len(queue') = Len(Tail(queue)) + Len(order)
        /\ \A i \in 1..(Len(Tail(queue)) + Len(order)) :
             queue'[i] = IF i <= Len(Tail(queue)) THEN Tail(queue)[i]
                         ELSE order[i - Len(Tail(queue))]
    BY <1>1, <1>3, <1>4, ConcatProperties
  <2>2. ASSUME NEW i \in 1..Len(queue') PROVE queue'[i] \in DOMAIN chain \cup new
    <3>1. CASE i <= Len(Tail(queue))
      BY <1>1, <2>1, <2>2, <3>1
    <3>2. CASE ~ (i <= Len(Tail(queue)))
      <4>1. i - Len(Tail(queue)) \in 1..Len(order)
        BY <1>1, <1>4, <2>1, <2>2, <3>2
      <4> QED
        BY <1>4, <2>1, <2>2, <3>2, <4>1
    <3> QED
      BY <3>1, <3>2
  <2> QED
    BY <1>6, <2>1, <2>2
<1>8. Trusted' = Trusted
  BY DEF Expand, inputs, Trusted
<1> QED
  BY <1>2, <1>6, <1>7, <1>8 DEF Expand, TypeOK, inputs

LEMMA TypeStep == TypeOK /\ [Next]_vars => TypeOK'
<1> SUFFICES ASSUME TypeOK, [Next]_vars PROVE TypeOK'
  OBVIOUS
<1>1. CASE ScanCheckpoint
  BY <1>1, ScanTyped
<1>2. CASE ScanEnd
  BY <1>2 DEF ScanEnd, TypeOK, inputs, Phases, Trusted
<1>3. CASE CompareCheckpoint
  BY <1>3 DEF CompareCheckpoint, TypeOK, inputs, Trusted, IsFirst
<1>4. CASE CompareEnd
  BY <1>4 DEF CompareEnd, TypeOK, inputs, Phases, Trusted
<1>5. CASE TraceStart
  <2>1. Trusted' = Trusted
    BY <1>5 DEF TraceStart, inputs, Trusted
  <2>2. PICK cp \in cands :
          \/ Insufficient(cp)
          \/ \E first \in Seqs :
               /\ div' = [cp |-> cp, status |-> "candidate", first |-> first]
               /\ chain' = [s \in {first} |-> 0]
               /\ queue' = <<first>>
               /\ phase' = "expand"
    BY <1>5 DEF TraceStart
  <2>3. CASE Insufficient(cp)
    BY <1>5, <2>1, <2>3 DEF TraceStart, Insufficient, TypeOK, inputs, Phases, Verdicts, Trusted
  <2>4. CASE ~ Insufficient(cp)
    <3>1. PICK first \in Seqs :
            /\ div' = [cp |-> cp, status |-> "candidate", first |-> first]
            /\ chain' = [s \in {first} |-> 0]
            /\ queue' = <<first>>
            /\ phase' = "expand"
      BY <2>2, <2>4
    <3>2. div' \in [cp: Seqs \cup {0}, status: Verdicts, first: Seqs \cup {0}]
      BY <3>1, <2>2 DEF TypeOK, Verdicts, Trusted
    <3>3. queue' \in Seq(Seqs) /\ \A i \in DOMAIN queue' : queue'[i] = first
      BY <3>1
    <3>4. DOMAIN chain' = {first} /\ chain'[first] = 0
      BY <3>1
    <3> QED
      BY <1>5, <2>1, <3>1, <3>2, <3>3, <3>4 DEF TraceStart, TypeOK, inputs, Phases
  <2> QED
    BY <2>3, <2>4
<1>6. CASE Expand
  BY <1>6, ExpandTyped
<1>7. CASE TraceEnd
  BY <1>7 DEF TraceEnd, TypeOK, inputs, Phases, Verdicts, Trusted
<1>8. CASE Terminated \/ UNCHANGED vars
  BY <1>8 DEF Terminated, vars, TypeOK, Trusted
<1> QED
  BY <1>1, <1>2, <1>3, <1>4, <1>5, <1>6, <1>7, <1>8 DEF Next

-----------------------------------------------------------------------------
(* The scan and the comparison.                                            *)

Mismatch(cp) == DiffState(RefState(cp), TestState(cp)) \cap InScope(cps[cp]) # {}

\* The fingerprints of a checkpoint are those of the states replayed anew.
Fresh(cp) ==
  prints[cp] = [ref  |-> Fingerprint(RefState(cp), cps[cp]),
                test |-> Fingerprint(TestState(cp), cps[cp])]

\* The states carried along are those of a point that no checkpoint still to
\* be visited lies before.
Carried(n) ==
  /\ state.ref = RefState(n) /\ state.test = TestState(n)
  /\ \A s \in left : n <= s

ScanInv ==
  /\ phase = "scan" =>
       /\ \E n \in Nat : Carried(n)
       /\ \A cp \in Trusted \ left : Fresh(cp)
       /\ cands = {}
  /\ phase = "compare" =>
       /\ \A cp \in Trusted : Fresh(cp)
       /\ cands = {cp \in Trusted \ left : Mismatch(cp)}
  /\ CandidatesAreMismatches

LEMMA InitScan == Init => ScanInv
<1> SUFFICES ASSUME Init PROVE ScanInv
  OBVIOUS
<1>1. \A trail : Replay(EmptyState, trail, 0) = EmptyState
  <2>1. \A trail, r : Writers(trail, r, 0) = {}
    BY MaxSeqAssumption DEF Writers, Seqs
  <2> QED
    BY <2>1 DEF Replay, EmptyState
<1>2. Carried(0)
  BY <1>1, MaxSeqAssumption DEF Init, Carried, RefState, TestState, Trusted, Seqs
<1> QED
  BY <1>2 DEF Init, ScanInv, CandidatesAreMismatches

LEMMA ScanCheckpointScan ==
  ASSUME TypeOK, ScanInv, ScanCheckpoint
  PROVE  ScanInv'
<1>1. PICK cp \in left :
        LET ref  == Replay(state.ref, prog.ref, cp)
            test == Replay(state.test, prog.test, cp)
        IN  /\ IsFirst(cp, left)
            /\ state' = [ref |-> ref, test |-> test]
            /\ prints' = [prints EXCEPT ![cp] =
                 [ref  |-> Fingerprint(ref, cps[cp]),
                  test |-> Fingerprint(test, cps[cp])]]
            /\ left' = left \ {cp}
  BY DEF ScanCheckpoint, ScanNext, IsFirst
<1>2. cp \in Seqs /\ cp \in Nat /\ \A s \in left : s \in Nat
  BY <1>1, MaxSeqAssumption DEF TypeOK, Trusted, Seqs
<1>3. PICK n \in Nat : Carried(n)
  BY DEF ScanInv, ScanCheckpoint
<1>4. n <= cp
  BY <1>1, <1>3 DEF Carried
<1>5. /\ Replay(state.ref, prog.ref, cp) = RefState(cp)
      /\ Replay(state.test, prog.test, cp) = TestState(cp)
  BY <1>2, <1>3, <1>4, ReplayOfReplay DEF Carried, RefState, TestState
<1>6. UNCHANGED <<prog, cps, phase, cands>> /\ phase = "scan"
  BY DEF ScanCheckpoint, inputs
<1>7. Trusted' = Trusted /\ \A c : RefState(c)' = RefState(c) /\ TestState(c)' = TestState(c)
  BY <1>6 DEF Trusted, RefState, TestState
<1>8. Carried(cp)'
  BY <1>1, <1>2, <1>5, <1>7 DEF Carried, IsFirst
<1>9. ASSUME NEW c \in Trusted \ left' PROVE Fresh(c)'
  <2>1. CASE c = cp
    BY <1>1, <1>2, <1>5, <1>6, <1>7, <2>1 DEF Fresh, TypeOK
  <2>2. CASE c # cp
    <3>1. Fresh(c)
      BY <1>1, <1>6, <1>9, <2>2 DEF ScanInv
    <3>2. prints'[c] = prints[c]
      BY <1>1, <1>2, <2>2 DEF TypeOK, Trusted
    <3> QED
      BY <1>6, <1>7, <3>1, <3>2 DEF Fresh
  <2> QED
    BY <2>1, <2>2
<1> QED
  BY <1>2, <1>6, <1>7, <1>8, <1>9 DEF ScanInv, CandidatesAreMismatches

LEMMA CompareCheckpointScan ==
  ASSUME TypeOK, ScanInv, CompareCheckpoint
  PROVE  ScanInv'
<1>1. PICK cp \in left :
        /\ cands' = IF prints[cp].ref = prints[cp].test THEN cands ELSE cands \cup {cp}
        /\ left' = left \ {cp}
  BY DEF CompareCheckpoint, IsFirst
<1>2. UNCHANGED <<prog, cps, phase, prints>> /\ phase = "compare"
  BY DEF CompareCheckpoint, inputs
<1>3. /\ Trusted' = Trusted
      /\ \A c : (Mismatch(c)' <=> Mismatch(c)) /\ (Fresh(c)' <=> Fresh(c))
  BY <1>2 DEF Trusted, Mismatch, Fresh, RefState, TestState
<1>4. cp \in Trusted /\ cps[cp] \in Scopes
  BY <1>1 DEF TypeOK, Trusted
<1>5. prints[cp].ref # prints[cp].test <=> Mismatch(cp)
  <2>1. Fresh(cp)
    BY <1>2, <1>4 DEF ScanInv
  <2> QED
    BY <1>4, <2>1, FingerprintsDiffer DEF Fresh, Mismatch
<1>6. cands' = {c \in Trusted \ left' : Mismatch(c)}
  <2>1. cands = {c \in Trusted \ left : Mismatch(c)}
    BY <1>2 DEF ScanInv
  <2>2. Trusted \ left' = (Trusted \ left) \cup {cp}
    BY <1>1, <1>4
  <2> HIDE DEF Mismatch
  <2> QED
    BY <1>1, <1>5, <2>1, <2>2
<1> QED
  BY <1>2, <1>3, <1>6 DEF ScanInv, CandidatesAreMismatches

LEMMA ScanStep == TypeOK /\ ScanInv /\ [Next]_vars => ScanInv'
<1> SUFFICES ASSUME TypeOK, ScanInv, [Next]_vars PROVE ScanInv'
  OBVIOUS
<1>1. CASE ScanCheckpoint
  BY <1>1, ScanCheckpointScan
<1>2. CASE ScanEnd
  <2>1. UNCHANGED <<prog, cps, prints, cands>> /\ phase = "scan" /\ phase' = "compare"
        /\ left = {} /\ left' = Trusted /\ Trusted' = Trusted
    BY <1>2 DEF ScanEnd, inputs, Trusted
  <2>2. \A c : Fresh(c)' <=> Fresh(c)
    BY <2>1 DEF Fresh, RefState, TestState
  <2> QED
    BY <2>1, <2>2 DEF ScanInv, CandidatesAreMismatches
<1>3. CASE CompareCheckpoint
  BY <1>3, CompareCheckpointScan
<1>4. CASE CompareEnd
  <2>1. UNCHANGED <<prog, cps, cands>> /\ phase = "compare" /\ phase' = "trace"
        /\ left = {} /\ Trusted' = Trusted
    BY <1>4 DEF CompareEnd, inputs, Trusted
  <2>2. cands = {c \in Trusted : Mismatch(c)}
    BY <2>1 DEF ScanInv
  <2> QED
    BY <2>1, <2>2 DEF ScanInv, CandidatesAreMismatches, Mismatch, RefState, TestState
<1>5. CASE TraceStart \/ Expand \/ TraceEnd
  <2>1. UNCHANGED <<prog, cps, cands>>
    BY <1>5 DEF TraceStart, Expand, TraceEnd, inputs
  <2>2. phase \in {"trace", "expand"}
    BY <1>5 DEF TraceStart, Expand, TraceEnd
  <2>3. phase' \in {"trace", "expand", "done"}
    BY <1>5, <2>2 DEF TraceStart, Expand, TraceEnd, Insufficient
  <2> QED
    BY <2>1, <2>2, <2>3 DEF ScanInv, CandidatesAreMismatches, RefState, TestState, Trusted
<1>6. CASE Terminated \/ UNCHANGED vars
  <2>1. UNCHANGED vars
    BY <1>6 DEF Terminated
  <2> QED
    BY <2>1 DEF vars, ScanInv, CandidatesAreMismatches, Carried, Fresh, Mismatch, Trusted,
                RefState, TestState
<1> QED
  BY <1>1, <1>2, <1>3, <1>4, <1>5, <1>6 DEF Next

-----------------------------------------------------------------------------
(* The divergence traced.                                                  *)

\* Until the trace begins there is no divergence, chain or queue; from then on
\* the divergence names the first differing instruction, or says that there is
\* none, or that the states do not differ.
DivInv ==
  /\ phase \in {"scan", "compare", "trace"} =>
       div = NoDiv /\ DOMAIN chain = {} /\ queue = <<>>
  /\ phase = "expand" => div.first # 0
  /\ phase = "done" => queue = <<>>
  /\ div.first # 0 =>
       /\ div.cp \in Seqs
       /\ IsFirst(div.first, Differing(prog.ref, prog.test, div.cp))
  /\ phase = "done" =>
       \/ div.status = "confirmed"
       \/ /\ div.cp \in cands
          /\ \/ DiffState(RefState(div.cp), TestState(div.cp)) = {}
             \/ Differing(prog.ref, prog.test, div.cp) = {}

LEMMA InitDiv == Init => DivInv
BY DEF Init, DivInv, NoDiv

LEMMA DivStep == TypeOK /\ DivInv /\ [Next]_vars => DivInv'
<1> SUFFICES ASSUME TypeOK, DivInv, [Next]_vars PROVE DivInv'
  OBVIOUS
<1>1. CASE ScanCheckpoint \/ ScanEnd \/ CompareCheckpoint \/ CompareEnd
  <2>1. UNCHANGED <<prog, div, chain, queue>> /\ phase \in {"scan", "compare"}
        /\ phase' \in {"scan", "compare", "trace"}
    BY <1>1 DEF ScanCheckpoint, ScanEnd, CompareCheckpoint, CompareEnd, inputs
  <2> QED
    BY <2>1 DEF DivInv
<1>2. CASE TraceStart
  <2>1. UNCHANGED <<prog, cands>>
    BY <1>2 DEF TraceStart, inputs
  <2>2. PICK cp \in cands :
          IF \/ DiffState(RefState(cp), TestState(cp)) = {}
             \/ Differing(prog.ref, prog.test, cp) = {}
            THEN Insufficient(cp)
            ELSE \E first \in Seqs :
                   /\ IsFirst(first, Differing(prog.ref, prog.test, cp))
                   /\ div' = [cp |-> cp, status |-> "candidate", first |-> first]
                   /\ queue' = <<first>>
                   /\ phase' = "expand"
    BY <1>2 DEF TraceStart, RefState, TestState, FirstDivergent
  <2>3. cp \in Seqs
    BY DEF TypeOK, Trusted
  <2>4. CASE /\ Insufficient(cp)
             /\ \/ DiffState(RefState(cp), TestState(cp)) = {}
                \/ Differing(prog.ref, prog.test, cp) = {}
    <3>1. queue' = <<>> /\ div' = [cp |-> cp, status |-> "insufficient_evidence", first |-> 0]
          /\ phase' = "done"
      BY <1>2, <2>4 DEF Insufficient, DivInv, TraceStart
    <3> QED
      BY <2>1, <2>4, <3>1 DEF DivInv, RefState, TestState
  <2>5. CASE ~ \/ DiffState(RefState(cp), TestState(cp)) = {}
               \/ Differing(prog.ref, prog.test, cp) = {}
    <3>1. PICK first \in Seqs :
            /\ IsFirst(first, Differing(prog.ref, prog.test, cp))
            /\ div' = [cp |-> cp, status |-> "candidate", first |-> first]
            /\ phase' = "expand"
      BY <2>2, <2>5
    <3>2. first # 0
      BY MaxSeqAssumption DEF Seqs
    <3> QED
      BY <2>1, <2>3, <3>1, <3>2 DEF DivInv
  <2> QED
    BY <2>2, <2>4, <2>5
<1>3. CASE Expand
  BY <1>3 DEF Expand, DivInv, inputs
<1>4. CASE TraceEnd
  BY <1>4 DEF TraceEnd, DivInv, TypeOK, inputs
<1>5. CASE Terminated \/ UNCHANGED vars
  BY <1>5 DEF Terminated, vars, DivInv, RefState, TestState
<1> QED
  BY <1>1, <1>2, <1>3, <1>4, <1>5 DEF Next

LEMMA DivLocated ==
  ASSUME TypeOK, ScanInv, DivInv
  PROVE  PairedIsLocated
<1> SUFFICES ASSUME Paired, phase = "done", div.status # "confirmed"
             PROVE  FALSE
  BY DEF PairedIsLocated
<1>1. /\ div.cp \in cands
      /\ \/ DiffState(RefState(div.cp), TestState(div.cp)) = {}
         \/ Differing(prog.ref, prog.test, div.cp) = {}
  BY DEF DivInv
<1>2. Mismatch(div.cp) /\ div.cp \in Seqs
  BY <1>1 DEF ScanInv, CandidatesAreMismatches, Mismatch, Trusted
<1>3. DiffState(RefState(div.cp), TestState(div.cp)) # {}
  BY <1>2 DEF Mismatch
<1>4. div.cp \in Nat /\ Differing(prog.ref, prog.test, div.cp) = {}
  BY <1>1, <1>2, <1>3, MaxSeqAssumption DEF Seqs
<1> QED
  BY <1>3, <1>4, SameWritersSameState DEF Paired, RefState, TestState

LEMMA DivFirst ==
  ASSUME TypeOK, DivInv
  PROVE  FirstMakesStatesDiffer
<1> SUFFICES ASSUME Paired, div.first # 0
             PROVE  /\ div.first <= div.cp
                    /\ DiffState(RefState(div.first - 1), TestState(div.first - 1)) = {}
                    /\ DiffState(RefState(div.first), TestState(div.first)) # {}
  BY DEF FirstMakesStatesDiffer
<1>1. div.cp \in Seqs /\ IsFirst(div.first, Differing(prog.ref, prog.test, div.cp))
  BY DEF DivInv
<1>2. PICK f : f = div.first
  OBVIOUS
<1>3. f \in Seqs /\ f \in Nat /\ f - 1 \in Nat /\ div.cp \in Nat /\ f <= div.cp
      /\ WritesDiffer(prog.ref[f], prog.test[f])
  BY <1>1, <1>2, MaxSeqAssumption DEF IsFirst, Differing, Seqs
<1>4. Differing(prog.ref, prog.test, f - 1) = {}
  <2> SUFFICES ASSUME NEW s \in Differing(prog.ref, prog.test, f - 1) PROVE FALSE
    OBVIOUS
  <2>1. s \in Nat /\ s <= f - 1 /\ s \in Seqs /\ WritesDiffer(prog.ref[s], prog.test[s])
    BY MaxSeqAssumption DEF Differing, Seqs
  <2>2. s \in Differing(prog.ref, prog.test, div.cp)
    BY <1>3, <2>1 DEF Differing
  <2>3. f <= s
    BY <1>1, <1>2, <2>2 DEF IsFirst
  <2> QED
    BY <1>3, <2>1, <2>3
<1>5. DiffState(RefState(f - 1), TestState(f - 1)) = {}
  BY <1>3, <1>4, SameWritersSameState DEF Paired, RefState, TestState
<1>6. DiffState(RefState(f), TestState(f)) # {}
  BY <1>3, DifferingShows DEF RefState, TestState
<1> QED
  BY <1>2, <1>3, <1>5, <1>6

-----------------------------------------------------------------------------
(* The chain.                                                              *)

\* The queue is in the order of depth, and spans no more than two depths.
QueueByDepth ==
  /\ \A i, j \in 1..Len(queue) : i <= j => chain[queue[i]] <= chain[queue[j]]
  /\ queue # <<>> => \A t \in DOMAIN chain : chain[t] <= chain[queue[1]] + 1

Queues(t) == \E i \in 1..Len(queue) : queue[i] = t

Expanded(t) ==
  \A s \in Upstream(t) : s \in DOMAIN chain /\ chain[s] <= chain[t] + 1

ChainInv ==
  /\ QueueByDepth
  /\ \A t \in DOMAIN chain : Queues(t) \/ Expanded(t)
  /\ ChainIsUpstream

LEMMA InitChain == Init => ChainInv
BY DEF Init, ChainInv, QueueByDepth, ChainIsUpstream

LEMMA ChainFrame ==
  ASSUME ChainInv, UNCHANGED <<prog, chain, queue>>, div'.first = div.first
  PROVE  ChainInv'
<1>1. \A t : Upstream(t)' = Upstream(t)
  BY DEF Upstream, Reads
<1>2. QueueByDepth' /\ \A t : (Queues(t)' <=> Queues(t)) /\ (Expanded(t)' <=> Expanded(t))
  BY <1>1 DEF ChainInv, QueueByDepth, Queues, Expanded
<1>3. ChainIsUpstream'
  BY <1>1 DEF ChainInv, ChainIsUpstream
<1> QED
  BY <1>2, <1>3 DEF ChainInv

LEMMA TraceStartChain ==
  ASSUME DivInv, ChainInv, TraceStart
  PROVE  ChainInv'
<1>1. PICK cp \in cands :
        \/ Insufficient(cp)
        \/ \E first \in Seqs :
             /\ div' = [cp |-> cp, status |-> "candidate", first |-> first]
             /\ chain' = [s \in {first} |-> 0]
             /\ queue' = <<first>>
  BY DEF TraceStart
<1>2. prog' = prog /\ phase = "trace"
  BY DEF TraceStart, inputs
<1>3. CASE Insufficient(cp)
  <2>1. UNCHANGED <<prog, chain, queue>> /\ div'.first = div.first
    BY <1>2, <1>3 DEF Insufficient, DivInv, NoDiv
  <2> QED
    BY <2>1, ChainFrame
<1>4. CASE ~ Insufficient(cp)
  <2>1. PICK first \in Seqs :
          /\ div' = [cp |-> cp, status |-> "candidate", first |-> first]
          /\ chain' = [s \in {first} |-> 0]
          /\ queue' = <<first>>
    BY <1>1, <1>4
  <2>2. Len(queue') = 1 /\ queue'[1] = first /\ DOMAIN chain' = {first} /\ chain'[first] = 0
    BY <2>1
  <2>3. QueueByDepth'
    BY <2>2 DEF QueueByDepth
  <2>4. Queues(first)'
    BY <2>2 DEF Queues
  <2>5. ChainIsUpstream'
    BY <2>1, <2>2 DEF ChainIsUpstream
  <2> QED
    BY <2>2, <2>3, <2>4, <2>5 DEF ChainInv
<1> QED
  BY <1>3, <1>4

\* One turn of the loop: the head leaves the queue expanded, what it adds is one
\* level deeper and comes behind everything that was queued before.
LEMMA ExpandChain ==
  ASSUME TypeOK, ChainInv, Expand
  PROVE  ChainInv'
<1> DEFINE s == queue[1]
           new == NewUpstream(s)
           rest == Tail(queue)
<1>1. queue # <<>> /\ Head(queue) = s /\ s \in Seqs /\ s \in DOMAIN chain
  BY HeadTailProperties DEF TypeOK, Expand
<1>2. /\ rest \in Seq(Seqs) /\ Len(rest) = Len(queue) - 1 /\ Len(queue) \in Nat
      /\ \A i \in 1..Len(rest) : rest[i] = queue[i + 1]
  BY <1>1, HeadTailProperties DEF TypeOK
<1>3. new \subseteq Seqs /\ new = Upstream(s) \ DOMAIN chain
  BY UpstreamAreSeqs DEF NewUpstream
<1>4. PICK order \in SetToSeqs(new) : queue' = rest \o order
  BY <1>1 DEF Expand, Queued
<1>5. chain' = [t \in DOMAIN chain \cup new |->
                  IF t \in DOMAIN chain THEN chain[t] ELSE chain[s] + 1]
  BY <1>1 DEF Expand
<1>6. \A t : Upstream(t)' = Upstream(t)
  BY DEF Expand, inputs, Upstream, Reads
<1>7. div' = div
  BY DEF Expand
<1>8. /\ order \in Seq(Seqs)
      /\ \A i \in 1..Len(order) : order[i] \in new
      /\ \A t \in new : \E i \in 1..Len(order) : order[i] = t
  <2> HIDE DEF new
  <2> QED
    BY <1>3, <1>4, OrderProperties
<1>9. /\ Len(rest) \in Nat /\ Len(order) \in Nat
      /\ Len(queue') = Len(rest) + Len(order)
      /\ \A i \in 1..(Len(rest) + Len(order)) :
           queue'[i] = IF i <= Len(rest) THEN rest[i] ELSE order[i - Len(rest)]
  BY <1>2, <1>4, <1>8, ConcatProperties
<1>10. PICK d \in Nat : d = chain[s]
  BY <1>1 DEF TypeOK
<1>11. /\ DOMAIN chain' = DOMAIN chain \cup new
       /\ \A t \in DOMAIN chain : chain'[t] = chain[t]
       /\ \A t \in new : chain'[t] = d + 1 /\ t \notin DOMAIN chain
  BY <1>3, <1>5, <1>10
<1> HIDE DEF s, new, rest
<1>12. \A t \in DOMAIN chain : chain[t] \in Nat /\ chain[t] <= d + 1
  BY <1>1, <1>10 DEF TypeOK, ChainInv, QueueByDepth, s
<1>13. \A i \in 1..Len(rest) : /\ rest[i] \in DOMAIN chain
                               /\ d <= chain[rest[i]]
                               /\ i + 1 \in 1..Len(queue)
  <2> SUFFICES ASSUME NEW i \in 1..Len(rest)
               PROVE  rest[i] \in DOMAIN chain /\ d <= chain[rest[i]] /\ i + 1 \in 1..Len(queue)
    OBVIOUS
  <2>1. i + 1 \in 1..Len(queue) /\ 1 \in 1..Len(queue) /\ 1 <= i + 1 /\ rest[i] = queue[i + 1]
    BY <1>2
  <2>2. chain[queue[1]] <= chain[queue[i + 1]]
    BY <2>1 DEF ChainInv, QueueByDepth
  <2>3. queue[i + 1] \in DOMAIN chain
    BY <2>1 DEF TypeOK
  <2> QED
    BY <2>1, <2>2, <2>3, <1>10 DEF s
\* An element of the new queue: an old one, or a new one behind the old ones.
<1>14. \A i \in 1..Len(queue') :
         \/ i \in 1..Len(rest) /\ queue'[i] = rest[i] /\ chain'[queue'[i]] = chain[rest[i]]
         \/ /\ i > Len(rest) /\ i - Len(rest) \in 1..Len(order)
            /\ queue'[i] = order[i - Len(rest)] /\ chain'[queue'[i]] = d + 1
  <2> SUFFICES ASSUME NEW i \in 1..Len(queue')
               PROVE  \/ i \in 1..Len(rest) /\ queue'[i] = rest[i] /\ chain'[queue'[i]] = chain[rest[i]]
                      \/ /\ i > Len(rest) /\ i - Len(rest) \in 1..Len(order)
                         /\ queue'[i] = order[i - Len(rest)] /\ chain'[queue'[i]] = d + 1
    OBVIOUS
  <2>1. CASE i <= Len(rest)
    BY <1>9, <1>11, <1>13, <2>1
  <2>2. CASE i > Len(rest)
    <3>1. i - Len(rest) \in 1..Len(order) /\ queue'[i] = order[i - Len(rest)]
      BY <1>9, <2>2
    <3> QED
      BY <1>8, <1>11, <2>2, <3>1
  <2> QED
    BY <1>9, <2>1, <2>2
<1>15. QueueByDepth'
  <2>1. ASSUME NEW i \in 1..Len(queue'), NEW j \in 1..Len(queue'), i <= j
        PROVE  chain'[queue'[i]] <= chain'[queue'[j]]
    <3>1. CASE i \in 1..Len(rest) /\ j \in 1..Len(rest)
      <4>1. i + 1 \in 1..Len(queue) /\ j + 1 \in 1..Len(queue) /\ i + 1 <= j + 1
        BY <1>13, <2>1, <3>1
      <4>2. chain[queue[i + 1]] <= chain[queue[j + 1]]
        BY <4>1 DEF ChainInv, QueueByDepth
      <4>3. rest[i] = queue[i + 1] /\ rest[j] = queue[j + 1]
        BY <1>2, <3>1
      <4>4. chain'[queue'[i]] = chain[rest[i]]
        BY <1>9, <1>14, <2>1, <3>1
      <4>5. chain'[queue'[j]] = chain[rest[j]]
        BY <1>9, <1>14, <2>1, <3>1
      <4> QED
        BY <4>2, <4>3, <4>4, <4>5
    <3>2. CASE i \in 1..Len(rest) /\ j > Len(rest)
      <4>1. chain'[queue'[i]] = chain[rest[i]] /\ chain'[queue'[j]] = d + 1
        BY <1>9, <1>14, <2>1, <3>2
      <4> QED
        BY <1>12, <1>13, <3>2, <4>1
    <3>3. CASE i > Len(rest)
      BY <1>9, <1>14, <2>1, <3>3
    <3> QED
      BY <1>9, <2>1, <3>1, <3>2, <3>3
  <2>2. ASSUME queue' # <<>>, NEW t \in DOMAIN chain'
        PROVE  chain'[t] <= chain'[queue'[1]] + 1
    <3>1. chain'[t] \in Nat /\ chain'[t] <= d + 1
      BY <1>10, <1>11, <1>12, <2>2
    <3>2. queue' \in Seq(Seqs) /\ 1 \in 1..Len(queue')
      BY <1>2, <1>4, <1>8, <2>2, ConcatProperties, EmptySeq
    <3>3. chain'[queue'[1]] \in Nat /\ d <= chain'[queue'[1]]
      BY <1>10, <1>12, <1>13, <1>14, <3>2
    <3> QED
      BY <1>10, <3>1, <3>3
  <2> QED
    BY <2>1, <2>2 DEF QueueByDepth
<1>16. ASSUME NEW t \in DOMAIN chain' PROVE Queues(t)' \/ Expanded(t)'
  <2>1. CASE t \in new
    <3>1. PICK i \in 1..Len(order) : order[i] = t
      BY <1>8, <2>1
    <3>2. Len(rest) + i \in 1..Len(queue') /\ queue'[Len(rest) + i] = t
      BY <1>9, <3>1
    <3> QED
      BY <3>2 DEF Queues
  <2>2. CASE t = s
    <3>1. ASSUME NEW u \in Upstream(s) PROVE u \in DOMAIN chain' /\ chain'[u] <= chain'[s] + 1
      <4>1. chain'[s] = d
        BY <1>1, <1>10, <1>11
      <4> QED
        BY <1>3, <1>10, <1>11, <1>12, <3>1, <4>1
    <3> QED
      BY <1>6, <2>2, <3>1 DEF Expanded
  <2>3. CASE t \in DOMAIN chain /\ t # s /\ Queues(t)
    <3>1. PICK i \in 1..Len(queue) : queue[i] = t
      BY <2>3 DEF Queues
    <3>2. i # 1
      BY <2>3, <3>1 DEF s
    <3>3. i - 1 \in 1..Len(rest) /\ rest[i - 1] = queue[(i - 1) + 1] /\ (i - 1) + 1 = i
      BY <1>2, <3>1, <3>2
    <3>4. i - 1 \in 1..Len(queue') /\ queue'[i - 1] = t
      BY <1>9, <3>1, <3>3
    <3> QED
      BY <3>4 DEF Queues
  <2>4. CASE t \in DOMAIN chain /\ Expanded(t)
    BY <1>6, <1>11, <2>4 DEF Expanded
  <2> QED
    BY <1>11, <1>16, <2>1, <2>2, <2>3, <2>4 DEF ChainInv
<1>17. ChainIsUpstream'
  <2> SUFFICES ASSUME NEW u \in DOMAIN chain'
               PROVE  \/ u = div.first /\ chain'[u] = 0
                      \/ \E t \in DOMAIN chain' :
                           u \in Upstream(t) /\ u < t /\ chain'[u] = chain'[t] + 1
    BY <1>6, <1>7 DEF ChainIsUpstream
  <2>1. CASE u \in DOMAIN chain
    <3>1. CASE u = div.first /\ chain[u] = 0
      BY <1>11, <2>1, <3>1
    <3>2. CASE \E t \in DOMAIN chain : u \in Upstream(t) /\ u < t /\ chain[u] = chain[t] + 1
      BY <1>11, <2>1, <3>2
    <3> QED
      BY <2>1, <3>1, <3>2 DEF ChainInv, ChainIsUpstream
  <2>2. CASE u \in new
    <3>1. u \in Upstream(s) /\ u # s /\ u \in Seqs
      BY <1>1, <1>3, <2>2
    <3>2. u <= s
      BY <3>1 DEF Upstream, RefWriters, IsLast, Writers
    <3>3. u < s
      BY <1>1, <3>1, <3>2, MaxSeqAssumption DEF Seqs
    <3>4. chain'[u] = d + 1 /\ chain'[s] = d /\ s \in DOMAIN chain'
      BY <1>1, <1>10, <1>11, <2>2
    <3> QED
      BY <3>1, <3>3, <3>4
  <2> QED
    BY <1>11, <2>1, <2>2
<1> QED
  BY <1>15, <1>16, <1>17 DEF ChainInv

LEMMA ChainStep == TypeOK /\ DivInv /\ ChainInv /\ [Next]_vars => ChainInv'
<1> SUFFICES ASSUME TypeOK, DivInv, ChainInv, [Next]_vars PROVE ChainInv'
  OBVIOUS
<1>1. CASE ScanCheckpoint \/ ScanEnd \/ CompareCheckpoint \/ CompareEnd \/ Terminated
           \/ UNCHANGED vars
  <2>1. UNCHANGED <<prog, div, chain, queue>>
    BY <1>1 DEF ScanCheckpoint, ScanEnd, CompareCheckpoint, CompareEnd, Terminated, vars, inputs
  <2> QED
    BY <2>1, ChainFrame
<1>2. CASE TraceStart
  BY <1>2, TraceStartChain
<1>3. CASE Expand
  BY <1>3, ExpandChain
<1>4. CASE TraceEnd
  <2>1. UNCHANGED <<prog, chain, queue>> /\ div'.first = div.first
    BY <1>4 DEF TraceEnd, TypeOK, inputs
  <2> QED
    BY <2>1, ChainFrame
<1> QED
  BY <1>1, <1>2, <1>3, <1>4 DEF Next

\* When the walk is over nothing is queued, so every node has been expanded.
LEMMA ChainDone ==
  ASSUME DivInv, ChainInv
  PROVE  ChainIsComplete
<1> SUFFICES ASSUME phase = "done", NEW t \in DOMAIN chain PROVE Expanded(t)
  BY DEF ChainIsComplete, Expanded
<1>1. queue = <<>>
  BY DEF DivInv
<1> QED
  BY <1>1 DEF ChainInv, Queues

\* What an instruction does not write, nobody writes between it and the last
\* writer before it.
LEMMA OtherSources ==
  ASSUME TypeOK, ChainIsComplete
  PROVE  OtherSourcesHeld
<1> SUFFICES ASSUME phase = "done", NEW t \in DOMAIN chain, NEW r \in Reads(t),
                    prog.ref[t].writes[r] = Unset,
                    NEW s \in RefWriters(prog.ref, {r}, t - 1)
             PROVE  s \in DOMAIN chain /\ chain[s] <= chain[t] + 1
  BY DEF OtherSourcesHeld
<1>1. t \in Seqs /\ t \in Nat
  BY MaxSeqAssumption DEF TypeOK, Seqs
<1>2. Writers(prog.ref, r, t - 1) = Writers(prog.ref, r, t)
  BY <1>1, MaxSeqAssumption DEF Writers, Seqs
<1>3. s \in Seqs /\ IsLast(s, Writers(prog.ref, r, t))
  BY <1>2 DEF RefWriters
<1>4. s \in Upstream(t)
  BY <1>3 DEF Upstream, RefWriters
<1> QED
  BY <1>4 DEF ChainIsComplete

-----------------------------------------------------------------------------
(* The loops end.                                                          *)

LEMMA SeqsCount ==
  ASSUME NEW S \in SUBSET Seqs
  PROVE  IsFiniteSet(S) /\ Cardinality(S) \in Nat /\ Cardinality(S) <= MaxSeq
<1>1. IsFiniteSet(Seqs) /\ Cardinality(Seqs) = MaxSeq
  BY FS_Interval, MaxSeqAssumption DEF Seqs
<1> QED
  BY <1>1, FS_Subset, FS_CardinalityType

\* A loop over checkpoints loses the one it visits.
LEMMA LeftShrinks ==
  ASSUME TypeOK, NEW cp \in left, left' = left \ {cp}
  PROVE  /\ Cardinality(left) \in Nat /\ Cardinality(left') \in Nat
         /\ Cardinality(left') < Cardinality(left)
<1>1. left \subseteq Seqs
  BY DEF TypeOK, Trusted
<1>2. IsFiniteSet(left) /\ Cardinality(left) \in Nat
  BY <1>1, SeqsCount
<1>3. Cardinality(left \ {cp}) = Cardinality(left) - 1
  BY <1>2, FS_RemoveElement
<1>4. Cardinality(left \ {cp}) \in Nat
  BY <1>1, SeqsCount
<1> QED
  BY <1>2, <1>3, <1>4

LEMMA TurnsTyped == Turns \in Nat /\ Turns > MaxSeq /\ Turns = MaxSeq + 2
BY MaxSeqAssumption DEF Turns

\* The trace begins with one instruction in the chain and in the queue.
LEMMA TraceStartShrinks ==
  ASSUME TypeOK, TraceStart
  PROVE  Work' \in Nat /\ Work' < Work
<1>1. Work = Turns
  BY DEF TraceStart, Work
<1>2. PICK cp \in cands :
        \/ Insufficient(cp)
        \/ \E first \in Seqs :
             /\ chain' = [s \in {first} |-> 0]
             /\ queue' = <<first>>
             /\ phase' = "expand"
  BY DEF TraceStart
<1>3. CASE Insufficient(cp)
  <2>1. Work' = 0
    BY <1>3 DEF Insufficient, Work
  <2> QED
    BY <1>1, <2>1, TurnsTyped, MaxSeqAssumption
<1>4. CASE ~ Insufficient(cp)
  <2>1. PICK first \in Seqs :
          /\ chain' = [s \in {first} |-> 0]
          /\ queue' = <<first>>
          /\ phase' = "expand"
    BY <1>2, <1>4
  <2>2. DOMAIN chain' = {first} /\ Len(queue') = 1
    BY <2>1
  <2>3. Work' = 1 + Cardinality(Seqs \ {first}) + 1
    BY <2>1, <2>2 DEF Work
  <2>4. Cardinality(Seqs \ {first}) = MaxSeq - 1 /\ MaxSeq - 1 \in Nat
    <3>1. IsFiniteSet(Seqs) /\ Cardinality(Seqs) = MaxSeq
      BY FS_Interval, MaxSeqAssumption DEF Seqs
    <3>2. MaxSeq - 1 \in Nat
      BY MaxSeqAssumption DEF Seqs
    <3> QED
      BY <3>1, <3>2, FS_RemoveElement
  <2> QED
    BY <1>1, <2>3, <2>4, TurnsTyped, MaxSeqAssumption
<1> QED
  BY <1>3, <1>4

\* The head leaves the queue; each instruction that joins it leaves the rest.
LEMMA ExpandShrinks ==
  ASSUME TypeOK, Expand
  PROVE  Work' \in Nat /\ Work' < Work
<1> DEFINE s == Head(queue)
           new == NewUpstream(s)
           rest == Seqs \ DOMAIN chain
<1>1. /\ Tail(queue) \in Seq(Seqs) /\ Len(queue) \in Nat
      /\ Len(Tail(queue)) = Len(queue) - 1 /\ Len(Tail(queue)) \in Nat
  BY HeadTailProperties DEF TypeOK, Expand
<1>2. new \subseteq rest /\ new \subseteq Seqs
  BY UpstreamAreSeqs DEF NewUpstream
<1>3. PICK order \in SetToSeqs(new) : queue' = Tail(queue) \o order
  BY DEF Expand, Queued
<1>4. order \in Seq(Seqs) /\ Len(order) = Cardinality(new)
  <2> HIDE DEF new
  <2> QED
    BY <1>2, <1>3, OrderProperties
<1>5. Len(queue') = Len(queue) - 1 + Cardinality(new)
  <2>1. Len(queue') = Len(Tail(queue)) + Len(order)
    BY <1>1, <1>3, <1>4, ConcatProperties
  <2> QED
    BY <1>1, <1>4, <2>1
<1>6. DOMAIN chain' = DOMAIN chain \cup new
  BY DEF Expand
<1> HIDE DEF new
<1>7. /\ Cardinality(rest) \in Nat /\ Cardinality(new) \in Nat
      /\ Cardinality(rest \ new) \in Nat
      /\ Cardinality(rest \ new) = Cardinality(rest) - Cardinality(new)
  <2>1. IsFiniteSet(rest) /\ rest \cap new = new
    BY <1>2, SeqsCount
  <2>2. Cardinality(rest \ new) = Cardinality(rest) - Cardinality(rest \cap new)
    BY <2>1, FS_Difference
  <2> QED
    BY <1>2, <2>1, <2>2, SeqsCount
<1>8. Seqs \ DOMAIN chain' = rest \ new
  BY <1>6
<1>9. Work = 1 + Cardinality(rest) + Len(queue)
  BY DEF Expand, Work
<1>10. Work' = 1 + Cardinality(rest \ new) + Len(queue')
  BY <1>8 DEF Expand, Work
<1> HIDE DEF rest
<1> QED
  BY <1>1, <1>5, <1>7, <1>9, <1>10

LEMMA WorkShrinks == TypeOK /\ [Next]_vars => (Work' \in Nat /\ Work' < Work) \/ UNCHANGED vars
<1> SUFFICES ASSUME TypeOK, Next, ~ UNCHANGED vars
             PROVE  Work' \in Nat /\ Work' < Work
  OBVIOUS
<1>1. CASE ScanCheckpoint
  <2>1. PICK cp \in left : left' = left \ {cp}
    BY <1>1 DEF ScanCheckpoint, ScanNext, IsFirst
  <2>2. Work = 3 * Turns + Cardinality(left) /\ Work' = 3 * Turns + Cardinality(left')
    BY <1>1 DEF ScanCheckpoint, Work
  <2>3. /\ Cardinality(left) \in Nat /\ Cardinality(left') \in Nat
        /\ Cardinality(left') < Cardinality(left)
    BY <2>1, LeftShrinks
  <2> QED
    BY <2>2, <2>3, TurnsTyped
<1>2. CASE ScanEnd
  <2>1. Cardinality(left) = 0
    BY <1>2, FS_EmptySet DEF ScanEnd
  <2>2. Work = 3 * Turns /\ Work' = 2 * Turns + Cardinality(Trusted)
    BY <1>2, <2>1, TurnsTyped DEF ScanEnd, Work
  <2>3. Cardinality(Trusted) \in Nat /\ Cardinality(Trusted) <= MaxSeq
    BY SeqsCount DEF Trusted
  <2> QED
    BY <2>2, <2>3, TurnsTyped, MaxSeqAssumption
<1>3. CASE CompareCheckpoint
  <2>1. PICK cp \in left : left' = left \ {cp}
    BY <1>3 DEF CompareCheckpoint, IsFirst
  <2>2. Work = 2 * Turns + Cardinality(left) /\ Work' = 2 * Turns + Cardinality(left')
    BY <1>3 DEF CompareCheckpoint, Work
  <2>3. /\ Cardinality(left) \in Nat /\ Cardinality(left') \in Nat
        /\ Cardinality(left') < Cardinality(left)
    BY <2>1, LeftShrinks
  <2> QED
    BY <2>2, <2>3, TurnsTyped
<1>4. CASE CompareEnd
  <2>1. Cardinality(left) = 0
    BY <1>4, FS_EmptySet DEF CompareEnd
  <2>2. Work = 2 * Turns /\ Work' = Turns
    BY <1>4, <2>1, TurnsTyped DEF CompareEnd, Work
  <2> QED
    BY <2>2, TurnsTyped, MaxSeqAssumption
<1>5. CASE TraceStart
  BY <1>5, TraceStartShrinks
<1>6. CASE Expand
  BY <1>6, ExpandShrinks
<1>7. CASE TraceEnd
  <2>1. Work = 1 + Cardinality(Seqs \ DOMAIN chain) + Len(queue) /\ Work' = 0
    BY <1>7 DEF TraceEnd, Work
  <2>2. Cardinality(Seqs \ DOMAIN chain) \in Nat /\ Len(queue) \in Nat
    BY SeqsCount DEF TypeOK
  <2> QED
    BY <2>1, <2>2
<1>8. CASE Terminated
  BY <1>8 DEF Terminated
<1> QED
  BY <1>1, <1>2, <1>3, <1>4, <1>5, <1>6, <1>7, <1>8 DEF Next

-----------------------------------------------------------------------------
(* Theorems.                                                               *)

\* The invariant that the theorems rest on: what the scan carries and the
\* comparison has seen, what the divergence says, and what the queue of the
\* walk guarantees.
LocatorInv == TypeOK /\ ScanInv /\ DivInv /\ ChainInv

THEOREM LocatorCorrect == Spec => []LocatorInv
<1>1. Init => LocatorInv
  BY InitTyped, InitScan, InitDiv, InitChain DEF LocatorInv
<1>2. LocatorInv /\ [Next]_vars => LocatorInv'
  BY TypeStep, ScanStep, DivStep, ChainStep DEF LocatorInv
<1> QED
  BY <1>1, <1>2, PTL DEF Spec

\* ScanFingerprints and Compare: carrying the states from one checkpoint to the
\* next finds what replaying each from the first event would find.
THEOREM ScanIsExact == Spec => []CandidatesAreMismatches
<1>1. LocatorInv => CandidatesAreMismatches
  BY DEF LocatorInv, ScanInv
<1> QED
  BY <1>1, LocatorCorrect, PTL

\* Trace: a candidate on trails of the same instructions is always confirmed.
THEOREM EveryCandidateIsLocated == Spec => []PairedIsLocated
<1>1. LocatorInv => PairedIsLocated
  BY DivLocated DEF LocatorInv
<1> QED
  BY <1>1, LocatorCorrect, PTL

\* Trace: the instruction named is the one from which the states differ.
THEOREM FirstIsTheTrigger == Spec => []FirstMakesStatesDiffer
<1>1. LocatorInv => FirstMakesStatesDiffer
  BY DivFirst DEF LocatorInv
<1> QED
  BY <1>1, LocatorCorrect, PTL

\* expandChain: the chain runs upstream, never in a circle.
THEOREM ChainRunsUpstream == Spec => []ChainIsUpstream
<1>1. LocatorInv => ChainIsUpstream
  BY DEF LocatorInv, ChainInv
<1> QED
  BY <1>1, LocatorCorrect, PTL

\* expandChain: the finished chain is closed under last writers, each node at
\* the least depth.
THEOREM ChainIsClosed == Spec => []ChainIsComplete
<1>1. LocatorInv => ChainIsComplete
  BY ChainDone DEF LocatorInv
<1> QED
  BY <1>1, LocatorCorrect, PTL

\* expandChain: the chain misses a source only of what an instruction both reads
\* and writes.
THEOREM OtherSourcesAreHeld == Spec => []OtherSourcesHeld
<1>1. LocatorInv => OtherSourcesHeld
  BY ChainDone, OtherSources DEF LocatorInv
<1> QED
  BY <1>1, LocatorCorrect, PTL

\* Scan, comparison and walk take a bounded number of turns.
THEOREM LoopsShrink == Spec => EveryTurnIsProgress
<1>1. LocatorInv /\ [Next]_vars => [Work' \in Nat /\ Work' < Work]_vars
  BY WorkShrinks DEF LocatorInv
<1> QED
  BY <1>1, LocatorCorrect, PTL DEF Spec, EveryTurnIsProgress

=============================================================================
