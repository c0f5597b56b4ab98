----------------------------- MODULE MCLocator -----------------------------
(* Small trails and checkpoints for Locator.                                *)
EXTENDS Locator

CONSTANTS x, y, z, a, b

Writes(w, v) == [r \in Resources |-> IF r \in w THEN v ELSE Unset]
Instr(reads, w, v) == [reads |-> reads, writes |-> Writes(w, v)]

\* The reference trail reads and writes x and y in every way at 1 to 3 (there is
\* nothing to read at 1).
Reading == [1..3 -> SUBSET {x, y}]
Writing == [1..3 -> {{x}, {y}}]

\* The test trail has the same instruction, with the same or another value, or
\* one of the two trails has none.
Deviation == [1..3 -> {"same", "other", "missing", "extra"}]

Exhaustive ==
  {[ref  |-> [s \in Seqs |->
      IF s > 3 \/ dev[s] = "extra" THEN NoEvent ELSE Instr(rd[s], wr[s], a)],
    test |-> [s \in Seqs |->
      IF s > 3 \/ dev[s] = "missing" THEN NoEvent
      ELSE Instr(rd[s], wr[s], IF dev[s] = "other" THEN b ELSE a)]] :
   rd \in {f \in Reading : f[1] = {}}, wr \in Writing, dev \in Deviation}

\* 5 reads from 4 and 3; 4 reads from 1, and so does, over 2, 3.
DiamondTrail(v) ==
  <<Instr({}, {z}, a), Instr({z}, {x}, a), Instr({x}, {y}, a),
    Instr({z}, {x}, a), Instr({x, y}, {z}, v)>>

\* 5 reads what it writes, and so does 3.
LoopTrail(v) ==
  <<Instr({}, {x}, a), Instr({x}, {y}, a), Instr({x, y}, {x}, a),
    Instr({x}, {z}, a), Instr({x, z}, {x, z}, v)>>

Pair(Trail_(_)) == [ref |-> Trail_(a), test |-> Trail_(b)]

SmallPrograms == Exhaustive \cup {Pair(DiamondTrail), Pair(LoopTrail)}

Registered(kinds) ==
  [s \in Seqs |-> IF s \in DOMAIN kinds THEN kinds[s] ELSE "none"]

SmallCheckpoints ==
  {Registered(<<"none", "full", "register", "none", "full">>),
   Registered(<<"memory", "none", "full">>),
   Registered(<<"full", "unreliable", "memory", "none", "register">>)}

=============================================================================
