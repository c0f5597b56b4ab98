---------------------------- MODULE AtomicStore ----------------------------
(***************************************************************************)
(* What the methods of the service rely on when they call the store: a     *)
(* call writes all its rows in one step or none of them, whatever runs     *)
(* beside it, fails, or stops the process.                                 *)
(***************************************************************************)
EXTENDS Naturals

CONSTANTS
  Callers,   \* goroutines that use the store
  Rows,      \* rows of the database
  Versions   \* bound: the version of a row is counted modulo Versions

VARIABLES
  disk,      \* [row] -> its version
  writes     \* [caller] -> the rows its call is to write, {} between calls

Version == 0..(Versions - 1)

Bump(v) == (v + 1) % Versions

\* The table after a call has written some of its rows.
Bumped(table, rows) ==
  [r \in Rows |-> IF r \in rows THEN Bump(table[r]) ELSE table[r]]

Init ==
  /\ disk \in [Rows -> Version]
  /\ writes = [c \in Callers |-> {}]

Call(c, rows) ==
  /\ writes[c] = {}
  /\ writes' = [writes EXCEPT ![c] = rows]
  /\ UNCHANGED disk

Apply(c) ==
  /\ disk' = Bumped(disk, writes[c])
  /\ writes' = [writes EXCEPT ![c] = {}]

\* The call returns an error.
Refuse(c) ==
  /\ writes' = [writes EXCEPT ![c] = {}]
  /\ UNCHANGED disk

Crash ==
  /\ writes' = [c \in Callers |-> {}]
  /\ UNCHANGED disk

Next ==
  \/ Crash
  \/ \E c \in Callers :
       \/ \E rows \in SUBSET Rows : Call(c, rows)
       \/ Apply(c)
       \/ Refuse(c)

Spec == Init /\ [][Next]_<<disk, writes>>

=============================================================================
