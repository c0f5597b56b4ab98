------------------------------ MODULE Requests ------------------------------
(***************************************************************************)
(* The HTTP requests in flight on one batch.  net/http runs every request  *)
(* in a goroutine of its own; its handler calls one Service method, which  *)
(* keeps what it has read in local variables while other requests run.     *)
(* Between two statements of a method any other request may take a step,   *)
(* and any statement may fail (SQL error, cancelled context, crash): the   *)
(* method then returns, what it has written so far stays.                  *)
(***************************************************************************)
EXTENDS ReplayStore

CONSTANTS
  Sent,        \* bound: the operations the clients of a run ask for
  Workers,     \* goroutines that may serve a request of this batch at a time
  Concurrent,  \* operations whose requests the clients let overlap
  Fragments    \* import requests: the side, and their inputs at each seq

Ops == {"import", "checkpoint", "mark", "exclude", "sync", "scan", "compare",
        "trace", "confirm", "seal", "draft", "publish"}

ASSUME SentAssumption == Sent \subseteq Ops
ASSUME ConcurrentAssumption == Concurrent \subseteq Ops

\* An input of an import: an event, or one without opcode or with a resource that
\* is neither reg: nor mem:.
Input == Content \cup {"malformed"}

ASSUME FragmentsAssumption ==
  Fragments \subseteq [side: Side, inputs: [Seqs -> SUBSET Input]]

VARIABLE req   \* [worker] -> the local variables of the method it runs

vars == <<batch, events, cps, fps, deps, divs, chain, snaps, req>>

NoTrail == [s \in Seqs |-> "none"]

\* The next statement of a method.
Labels ==
  {"none", "check", "insert", "update", "range_ref", "range_test", "list_ref",
   "list_test", "align", "checkpoints", "ref", "test", "upsert_ref",
   "upsert_test", "pair", "existing", "create", "get", "deps", "save_chain",
   "confirm", "excluded", "summary", "publish"}

\* The locals of all methods; a method leaves those it does not have alone.
Request ==
  [op: Ops \cup {"none"}, pc: Labels,
   b: BatchRow,                  \* the batch as Get returned it
   side: Side, seq: Nat, id: Nat,\* arguments: event, checkpoint, row id
   lo: Nat, hi: Nat,             \* Align's range
   left: SUBSET Seqs,            \* what a loop has still to visit
   next: SUBSET Seqs,            \* ... and what the loop after it will
   ref: Trail, test: Trail,      \* the trails as listed; an import's inputs
   scanned: BOOLEAN,             \* Compare found a fingerprint pair
   div: DivRow,                  \* Trace's copy of its divergence
   cfg: Config, sum: Summary]    \* the snapshot being assembled

Idle ==
  [op |-> "none", pc |-> "none", b |-> NewBatch, side |-> "reference",
   seq |-> 0, id |-> 0, lo |-> 0, hi |-> 0, left |-> {}, next |-> {},
   ref |-> NoTrail, test |-> NoTrail, scanned |-> FALSE, div |-> NoDiv,
   cfg |-> NoConfig, sum |-> NoSummary]

At(w, op, pc) == req[w].op = op /\ req[w].pc = pc

\* Operations outside Concurrent are only sent when nothing else is running.
MayStart(w, op) ==
  /\ op \in Sent
  /\ req[w].op = "none"
  /\ \A v \in Workers \ {w} :
       req[v].op = "none" \/ (req[v].op \in Concurrent /\ op \in Concurrent)

\* The first statement of every method reads the batch row.
Begin(w, op, pc, args) ==
  /\ MayStart(w, op)
  /\ req' = [req EXCEPT ![w] =
       [args EXCEPT !.op = op, !.pc = pc, !.b = batch]]

Become(w, r) == req' = [req EXCEPT ![w] = r]
Goto(w, pc)  == req' = [req EXCEPT ![w].pc = pc]
Finish(w)    == Become(w, Idle)

\* A statement fails and the method returns its error.
Fail(w) ==
  /\ req[w].op # "none"
  /\ Finish(w)
  /\ UNCHANGED tables

\* The process stops; the tables are on disk.
Restart ==
  /\ \E w \in Workers : req[w].op # "none"
  /\ req' = [w \in Workers |-> Idle]
  /\ UNCHANGED tables

RequestsTypeOK == req \in [Workers -> Request]

RequestsInit == req = [w \in Workers |-> Idle]

=============================================================================
