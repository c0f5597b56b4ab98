------------------------------ MODULE TxStore ------------------------------
(***************************************************************************)
(* How store.go runs the calls of the repositories.  The pool has a single *)
(* connection.  A plain statement waits for the connection, runs, and      *)
(* gives it back.  WithTx takes the mutex of the store first, then the     *)
(* connection, keeps both over Begin, fn and Commit, and rolls back when   *)
(* fn returns an error.                                                    *)
(*                                                                         *)
(* A row is its version: a write reads the row and counts it up, so a      *)
(* write that is lost or doubled shows.  The mutex and the connection go   *)
(* to any one of those that wait for them.                                 *)
(***************************************************************************)
EXTENDS Naturals

CONSTANTS
  Callers,   \* goroutines that use the store
  Rows,      \* rows of the database
  Versions,  \* bound: the version of a row is counted modulo Versions
  None       \* no caller

ASSUME VersionsAssumption == Versions \in Nat \ {0}
ASSUME NoneAssumption == None \notin Callers

VARIABLES
  disk,      \* the committed rows
  view,      \* the rows as the transaction of the connection sees them
  conn,      \* who holds the connection of the pool
  mu,        \* who holds Store.mu
  thread     \* [caller] -> where its call stands

vars == <<disk, view, conn, mu, thread>>

\* The rows that a call is to write, until they are written.
Writes == [c \in Callers |-> thread[c].rows]

Atomic == INSTANCE AtomicStore WITH writes <- Writes

Places ==
  {"idle", "wait", "run", "lock", "begin", "fn", "rollback", "unlock"}

Thread == [pc: Places, rows: SUBSET Rows, todo: SUBSET Rows]

Idle == [pc |-> "idle", rows |-> {}, todo |-> {}]

Goto(c, pc) == thread' = [thread EXCEPT ![c].pc = pc]

TypeOK ==
  /\ disk \in [Rows -> Atomic!Version]
  /\ view \in [Rows -> Atomic!Version]
  /\ conn \in Callers \cup {None}
  /\ mu \in Callers \cup {None}
  /\ thread \in [Callers -> Thread]

Init ==
  /\ disk \in [Rows -> Atomic!Version]
  /\ view = disk
  /\ conn = None
  /\ mu = None
  /\ thread = [c \in Callers |-> Idle]

-----------------------------------------------------------------------------
(* A statement outside a transaction: BatchStore.Update and the other      *)
(* methods of the repositories that call db.Exec, db.Query or db.QueryRow. *)

CallStatement(c, r) ==
  /\ thread[c].pc = "idle"
  /\ thread' = [thread EXCEPT ![c] = [pc |-> "wait", rows |-> {r}, todo |-> {}]]
  /\ UNCHANGED <<disk, view, conn, mu>>

StatementTakes(c) ==
  /\ thread[c].pc = "wait"
  /\ conn = None
  /\ conn' = c
  /\ Goto(c, "run")
  /\ UNCHANGED <<disk, view, mu>>

StatementRuns(c) ==
  /\ thread[c].pc = "run"
  /\ disk' = Atomic!Bumped(disk, thread[c].rows)
  /\ conn' = None
  /\ thread' = [thread EXCEPT ![c] = Idle]
  /\ UNCHANGED <<view, mu>>

StatementFails(c) ==
  /\ thread[c].pc = "run"
  /\ conn' = None
  /\ thread' = [thread EXCEPT ![c] = Idle]
  /\ UNCHANGED <<disk, view, mu>>

-----------------------------------------------------------------------------
(* WithTx(fn), where fn writes the rows one after the other.               *)

CallWithTx(c, rows) ==
  /\ thread[c].pc = "idle"
  /\ thread' = [thread EXCEPT ![c] = [pc |-> "lock", rows |-> rows, todo |-> rows]]
  /\ UNCHANGED <<disk, view, conn, mu>>

Lock(c) ==
  /\ thread[c].pc = "lock"
  /\ mu = None
  /\ mu' = c
  /\ Goto(c, "begin")
  /\ UNCHANGED <<disk, view, conn>>

BeginTx(c) ==
  /\ thread[c].pc = "begin"
  /\ conn = None
  /\ conn' = c
  /\ view' = disk
  /\ Goto(c, "fn")
  /\ UNCHANGED <<disk, mu>>

\* Mutated: the error of Begin is returned before Unlock is deferred.
BeginFailsLocked(c) ==
  /\ thread[c].pc = "begin"
  /\ conn = None
  /\ thread' = [thread EXCEPT ![c] = Idle]
  /\ UNCHANGED <<disk, view, conn, mu>>

BeginFails(c) ==
  /\ thread[c].pc = "begin"
  /\ conn = None
  /\ Goto(c, "unlock")
  /\ UNCHANGED <<disk, view, conn, mu>>

\* Mutated: fn writes through db instead of tx.
FnExecOnPool(c, r) ==
  /\ thread[c].pc = "fn" /\ r \in thread[c].todo
  /\ conn = None
  /\ view' = Atomic!Bumped(view, {r})
  /\ thread' = [thread EXCEPT ![c].todo = @ \ {r}]
  /\ UNCHANGED <<disk, conn, mu>>

FnExec(c, r) ==
  /\ thread[c].pc = "fn" /\ r \in thread[c].todo
  /\ view' = Atomic!Bumped(view, {r})
  /\ thread' = [thread EXCEPT ![c].todo = @ \ {r}]
  /\ UNCHANGED <<disk, conn, mu>>

\* Mutated: WithTx goes on to Commit although fn returned an error.
FnFailsIgnored(c) ==
  /\ thread[c].pc = "fn"
  /\ thread' = [thread EXCEPT ![c].todo = {}]
  /\ UNCHANGED <<disk, view, conn, mu>>

\* fn returns an error, of a statement or of its own.
FnFails(c) ==
  /\ thread[c].pc = "fn"
  /\ Goto(c, "rollback")
  /\ UNCHANGED <<disk, view, conn, mu>>

Commit(c) ==
  /\ thread[c].pc = "fn" /\ thread[c].todo = {}
  /\ disk' = view
  /\ conn' = None
  /\ thread' = [thread EXCEPT ![c] = [Idle EXCEPT !.pc = "unlock"]]
  /\ UNCHANGED <<view, mu>>

\* database/sql gives the connection back, and the deferred Rollback then
\* finds the transaction done.
CommitFails(c) ==
  /\ thread[c].pc = "fn" /\ thread[c].todo = {}
  /\ conn' = None
  /\ Goto(c, "unlock")
  /\ UNCHANGED <<disk, view, mu>>

Rollback(c) ==
  /\ thread[c].pc = "rollback"
  /\ conn' = None
  /\ Goto(c, "unlock")
  /\ UNCHANGED <<disk, view, mu>>

Unlock(c) ==
  /\ thread[c].pc = "unlock"
  /\ mu' = None
  /\ thread' = [thread EXCEPT ![c] = Idle]
  /\ UNCHANGED <<disk, view, conn>>

-----------------------------------------------------------------------------

\* The process stops: what was not committed is gone.
Crash ==
  /\ conn' = None /\ mu' = None
  /\ thread' = [c \in Callers |-> Idle]
  /\ view' = disk
  /\ UNCHANGED disk

\* What a running call does by itself, and the errors it may meet.
Progress(c) ==
  \/ StatementTakes(c) \/ StatementRuns(c)
  \/ Lock(c) \/ BeginTx(c)
  \/ \E r \in Rows : FnExec(c, r)
  \/ Commit(c) \/ Rollback(c) \/ Unlock(c)

Errors(c) ==
  StatementFails(c) \/ BeginFails(c) \/ FnFails(c) \/ CommitFails(c)

Calls(c) ==
  \/ \E r \in Rows : CallStatement(c, r)
  \/ \E rows \in SUBSET Rows : rows # {} /\ CallWithTx(c, rows)

Next ==
  \/ Crash
  \/ \E c \in Callers : Calls(c) \/ Progress(c) \/ Errors(c)

\* A call that runs takes its next step, unless an error gets in its way.  One
\* that waits gets the mutex or the connection if these are free again and
\* again: sync.Mutex serves a starving waiter first, and database/sql hands a
\* connection that is given back to a request that waits.  No error is ever
\* relied on, and nobody has to call.
Fairness == \A c \in Callers : SF_vars(Progress(c))

Spec == Init /\ [][Next]_vars /\ Fairness

-----------------------------------------------------------------------------

\* The calls that hold the connection, and those that hold the mutex.
HasConn(c) == thread[c].pc \in {"run", "fn", "rollback"}
HasMutex(c) == thread[c].pc \in {"begin", "fn", "rollback", "unlock"}

\* WithTx: on every path, those of its errors included, the connection and the
\* mutex are held by the call that is using them and by no other; a call that
\* has returned has left neither behind.
HeldWhileUsed ==
  \A c \in Callers : (HasConn(c) <=> conn = c) /\ (HasMutex(c) <=> mu = c)

\* The calls that can take their next step.
CanGoOn(c) ==
  \/ thread[c].pc \in {"run", "fn", "rollback", "unlock"}
  \/ thread[c].pc \in {"wait", "begin"} /\ conn = None
  \/ thread[c].pc = "lock" /\ mu = None

\* WithTx: calls that hold the connection and calls that hold the mutex never
\* wait for each other in a circle: whenever calls run, one of them can go on.
SomeCallCanGoOn ==
  (\E c \in Callers : thread[c].pc # "idle") => \E c \in Callers : CanGoOn(c)

\* WithTx and SetMaxOpenConns(1): whatever runs beside it, fails or stops the
\* process, a call to the store takes effect in one step or not at all.
CallsAreAtomic == Atomic!Spec

\* WithTx: every call returns.  No call waits for ever for the mutex, or for
\* a connection that it, or one that waits for it, holds.
EveryCallReturns ==
  \A c \in Callers : thread[c].pc # "idle" ~> thread[c].pc = "idle"

=============================================================================
