--------------------------- MODULE TxStoreProofs ---------------------------
(***************************************************************************)
(* Proofs that the store keeps its connection and its mutex in order and   *)
(* that its calls are atomic.                                              *)
(*                                                                         *)
(* The invariant ties the holder of the connection and of the mutex to the *)
(* place its call has reached, and says what the transaction under way     *)
(* sees: the committed rows, with those that it has written counted up.    *)
(***************************************************************************)
EXTENDS TxStore, TLAPS

Done(c) == thread[c].rows \ thread[c].todo

ViewOK ==
  \A c \in Callers :
    thread[c].pc = "fn" => view = Atomic!Bumped(disk, Done(c))

\* fn starts with all rows of its call to write, and only takes some away.
TodoOK ==
  \A c \in Callers :
    /\ thread[c].pc = "idle" => thread[c].rows = {}
    /\ thread[c].pc \in {"lock", "begin"} => thread[c].todo = thread[c].rows
    /\ thread[c].pc = "fn" => thread[c].todo \subseteq thread[c].rows

TxInv == TypeOK /\ HeldWhileUsed /\ TodoOK /\ ViewOK

-----------------------------------------------------------------------------

\* Counting up keeps a version in its range.
LEMMA BumpTyped ==
  ASSUME NEW v \in Atomic!Version
  PROVE  Atomic!Bump(v) \in Atomic!Version
<1>1. v + 1 \in Nat BY VersionsAssumption DEF Atomic!Version
<1>2. (v + 1) % Versions \in 0..(Versions - 1)
  BY <1>1, VersionsAssumption
<1> QED BY <1>2 DEF Atomic!Bump, Atomic!Version

\* Writing some rows of a table leaves a table.
LEMMA BumpedTyped ==
  ASSUME NEW table \in [Rows -> Atomic!Version], NEW rows
  PROVE  Atomic!Bumped(table, rows) \in [Rows -> Atomic!Version]
BY BumpTyped DEF Atomic!Bumped

\* Writing no rows changes nothing.
LEMMA BumpedNothing ==
  ASSUME NEW table \in [Rows -> Atomic!Version]
  PROVE  Atomic!Bumped(table, {}) = table
BY DEF Atomic!Bumped

\* A transaction writes its rows one by one, each of them once.
LEMMA BumpedOneMore ==
  ASSUME NEW table \in [Rows -> Atomic!Version], NEW rows, NEW r, r \notin rows
  PROVE  Atomic!Bumped(Atomic!Bumped(table, rows), {r}) = Atomic!Bumped(table, rows \cup {r})
BY DEF Atomic!Bumped

-----------------------------------------------------------------------------

LEMMA InitHolds == Init => TxInv
<1> SUFFICES ASSUME Init PROVE TxInv OBVIOUS
<1>1. TypeOK BY DEF Init, TypeOK, Thread, Idle, Places
<1>2. HeldWhileUsed
  BY NoneAssumption DEF Init, HeldWhileUsed, HasConn, HasMutex, Idle
<1>3. ViewOK /\ TodoOK BY DEF Init, ViewOK, TodoOK, Idle
<1> QED BY <1>1, <1>2, <1>3 DEF TxInv

LEMMA TypeStep == TxInv /\ [Next]_vars => TypeOK'
<1> SUFFICES ASSUME TxInv, [Next]_vars PROVE TypeOK' OBVIOUS
<1> USE DEF TxInv, TypeOK, Thread, Idle, Places, Goto
<1>1. CASE UNCHANGED vars BY <1>1 DEF vars
<1>2. CASE Crash BY <1>2 DEF Crash
<1>3. ASSUME NEW c \in Callers, Calls(c) PROVE TypeOK'
  BY <1>3 DEF Calls, CallStatement, CallWithTx
<1>4. ASSUME NEW c \in Callers, Progress(c) \/ Errors(c) PROVE TypeOK'
  <2>1. CASE StatementTakes(c) BY <2>1 DEF StatementTakes
  <2>2. CASE StatementRuns(c) BY <2>2, BumpedTyped DEF StatementRuns
  <2>3. CASE StatementFails(c) BY <2>3 DEF StatementFails
  <2>4. CASE Lock(c) BY <2>4 DEF Lock
  <2>5. CASE BeginTx(c) BY <2>5 DEF BeginTx
  <2>6. CASE BeginFails(c) BY <2>6 DEF BeginFails
  <2>7. ASSUME NEW r \in Rows, FnExec(c, r) PROVE TypeOK'
    BY <2>7, BumpedTyped DEF FnExec
  <2>8. CASE FnFails(c) BY <2>8 DEF FnFails
  <2>9. CASE Commit(c) BY <2>9 DEF Commit
  <2>10. CASE CommitFails(c) BY <2>10 DEF CommitFails
  <2>11. CASE Rollback(c) BY <2>11 DEF Rollback
  <2>12. CASE Unlock(c) BY <2>12 DEF Unlock
  <2> QED BY <1>4, <2>1, <2>2, <2>3, <2>4, <2>5, <2>6, <2>7, <2>8, <2>9,
             <2>10, <2>11, <2>12 DEF Progress, Errors
<1> QED BY <1>1, <1>2, <1>3, <1>4 DEF Next

LEMMA HeldStep == TxInv /\ [Next]_vars => HeldWhileUsed'
<1> SUFFICES ASSUME TxInv, [Next]_vars PROVE HeldWhileUsed' OBVIOUS
<1> USE NoneAssumption DEF TxInv, TypeOK, HeldWhileUsed, HasConn, HasMutex, Thread, Idle, Goto
<1>1. CASE UNCHANGED vars BY <1>1 DEF vars
<1>2. CASE Crash BY <1>2 DEF Crash
<1>3. ASSUME NEW c \in Callers, Calls(c) PROVE HeldWhileUsed'
  BY <1>3 DEF Calls, CallStatement, CallWithTx
<1>4. ASSUME NEW c \in Callers, Progress(c) \/ Errors(c) PROVE HeldWhileUsed'
  <2>1. CASE StatementTakes(c) BY <2>1 DEF StatementTakes
  <2>2. CASE StatementRuns(c) BY <2>2 DEF StatementRuns
  <2>3. CASE StatementFails(c) BY <2>3 DEF StatementFails
  <2>4. CASE Lock(c) BY <2>4 DEF Lock
  <2>5. CASE BeginTx(c) BY <2>5 DEF BeginTx
  <2>6. CASE BeginFails(c) BY <2>6 DEF BeginFails
  <2>7. ASSUME NEW r \in Rows, FnExec(c, r) PROVE HeldWhileUsed'
    BY <2>7 DEF FnExec
  <2>8. CASE FnFails(c) BY <2>8 DEF FnFails
  <2>9. CASE Commit(c) BY <2>9 DEF Commit
  <2>10. CASE CommitFails(c) BY <2>10 DEF CommitFails
  <2>11. CASE Rollback(c) BY <2>11 DEF Rollback
  <2>12. CASE Unlock(c) BY <2>12 DEF Unlock
  <2> QED BY <1>4, <2>1, <2>2, <2>3, <2>4, <2>5, <2>6, <2>7, <2>8, <2>9,
             <2>10, <2>11, <2>12 DEF Progress, Errors
<1> QED BY <1>1, <1>2, <1>3, <1>4 DEF Next

LEMMA TodoStep == TxInv /\ [Next]_vars => TodoOK'
<1> SUFFICES ASSUME TxInv, [Next]_vars PROVE TodoOK' OBVIOUS
<1> USE DEF TxInv, TypeOK, TodoOK, Thread, Idle, Goto
<1>1. CASE UNCHANGED vars BY <1>1 DEF vars
<1>2. CASE Crash BY <1>2 DEF Crash
<1>3. ASSUME NEW c \in Callers, Calls(c) PROVE TodoOK'
  BY <1>3 DEF Calls, CallStatement, CallWithTx
<1>4. ASSUME NEW c \in Callers, Progress(c) \/ Errors(c) PROVE TodoOK'
  <2>1. CASE StatementTakes(c) BY <2>1 DEF StatementTakes
  <2>2. CASE StatementRuns(c) BY <2>2 DEF StatementRuns
  <2>3. CASE StatementFails(c) BY <2>3 DEF StatementFails
  <2>4. CASE Lock(c) BY <2>4 DEF Lock
  <2>5. CASE BeginTx(c) BY <2>5 DEF BeginTx
  <2>6. CASE BeginFails(c) BY <2>6 DEF BeginFails
  <2>7. ASSUME NEW r \in Rows, FnExec(c, r) PROVE TodoOK'
    BY <2>7 DEF FnExec
  <2>8. CASE FnFails(c) BY <2>8 DEF FnFails
  <2>9. CASE Commit(c) BY <2>9 DEF Commit
  <2>10. CASE CommitFails(c) BY <2>10 DEF CommitFails
  <2>11. CASE Rollback(c) BY <2>11 DEF Rollback
  <2>12. CASE Unlock(c) BY <2>12 DEF Unlock
  <2> QED BY <1>4, <2>1, <2>2, <2>3, <2>4, <2>5, <2>6, <2>7, <2>8, <2>9,
             <2>10, <2>11, <2>12 DEF Progress, Errors
<1> QED BY <1>1, <1>2, <1>3, <1>4 DEF Next

\* Only the holder of the connection writes the committed rows or the view,
\* and there is one.
LEMMA ViewStep == TxInv /\ [Next]_vars => ViewOK'
<1> DEFINE Goal(d) == view' = Atomic!Bumped(disk', thread'[d].rows \ thread'[d].todo)
<1> SUFFICES ASSUME TxInv, [Next]_vars, NEW d \in Callers, thread'[d].pc = "fn"
             PROVE  Goal(d)
  BY DEF ViewOK, Done
<1>0. thread[d].pc = "fn" => view = Atomic!Bumped(disk, thread[d].rows \ thread[d].todo)
  BY DEF TxInv, ViewOK, Done
<1> USE NoneAssumption, <1>0 DEF TxInv, TypeOK, HeldWhileUsed, HasConn, Thread, Idle, Goto
<1>1. CASE UNCHANGED vars BY <1>1 DEF vars
<1>2. CASE Crash BY <1>2 DEF Crash
<1>3. ASSUME NEW c \in Callers, Calls(c) PROVE Goal(d)
  <2>1. thread'[c].pc # "fn" BY <1>3 DEF Calls, CallStatement, CallWithTx
  <2>2. thread'[d] = thread[d] BY <1>3, <2>1 DEF Calls, CallStatement, CallWithTx
  <2>3. UNCHANGED <<disk, view>> BY <1>3 DEF Calls, CallStatement, CallWithTx
  <2> QED BY <2>2, <2>3
<1>4. ASSUME NEW c \in Callers, Progress(c) \/ Errors(c) PROVE Goal(d)
  <2>1. CASE StatementTakes(c) BY <2>1 DEF StatementTakes
  <2>2. CASE StatementRuns(c) BY <2>2 DEF StatementRuns
  <2>3. CASE StatementFails(c) BY <2>3 DEF StatementFails
  <2>4. CASE Lock(c) BY <2>4 DEF Lock
  <2>5. CASE BeginTx(c)
    <3>1. d = c BY <2>5 DEF BeginTx
    <3>2. thread'[c].rows = thread'[c].todo BY <2>5 DEF BeginTx, TodoOK
    <3>3. Atomic!Bumped(disk, {}) = disk BY BumpedNothing
    <3> QED BY <2>5, <3>1, <3>2, <3>3 DEF BeginTx
  <2>6. CASE BeginFails(c) BY <2>6 DEF BeginFails
  <2>7. ASSUME NEW r \in Rows, FnExec(c, r) PROVE Goal(d)
    <3> DEFINE done == thread[c].rows \ thread[c].todo
    <3>1. d = c BY <2>7 DEF FnExec
    <3>2. thread'[c].rows = thread[c].rows /\ thread'[c].todo = thread[c].todo \ {r}
      BY <2>7 DEF FnExec
    <3>3. thread'[c].rows \ thread'[c].todo = done \cup {r} /\ r \notin done
      BY <2>7, <3>2 DEF FnExec, TodoOK
    <3>4. disk \in [Rows -> Atomic!Version] OBVIOUS
    <3>5. Atomic!Bumped(Atomic!Bumped(disk, done), {r}) = Atomic!Bumped(disk, done \cup {r})
      <4> HIDE DEF done
      <4> QED BY ONLY <3>3, <3>4, BumpedOneMore
    <3>6. view = Atomic!Bumped(disk, done) BY <2>7, <3>1 DEF FnExec
    <3>7. view' = Atomic!Bumped(view, {r}) /\ disk' = disk BY <2>7 DEF FnExec
    <3> QED BY ONLY <3>1, <3>3, <3>5, <3>6, <3>7
  <2>8. CASE FnFails(c) BY <2>8 DEF FnFails
  <2>9. CASE Commit(c) BY <2>9 DEF Commit
  <2>10. CASE CommitFails(c) BY <2>10 DEF CommitFails
  <2>11. CASE Rollback(c) BY <2>11 DEF Rollback
  <2>12. CASE Unlock(c) BY <2>12 DEF Unlock
  <2> QED BY <1>4, <2>1, <2>2, <2>3, <2>4, <2>5, <2>6, <2>7, <2>8, <2>9,
             <2>10, <2>11, <2>12 DEF Progress, Errors
<1> QED BY <1>1, <1>2, <1>3, <1>4 DEF Next

LEMMA InvHolds == Spec => []TxInv
<1>1. TxInv /\ [Next]_vars => TxInv'
  BY TypeStep, HeldStep, TodoStep, ViewStep DEF TxInv
<1> QED BY InitHolds, <1>1, PTL DEF Spec

\* On every path through WithTx, errors included, the connection and the mutex
\* are held by the call that uses them and by no other.
THEOREM NothingLeaks == Spec => []HeldWhileUsed
BY InvHolds, PTL DEF TxInv

\* The holder of the connection can always go on.  While it is free, whoever waits
\* for it can, the holder of the mutex included; and while the mutex is free too,
\* whoever waits for that.
LEMMA HolderCanGoOn ==
  ASSUME TypeOK, HeldWhileUsed
  PROVE  SomeCallCanGoOn
<1> SUFFICES ASSUME NEW c \in Callers, thread[c].pc # "idle"
             PROVE  \E d \in Callers : CanGoOn(d)
  BY DEF SomeCallCanGoOn
<1>1. CASE conn # None
  <2>1. conn \in Callers BY <1>1 DEF TypeOK
  <2>2. HasConn(conn) BY <2>1 DEF HeldWhileUsed
  <2>3. CanGoOn(conn) BY <2>2 DEF HasConn, CanGoOn
  <2> QED BY <2>1, <2>3
<1>2. CASE conn = None /\ mu # None
  <2>1. mu \in Callers BY <1>2 DEF TypeOK
  <2>2. HasMutex(mu) BY <2>1 DEF HeldWhileUsed
  <2>3. CanGoOn(mu) BY <1>2, <2>2 DEF HasMutex, CanGoOn
  <2> QED BY <2>1, <2>3
<1>3. CASE conn = None /\ mu = None
  <2>1. thread[c].pc \in Places BY DEF TypeOK, Thread
  <2>2. CanGoOn(c) BY <1>3, <2>1 DEF Places, CanGoOn
  <2> QED BY <2>2
<1> QED BY <1>1, <1>2, <1>3

\* The calls of the store never all wait for each other, however many there are.
THEOREM StoreIsNeverStuck == Spec => []SomeCallCanGoOn
<1>1. TxInv => SomeCallCanGoOn BY HolderCanGoOn DEF TxInv
<1> QED BY InvHolds, <1>1, PTL

-----------------------------------------------------------------------------

LEMMA InitAbstract == Init => Atomic!Init
BY DEF Init, Atomic!Init, Writes, Idle

\* A step of a call that leaves the committed rows alone, and either the rows
\* it is to write as well, or takes them all back.
LEMMA QuietStep ==
  ASSUME TypeOK, NEW c \in Callers, UNCHANGED disk,
         NEW t \in Thread, thread' = [thread EXCEPT ![c] = t],
         t.rows \in {thread[c].rows, {}}
  PROVE  UNCHANGED <<disk, Writes>> \/ Atomic!Refuse(c)
<1>1. CASE t.rows = thread[c].rows
  <2>1. Writes' = Writes BY <1>1 DEF Writes, TypeOK, Thread
  <2> QED BY <2>1
<1>2. CASE t.rows = {}
  <2>1. Writes' = [Writes EXCEPT ![c] = {}] BY <1>2 DEF Writes, TypeOK, Thread
  <2> QED BY <2>1 DEF Atomic!Refuse
<1> QED BY <1>1, <1>2

\* The two steps that write the committed rows write all rows of their call.
LEMMA RunAbstract ==
  ASSUME TxInv, NEW c \in Callers, StatementRuns(c)
  PROVE  Atomic!Apply(c)
<1>1. Writes' = [Writes EXCEPT ![c] = {}]
  BY DEF StatementRuns, Writes, Idle, TxInv, TypeOK, Thread
<1>2. Writes[c] = thread[c].rows BY DEF Writes
<1> QED BY <1>1, <1>2 DEF StatementRuns, Atomic!Apply

LEMMA CommitAbstract ==
  ASSUME TxInv, NEW c \in Callers, Commit(c)
  PROVE  Atomic!Apply(c)
<1>1. Writes' = [Writes EXCEPT ![c] = {}]
  BY DEF Commit, Writes, Idle, TxInv, TypeOK, Thread
<1>2. Writes[c] = thread[c].rows BY DEF Writes
<1>3. Done(c) = thread[c].rows BY DEF Commit, Done
<1>4. view = Atomic!Bumped(disk, thread[c].rows)
  BY <1>3 DEF Commit, TxInv, ViewOK
<1> QED BY <1>1, <1>2, <1>4 DEF Commit, Atomic!Apply

LEMMA CallAbstract ==
  ASSUME TxInv, NEW c \in Callers, Calls(c)
  PROVE  \E rows \in SUBSET Rows : Atomic!Call(c, rows)
<1>0. Writes[c] = thread[c].rows BY DEF Writes
<1>1. ASSUME NEW rows \in SUBSET Rows, UNCHANGED disk, NEW t \in Thread,
             thread[c].pc = "idle", t.rows = rows,
             thread' = [thread EXCEPT ![c] = t]
      PROVE  Atomic!Call(c, rows)
  <2>1. Writes' = [Writes EXCEPT ![c] = rows]
    BY <1>1 DEF Writes, TxInv, TypeOK, Thread
  <2>2. Writes[c] = {} BY <1>0, <1>1 DEF TxInv, TodoOK
  <2> QED BY <1>1, <2>1, <2>2 DEF Atomic!Call
<1>2. ASSUME NEW r \in Rows, CallStatement(c, r)
      PROVE  Atomic!Call(c, {r})
  <2>1. [pc |-> "wait", rows |-> {r}, todo |-> {}] \in Thread BY DEF Thread, Places
  <2> QED BY <1>1, <1>2, <2>1 DEF CallStatement
<1>3. ASSUME NEW rows \in SUBSET Rows, CallWithTx(c, rows)
      PROVE  Atomic!Call(c, rows)
  <2>1. [pc |-> "lock", rows |-> rows, todo |-> rows] \in Thread BY DEF Thread, Places
  <2> QED BY <1>1, <1>3, <2>1 DEF CallWithTx
<1> QED BY <1>2, <1>3 DEF Calls

LEMMA StepAbstract ==
  ASSUME TxInv, NEW c \in Callers, Progress(c) \/ Errors(c)
  PROVE  UNCHANGED <<disk, Writes>> \/ Atomic!Apply(c) \/ Atomic!Refuse(c)
<1> DEFINE At(pc) == [thread[c] EXCEPT !.pc = pc]
<1>0. /\ TypeOK /\ Idle \in Thread /\ Idle.rows = {}
      /\ \A pc \in Places : At(pc) \in Thread /\ At(pc).rows = thread[c].rows
  BY DEF TxInv, TypeOK, Thread, Idle, Places
<1>1. ASSUME NEW pc \in Places, Goto(c, pc), UNCHANGED disk
      PROVE  UNCHANGED <<disk, Writes>> \/ Atomic!Refuse(c)
  <2>1. thread' = [thread EXCEPT ![c] = At(pc)] BY <1>1 DEF Goto, TxInv, TypeOK, Thread
  <2> HIDE DEF At
  <2> QED BY <1>0, <1>1, <2>1, QuietStep
<1>2. ASSUME thread' = [thread EXCEPT ![c] = Idle], UNCHANGED disk
      PROVE  UNCHANGED <<disk, Writes>> \/ Atomic!Refuse(c)
  BY <1>0, <1>2, QuietStep
<1>3. CASE StatementTakes(c) BY <1>3, <1>1 DEF StatementTakes, Places
<1>4. CASE StatementRuns(c) BY <1>4, RunAbstract
<1>5. CASE StatementFails(c) BY <1>5, <1>2 DEF StatementFails
<1>6. CASE Lock(c) BY <1>6, <1>1 DEF Lock, Places
<1>7. CASE BeginTx(c) BY <1>7, <1>1 DEF BeginTx, Places
<1>8. CASE BeginFails(c) BY <1>8, <1>1 DEF BeginFails, Places
<1>9. ASSUME NEW r \in Rows, FnExec(c, r)
      PROVE  UNCHANGED <<disk, Writes>> \/ Atomic!Refuse(c)
  <2> DEFINE t == [thread[c] EXCEPT !.todo = @ \ {r}]
  <2>1. t \in Thread /\ t.rows = thread[c].rows BY DEF TxInv, TypeOK, Thread
  <2>2. thread' = [thread EXCEPT ![c] = t] BY <1>9 DEF FnExec, TxInv, TypeOK, Thread
  <2>3. UNCHANGED disk BY <1>9 DEF FnExec
  <2> HIDE DEF t
  <2> QED BY <1>0, <2>1, <2>2, <2>3, QuietStep
<1>10. CASE FnFails(c) BY <1>10, <1>1 DEF FnFails, Places
<1>11. CASE Commit(c) BY <1>11, CommitAbstract
<1>12. CASE CommitFails(c) BY <1>12, <1>1 DEF CommitFails, Places
<1>13. CASE Rollback(c) BY <1>13, <1>1 DEF Rollback, Places
<1>14. CASE Unlock(c) BY <1>14, <1>2 DEF Unlock
<1> QED BY <1>3, <1>4, <1>5, <1>6, <1>7, <1>8, <1>9, <1>10, <1>11, <1>12,
           <1>13, <1>14 DEF Progress, Errors

\* Whatever runs beside it, fails, or stops the process, a call to the store
\* takes effect in one step or not at all.
THEOREM StoreIsAtomic == Spec => CallsAreAtomic
<1>1. TxInv /\ [Next]_vars => [Atomic!Next]_(<<disk, Writes>>)
  <2> SUFFICES ASSUME TxInv, [Next]_vars
               PROVE  Atomic!Next \/ UNCHANGED <<disk, Writes>>
    OBVIOUS
  <2>1. CASE UNCHANGED vars BY <2>1 DEF vars, Writes
  <2>2. CASE Crash BY <2>2 DEF Crash, Atomic!Next, Atomic!Crash, Writes, Idle
  <2>3. ASSUME NEW c \in Callers, Calls(c) PROVE Atomic!Next
    BY <2>3, CallAbstract DEF Atomic!Next
  <2>4. ASSUME NEW c \in Callers, Progress(c) \/ Errors(c)
        PROVE  Atomic!Next \/ UNCHANGED <<disk, Writes>>
    BY <2>4, StepAbstract DEF Atomic!Next
  <2> QED BY <2>1, <2>2, <2>3, <2>4 DEF Next
<1> QED BY InitAbstract, InvHolds, <1>1, PTL DEF Spec, CallsAreAtomic, Atomic!Spec

=============================================================================
