------------------------- MODULE TaskProgressProofs -------------------------
(***************************************************************************)
(* Proofs of what makes every call of TaskService end, as far as it is a   *)
(* matter of safety: sessions never wait for each other in a circle, and   *)
(* every statement brings a call nearer to its end.  For any number of     *)
(* sessions, users, tasks, keys and calls.                                 *)
(***************************************************************************)
EXTENDS TaskServiceProofs

-----------------------------------------------------------------------------
(* Waiting *)

\* A session that waits for a row has its key or its request already, and
\* nobody waits for a row of its own.
LEMMA WaitersWrite ==
    ASSUME Inv, NEW t \in Tx, NEW u \in Tx, NEW v \in Tx, WaitsFor(t, u), WaitsFor(u, v)
    PROVE  tx[u].pc = "write" /\ tx[v].row = tx[u].task
  <1>1. tx[u].pc \in {"insert", "transition", "write"}
    BY DEF WaitsFor
  <1>2. SessionOK(tx[u]) /\ tx[t].pc # "idle" /\ SessionOK(tx[t])
    BY <1>1 DEF Inv, WaitsFor
  <1>3. CASE Inserted(tx[u])
    BY <1>1, <1>3 DEF WaitsFor, Inserted, InsertedPC
  <1>4. CASE tx[u].verdict # "none"
    BY <1>1, <1>2, <1>4 DEF WaitsFor, SessionOK, VerdictOK
  <1>5. CASE tx[t].pc = "write" /\ tx[u].row = tx[t].task
    BY <1>1, <1>2, <1>5, NoneAssumption DEF SessionOK, PlaceOK, RowOK
  <1> QED
    BY <1>3, <1>4, <1>5 DEF WaitsFor

\* Who holds a row has only its COMMIT left.
LEMMA HoldersCommit ==
    ASSUME Inv, NEW u \in Tx, NEW v \in Tx, tx[u].pc = "write", tx[v].row = tx[u].task
    PROVE  tx[v].pc = "commit"
  <1>1. tx[v].row # None
    BY NoneAssumption DEF Inv, SessionOK, PlaceOK
  <1> QED
    BY <1>1 DEF Inv, IdleOK, SessionOK, RowOK

\* No deadlock: keys and requests are taken before rows, and only commits
\* follow a row (services/tasks.py, each call one transaction).
THEOREM DeadlockFreedom == Spec => []NoDeadlock
  <1>1. Inv => NoDeadlock
    BY WaitersWrite, HoldersCommit DEF NoDeadlock
  <1> QED
    BY <1>1, Invariance, PTL

-----------------------------------------------------------------------------
(* Advancing *)

\* An ended call has no statement left, a running one has some.
LEMMA EndAdvances ==
    ASSUME Inv, NEW t \in Tx, tx[t].pc # "idle"
    PROVE  /\ StatementsLeft("idle") = 0
           /\ StatementsLeft(tx[t].pc) \in Nat \ {0}
  <1>1. tx[t].pc \in PC
    BY DEF Inv, TypeOK, Transaction
  <1> QED
    BY <1>1 DEF StatementsLeft, PC

\* Only the session that takes a step changes.
LEMMA OneSession ==
    ASSUME Inv, NEW t \in Tx, NEW u \in Tx, Step(t) \/ Rollback(t), tx'[u] # tx[u]
    PROVE  t = u
  <1>1. tx \in [Tx -> Transaction]
    BY DEF Inv, TypeOK
  <1>2. CASE Lookup(t) \/ Replay(t) \/ CreateReceived(t) \/ CreateTask(t) \/ Search(t)
    BY <1>1, <1>2 DEF Lookup, Replay, CreateReceived, CreateTask, Search, DuplicateDeletion,
                      DuplicateCommand, Goto, Conclude, Raise, Finish
  <1>3. CASE \/ SelectToComplete(t) \/ SelectToUpdate(t) \/ ReselectToUpdate(t)
             \/ SelectToDelete(t) \/ WriteTask(t)
    BY <1>1, <1>3 DEF SelectToComplete, SelectToUpdate, ReselectToUpdate, SelectToDelete,
                      WriteTask, Goto, Conclude, Raise, Finish
  <1>4. CASE ReadRequest(t) \/ ReadExecution(t) \/ TransitionPending(t) \/ SelectConfirmed(t)
    BY <1>1, <1>4 DEF ReadRequest, ReadExecution, TransitionPending, SelectConfirmed, Conclude,
                      Finish
  <1>5. CASE CommitCommand(t) \/ CommitDecision(t) \/ Rollback(t)
    BY <1>1, <1>5 DEF CommitCommand, CommitDecision, Rollback, Raise, Finish
  <1> QED
    BY <1>2, <1>3, <1>4, <1>5 DEF Step

\* Where each statement leaves its session.
LEMMA NextPlace ==
    ASSUME Inv, NEW t \in Tx, Step(t) \/ Rollback(t)
    PROVE  LET from == tx[t].pc
               to == tx'[t].pc IN
           \/ from # "idle" /\ to = "idle"
           \/ from = "lookup" /\ to \in {"insert", "replay"}
           \/ from = "insert" /\ to \in {"create", "search", "select"}
           \/ from \in {"create", "search", "select", "reselect", "write", "delete"} /\ to = "commit"
           \/ from = "search" /\ to = "select"
           \/ from = "select" /\ to \in {"reselect", "write"}
           \/ from \in {"reselect", "delete"} /\ to = "write"
           \/ from = "request" /\ to = "execution"
           \/ from = "execution" /\ to = "transition"
           \/ from = "transition" /\ to \in {"delete", "commit"}
  <1>1. tx \in [Tx -> Transaction] /\ NoTransaction.pc = "idle"
    BY DEF Inv, TypeOK, NoTransaction
  <1>2. ASSUME NEW status, NEW error, NEW effect, Finish(t, status, error, effect)
        PROVE  tx'[t].pc = "idle"
    BY <1>1, <1>2 DEF Finish
  <1>3. ASSUME NEW pc, Goto(t, pc) PROVE tx'[t].pc = pc
    BY <1>1, <1>3 DEF Goto, Transaction
  <1>4. ASSUME NEW outcome, Conclude(t, outcome) PROVE tx'[t].pc = "commit"
    BY <1>1, <1>4 DEF Conclude, Transaction
  <1>5. CASE Lookup(t)
    BY <1>2, <1>3, <1>5 DEF Lookup, DuplicateDeletion, DuplicateCommand
  <1>6. CASE Replay(t)
    BY <1>2, <1>6 DEF Replay, Raise
  <1>7. CASE CreateReceived(t)
    BY <1>1, <1>2, <1>7 DEF CreateReceived, Raise, Transaction
  <1>8. CASE CreateTask(t)
    BY <1>1, <1>8 DEF CreateTask, Transaction
  <1>9. CASE Search(t)
    BY <1>1, <1>4, <1>9 DEF Search, Transaction
  <1>10. CASE SelectToComplete(t) \/ SelectToUpdate(t)
    BY <1>1, <1>3, <1>4, <1>10 DEF SelectToComplete, SelectToUpdate, Transaction
  <1>11. CASE ReselectToUpdate(t) \/ SelectToDelete(t)
    BY <1>1, <1>4, <1>11 DEF ReselectToUpdate, SelectToDelete, Transaction
  <1>12. CASE WriteTask(t)
    BY <1>1, <1>2, <1>3, <1>12 DEF WriteTask, Raise, Transaction
  <1>13. CASE ReadRequest(t) \/ ReadExecution(t)
    BY <1>1, <1>2, <1>13 DEF ReadRequest, ReadExecution, Transaction
  <1>14. CASE TransitionPending(t)
    BY <1>1, <1>2, <1>14 DEF TransitionPending, Transaction
  <1>15. CASE SelectConfirmed(t)
    BY <1>1, <1>4, <1>15 DEF SelectConfirmed, Transaction
  <1>16. CASE CommitCommand(t) \/ CommitDecision(t) \/ Rollback(t)
    BY <1>2, <1>16 DEF CommitCommand, CommitDecision, Rollback, Raise
  <1> QED
    BY <1>5, <1>6, <1>7, <1>8, <1>9, <1>10, <1>11, <1>12, <1>13, <1>14, <1>15, <1>16 DEF Step

\* One step of EveryStatementAdvances.
Advances ==
    \A t \in Tx : tx'[t] # tx[t] /\ tx[t].pc # "idle"
        => StatementsLeft(tx'[t].pc) < StatementsLeft(tx[t].pc)

\* A call makes at most seven statements, its COMMIT included,
\* whatever other sessions commit in between: nothing in services/tasks.py
\* retries.
THEOREM Advance == Spec => EveryStatementAdvances
  <1>1. ASSUME Inv, [Next]_vars, NEW t \in Tx, tx'[t] # tx[t], tx[t].pc # "idle"
        PROVE  StatementsLeft(tx'[t].pc) < StatementsLeft(tx[t].pc)
    <2>1. Step(t) \/ Rollback(t)
      <3>1. CASE Tick \/ UNCHANGED vars
        BY <1>1, <3>1 DEF Tick, vars
      <3>2. ASSUME NEW u \in Tx, NEW c \in Call, Begin(u, c) PROVE FALSE
        BY <1>1, <3>2 DEF Begin, Inv, TypeOK
      <3>3. ASSUME NEW u \in Tx, Step(u) \/ Rollback(u) PROVE Step(t) \/ Rollback(t)
        BY <1>1, <3>3, OneSession
      <3> QED
        BY <1>1, <3>1, <3>2, <3>3 DEF Next
    <2>2. CASE tx'[t].pc = "idle"
      BY <1>1, <2>2, EndAdvances
    <2>3. CASE tx'[t].pc # "idle"
      BY <1>1, <2>1, <2>3, NextPlace DEF StatementsLeft
    <2> QED
      BY <2>2, <2>3
  <1>2. Inv /\ [Next]_vars => [Advances]_vars
    BY <1>1 DEF Advances
  <1>3. EveryStatementAdvances <=> [][Advances]_vars
    BY DEF EveryStatementAdvances, Advances
  <1> QED
    BY <1>2, <1>3, Invariance, PTL DEF Spec
=============================================================================
