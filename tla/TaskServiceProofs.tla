------------------------- MODULE TaskServiceProofs -------------------------
(***************************************************************************)
(* Proofs about TaskService for every set of users, tasks, keys, sessions  *)
(* and calls.                                                              *)
(***************************************************************************)
EXTENDS TaskService, TLAPS

-----------------------------------------------------------------------------
(* Types *)

LEMMA OutcomeType ==
    ASSUME NEW s \in ExecutionStatus, NEW e \in Effect, NEW c \in ErrorCode,
           NEW x \in TaskId \cup {None}
    PROVE  Outcome(s, e, c, x) \in Execution
  BY DEF Outcome, Execution

LEMMA AnswerEffectType ==
    ASSUME NEW c, NEW status, NEW effect \in Effect
    PROVE  AnswerEffect(c, status, effect) \in Effect
  BY DEF AnswerEffect, Effect

LEMMA NoTransactionType == NoTransaction \in Transaction
  BY DEF NoTransaction, Transaction, PC, NoExecution, Execution, ExecutionStatus, Effect,
         ErrorCode, RequestStatus

\* What a running session's call looks like.
LEMMA CallFields ==
    ASSUME TypeOK, NEW t \in Tx, tx[t].pc # "idle"
    PROVE  /\ tx[t] \in Transaction
           /\ tx[t].call \in Call /\ tx[t].call \in CallType
           /\ tx[t].call.key \in Key /\ tx[t].call.user \in User
           /\ tx[t].call.op \in Op
           /\ tx[t].call.task \in TaskId \cup {None}
           /\ tx[t].call.title \in Title \cup {None}
           /\ tx[t].call.op \in {"create", "update"} => tx[t].call.title \in Title
  BY CallAssumption DEF TypeOK, CallType

\* An answer names a task of the system, or none.
LEMMA AnswerTaskType ==
    ASSUME TypeOK, NEW t \in Tx, tx[t].pc # "idle", NEW status
    PROVE  AnswerTask(tx[t], status) \in TaskId \cup {None}
  <1>1. tx[t].outcome.task \in TaskId \cup {None}
    BY DEF TypeOK, Transaction, Execution
  <1>2. executions[tx[t].call.key].task \in TaskId \cup {None}
    BY CallFields DEF TypeOK, Execution
  <1> QED
    BY <1>1, <1>2 DEF AnswerTask

-----------------------------------------------------------------------------
(* The three ways a session's private step changes the state *)

\* A session at another statement, committing nothing.
LEMMA SessionStep ==
    ASSUME Inv, NEW t \in Tx, NEW s \in Transaction, s.call \in Call, s.pc # "idle",
           tx' = [tx EXCEPT ![t] = s], reply' \in [Tx -> Reply],
           UNCHANGED <<tasks, executions, requests, clock>>,
           SessionOK(s),
           \A u \in Tx \ {t} :
              /\ s.row # None => s.row # tx[u].row
              /\ Inserted(s) /\ Inserted(tx[u]) => s.call.key # tx[u].call.key
              /\ s.verdict # "none" /\ tx[u].verdict # "none" => s.call.key # tx[u].call.key
    PROVE  Inv'
  <1>1. TypeOK'
    BY DEF Inv, TypeOK
  <1>2. LocksExclude'
    BY DEF Inv, LocksExclude, TypeOK, Inserted
  <1>3. (RequestsOK /\ RequestAndExecutionAgree /\ DecidedInTime /\ EffectsAreTrue
          /\ EveryDeletionWasConfirmed)'
    BY DEF Inv, RequestsOK, RequestAndExecutionAgree, DecidedInTime, EffectsAreTrue,
           EveryDeletionWasConfirmed
  <1>4. ASSUME NEW u \in Tx
        PROVE  IF tx'[u].pc = "idle" THEN IdleOK(tx[u])' ELSE SessionOK(tx[u])'
    <2>1. CASE u = t
      <3>1. tx'[u] = s
        BY <2>1 DEF Inv, TypeOK
      <3> QED
        BY <3>1 DEF SessionOK, PlaceOK, KeyOK, VerdictOK, RowOK, OutcomeOK, WriteOutcome,
                    DecisionOutcome, CommandOutcome, Live, Inserted
    <2>2. CASE u # t
      <3>1. tx'[u] = tx[u]
        BY <2>2 DEF Inv, TypeOK
      <3> QED
        BY <3>1 DEF Inv, IdleOK, SessionOK, PlaceOK, KeyOK, VerdictOK, RowOK, OutcomeOK,
                    WriteOutcome, DecisionOutcome, CommandOutcome, Live, Inserted
    <2> QED
      BY <2>1, <2>2
  <1> QED
    BY <1>1, <1>2, <1>3, <1>4 DEF Inv

LEMMA PrivateStep ==
    ASSUME Inv, NEW t \in Tx, NEW s \in Transaction, s.call \in Call, s.pc # "idle",
           tx' = [tx EXCEPT ![t] = s],
           UNCHANGED <<tasks, executions, requests, reply, clock>>,
           SessionOK(s),
           \A u \in Tx \ {t} :
              /\ s.row # None => s.row # tx[u].row
              /\ Inserted(s) /\ Inserted(tx[u]) => s.call.key # tx[u].call.key
              /\ s.verdict # "none" /\ tx[u].verdict # "none" => s.call.key # tx[u].call.key
    PROVE  Inv'
  <1>1. reply' \in [Tx -> Reply]
    BY DEF Inv, TypeOK
  <1> QED
    BY <1>1, SessionStep

\* An answer without a commit.
LEMMA AnswerStep ==
    ASSUME Inv, NEW t \in Tx, tx[t].pc # "idle",
           NEW status \in {"none", "raised", "duplicate"} \cup ExecutionStatus,
           NEW error \in ErrorCode, NEW effect \in Effect,
           Finish(t, status, error, effect),
           UNCHANGED <<tasks, executions, requests, clock>>
    PROVE  Inv'
  <1>1. tx' = [tx EXCEPT ![t] = NoTransaction]
    BY DEF Finish
  <1>2. [call |-> tx[t].call, error |-> error, status |-> status,
         effect |-> AnswerEffect(tx[t].call, status, effect),
         task |-> AnswerTask(tx[t], status)] \in Reply
    BY AnswerEffectType, AnswerTaskType DEF Inv, TypeOK, Reply
  <1>3. TypeOK'
    BY <1>1, <1>2, NoTransactionType DEF Inv, TypeOK, Finish, NoTransaction
  <1>4. LocksExclude'
    BY <1>1 DEF Inv, LocksExclude, TypeOK, Inserted, NoTransaction, InsertedPC
  <1>5. (RequestsOK /\ RequestAndExecutionAgree /\ DecidedInTime /\ EffectsAreTrue
          /\ EveryDeletionWasConfirmed)'
    BY DEF Inv, RequestsOK, RequestAndExecutionAgree, DecidedInTime, EffectsAreTrue,
           EveryDeletionWasConfirmed
  <1>6. ASSUME NEW u \in Tx
        PROVE  IF tx'[u].pc = "idle" THEN IdleOK(tx[u])' ELSE SessionOK(tx[u])'
    <2>1. CASE u = t
      BY <1>1, <2>1 DEF Inv, TypeOK, NoTransaction, IdleOK
    <2>2. CASE u # t
      <3>1. tx'[u] = tx[u]
        BY <1>1, <2>2 DEF Inv, TypeOK
      <3> QED
        BY <3>1 DEF Inv, IdleOK, SessionOK, PlaceOK, KeyOK, VerdictOK, RowOK, OutcomeOK,
                    WriteOutcome, DecisionOutcome, CommandOutcome, Live, Inserted
    <2> QED
      BY <2>1, <2>2
  <1> QED
    BY <1>3, <1>4, <1>5, <1>6 DEF Inv

\* A private step that takes no lock.
LEMMA MoveStep ==
    ASSUME Inv, NEW t \in Tx, tx[t].pc # "idle",
           NEW s \in Transaction, s.pc # "idle", s.call = tx[t].call,
           s.row = tx[t].row, s.verdict = tx[t].verdict, Inserted(s) => Inserted(tx[t]),
           tx' = [tx EXCEPT ![t] = s],
           UNCHANGED <<tasks, executions, requests, reply, clock>>,
           SessionOK(s)
    PROVE  Inv'
  <1>1. s.call \in Call
    BY CallFields DEF Inv
  <1>2. \A u \in Tx \ {t} :
              /\ s.row # None => s.row # tx[u].row
              /\ Inserted(s) /\ Inserted(tx[u]) => s.call.key # tx[u].call.key
              /\ s.verdict # "none" /\ tx[u].verdict # "none" => s.call.key # tx[u].call.key
    BY DEF Inv, LocksExclude
  <1> QED
    BY <1>1, <1>2, PrivateStep

\* A step that only moves the program counter.
LEMMA GotoStep ==
    ASSUME Inv, NEW t \in Tx, tx[t].pc # "idle", NEW pc \in PC \ {"idle"}, Goto(t, pc),
           UNCHANGED clock,
           pc \in InsertedPC /\ tx[t].call.op # "resolve" => tx[t].pc \in InsertedPC,
           SessionOK([tx[t] EXCEPT !.pc = pc])
    PROVE  Inv'
  <1> DEFINE s == [tx[t] EXCEPT !.pc = pc]
  <1>1. tx[t] \in Transaction
    BY DEF Inv, TypeOK
  <1>2. s \in Transaction /\ s.pc = pc /\ s.call = tx[t].call /\ s.row = tx[t].row
          /\ s.verdict = tx[t].verdict
    BY <1>1 DEF Transaction
  <1>3. Inserted(s) => Inserted(tx[t])
    BY <1>2 DEF Inserted
  <1>4. tx' = [tx EXCEPT ![t] = s] /\ UNCHANGED <<tasks, executions, requests, reply>>
    BY DEF Goto, committed
  <1> HIDE DEF s
  <1> QED
    BY <1>2, <1>3, <1>4, MoveStep DEF s

\* A step that fixes the outcome: the session commits, or writes its row, next.
LEMMA OutcomeStep ==
    ASSUME Inv, NEW t \in Tx, tx[t].pc # "idle", NEW pc \in {"write", "commit"},
           NEW o \in Execution, NEW n \in Nat,
           tx[t].call.op # "resolve" => tx[t].pc \in InsertedPC,
           tx' = [tx EXCEPT ![t] = [tx[t] EXCEPT !.pc = pc, !.now = n, !.outcome = o]],
           UNCHANGED <<committed, reply, clock>>,
           SessionOK([tx[t] EXCEPT !.pc = pc, !.now = n, !.outcome = o])
    PROVE  Inv'
  <1> DEFINE s == [tx[t] EXCEPT !.pc = pc, !.now = n, !.outcome = o]
  <1>1. tx[t] \in Transaction
    BY DEF Inv, TypeOK
  <1>2. s \in Transaction /\ s.pc = pc /\ s.call = tx[t].call /\ s.row = tx[t].row
          /\ s.verdict = tx[t].verdict
    BY <1>1 DEF Transaction, PC
  <1>3. Inserted(s) => Inserted(tx[t])
    BY <1>2 DEF Inserted
  <1> HIDE DEF s
  <1> QED
    BY <1>2, <1>3, MoveStep DEF s, committed

-----------------------------------------------------------------------------
(* One lemma per action: it keeps the invariant *)

LEMMA LookupInv ==
    ASSUME Inv, NEW t \in Tx, Lookup(t)
    PROVE  Inv'
  <1> DEFINE e == executions[tx[t].call.key]
  <1>1. tx[t].pc = "lookup" /\ UNCHANGED clock
    BY DEF Lookup
  <1>2. e \in Execution /\ tx[t].call.op \in Op /\ tx[t] \in Transaction
    BY <1>1, CallFields DEF Inv, TypeOK
  <1>3. SessionOK(tx[t])
    BY <1>1 DEF Inv
  <1>4. CASE Goto(t, "insert")
    <2>1. SessionOK([tx[t] EXCEPT !.pc = "insert"])
      BY <1>1, <1>2, <1>3 DEF SessionOK, PlaceOK, KeyOK, VerdictOK, RowOK, OutcomeOK, Inserted,
                              InsertedPC, Transaction
    <2> QED
      BY <1>1, <1>4, <2>1, GotoStep DEF PC, InsertedPC
  <1>5. CASE Goto(t, "replay")
    <2>1. SessionOK([tx[t] EXCEPT !.pc = "replay"])
      BY <1>1, <1>2, <1>3 DEF SessionOK, PlaceOK, KeyOK, VerdictOK, RowOK, OutcomeOK, Inserted,
                              InsertedPC, Transaction
    <2> QED
      BY <1>1, <1>5, <2>1, GotoStep DEF PC, InsertedPC
  <1>6. CASE (DuplicateDeletion(t, e) \/ DuplicateCommand(t, e)) /\ UNCHANGED committed
    <2>1. \E status \in {"none", "raised", "duplicate"} \cup ExecutionStatus,
             error \in ErrorCode, effect \in Effect : Finish(t, status, error, effect)
      BY <1>2, <1>6 DEF DuplicateDeletion, DuplicateCommand, Execution, ExecutionStatus, ErrorCode, Effect
    <2> QED
      BY <1>1, <1>6, <2>1, AnswerStep DEF committed
  <1> QED
    BY <1>4, <1>5, <1>6 DEF Lookup

LEMMA ReplayInv ==
    ASSUME Inv, NEW t \in Tx, Replay(t)
    PROVE  Inv'
  <1>1. tx[t].pc # "idle" /\ executions[tx[t].call.key].effect \in Effect
    BY CallFields DEF Replay, Inv, TypeOK, Execution
  <1>2. \E status \in {"none", "raised", "duplicate"} \cup ExecutionStatus,
           error \in ErrorCode, effect \in Effect : Finish(t, status, error, effect)
    BY <1>1 DEF Replay, Raise, ErrorCode, Effect
  <1> QED
    BY <1>1, <1>2, AnswerStep DEF Replay, Raise, committed

LEMMA CreateReceivedInv ==
    ASSUME Inv, NEW t \in Tx, CreateReceived(t)
    PROVE  Inv'
  <1> DEFINE c == tx[t].call
             pc == IF c.op = "create" THEN "create" ELSE IF c.task = None THEN "search" ELSE "select"
             s == [tx[t] EXCEPT !.task = c.task, !.pc = pc]
  <1>1. tx[t].pc = "insert" /\ ~KeyLocked(c.key) /\ UNCHANGED clock
    BY DEF CreateReceived
  <1>2. tx[t] \in Transaction /\ c \in Call /\ c.op \in Op /\ c.task \in TaskId \cup {None}
    BY <1>1, CallFields DEF Inv
  <1>3. SessionOK(tx[t])
    BY <1>1 DEF Inv
  <1>4. CASE Raise(t)
    BY <1>1, <1>4, AnswerStep DEF Raise, committed, ErrorCode, Effect
  <1>5. CASE executions[c.key].status = "none" /\ tx' = [tx EXCEPT ![t] = s]
             /\ UNCHANGED <<committed, reply>>
    <2>1. s \in Transaction /\ s.call = c /\ s.pc = pc /\ s.row = tx[t].row
            /\ s.verdict = tx[t].verdict /\ s.task = c.task
      BY <1>2 DEF Transaction, PC
    <2>2. s.row = None /\ s.verdict = "none" /\ c.op # "resolve"
      BY <1>1, <1>3, <2>1 DEF SessionOK, PlaceOK, VerdictOK, RowOK
    <2>3. SessionOK(s)
      BY <1>2, <1>5, <2>1, <2>2
         DEF SessionOK, PlaceOK, KeyOK, VerdictOK, RowOK, OutcomeOK, Inserted, InsertedPC, Op
    <2>4. \A u \in Tx \ {t} : Inserted(tx[u]) => s.call.key # tx[u].call.key
      BY <1>1, <2>1 DEF KeyLocked
    <2> HIDE DEF s
    <2> QED
      BY <1>1, <1>2, <1>5, <2>1, <2>2, <2>3, <2>4, PrivateStep DEF committed
  <1> QED
    BY <1>4, <1>5 DEF CreateReceived

LEMMA CreateTaskInv ==
    ASSUME Inv, NEW t \in Tx, CreateTask(t)
    PROVE  Inv'
  <1>1. tx[t].pc = "create"
    BY DEF CreateTask
  <1>2. PICK x \in TaskId :
          /\ tasks[x].status = "free" /\ ~RowLocked(x)
          /\ tx' = [tx EXCEPT ![t] = [tx[t] EXCEPT !.pc = "commit", !.task = x, !.row = x,
                      !.outcome = Outcome("executed", "task_created", "none", x)]]
    BY DEF CreateTask
  <1> DEFINE s == [tx[t] EXCEPT !.pc = "commit", !.task = x, !.row = x,
                      !.outcome = Outcome("executed", "task_created", "none", x)]
  <1>3. tx[t] \in Transaction /\ tx[t].call \in Call /\ SessionOK(tx[t])
    BY <1>1, CallFields DEF Inv
  <1>4. Outcome("executed", "task_created", "none", x) \in Execution
    BY OutcomeType DEF ExecutionStatus, Effect, ErrorCode
  <1>5. s \in Transaction /\ s.pc = "commit" /\ s.call = tx[t].call /\ s.row = x /\ s.task = x
          /\ s.verdict = tx[t].verdict /\ s.outcome = Outcome("executed", "task_created", "none", x)
    BY <1>3, <1>4 DEF Transaction, PC
  <1>6. x # None
    BY NoneAssumption
  <1>7. SessionOK(s)
    BY <1>1, <1>2, <1>3, <1>5, <1>6
       DEF SessionOK, PlaceOK, KeyOK, VerdictOK, RowOK, OutcomeOK, CommandOutcome, Inserted,
           InsertedPC, Outcome
  <1>8. \A u \in Tx \ {t} : /\ s.row # tx[u].row
                            /\ Inserted(tx[u]) => s.call.key # tx[u].call.key
    BY <1>1, <1>2, <1>3, <1>5 DEF RowLocked, Inv, LocksExclude, Inserted, InsertedPC, SessionOK, PlaceOK
  <1>9. s.verdict = "none"
    BY <1>1, <1>3, <1>5 DEF SessionOK, VerdictOK
  <1> HIDE DEF s
  <1> QED
    BY <1>2, <1>3, <1>5, <1>7, <1>8, <1>9, PrivateStep DEF s, CreateTask, committed

\* OutcomeStep for a session whose clock reading stays.
LEMMA ConcludeStep ==
    ASSUME Inv, NEW t \in Tx, tx[t].pc # "idle", NEW pc \in {"write", "commit"},
           NEW o \in Execution,
           tx[t].call.op # "resolve" => tx[t].pc \in InsertedPC,
           tx' = [tx EXCEPT ![t] = [tx[t] EXCEPT !.pc = pc, !.outcome = o]],
           UNCHANGED <<committed, reply, clock>>,
           SessionOK([tx[t] EXCEPT !.pc = pc, !.outcome = o])
    PROVE  Inv'
  <1>1. tx[t] \in Transaction /\ tx[t].now \in Nat
    BY DEF Inv, TypeOK, Transaction
  <1>2. [tx[t] EXCEPT !.pc = pc, !.outcome = o]
          = [tx[t] EXCEPT !.pc = pc, !.now = tx[t].now, !.outcome = o]
    BY <1>1 DEF Transaction
  <1> QED
    BY <1>1, <1>2, OutcomeStep

LEMMA SearchInv ==
    ASSUME Inv, NEW t \in Tx, Search(t)
    PROVE  Inv'
  <1> DEFINE c == tx[t].call
  <1>1. tx[t].pc = "search" /\ UNCHANGED clock
    BY DEF Search
  <1>2. tx[t] \in Transaction /\ c \in Call /\ c.op \in {"update", "complete", "delete"}
          /\ SessionOK(tx[t])
    BY <1>1, CallFields DEF Inv, SessionOK, PlaceOK
  <1>3. tx[t].row = None /\ tx[t].verdict = "none" /\ executions[c.key].status = "none"
    BY <1>1, <1>2 DEF SessionOK, RowOK, VerdictOK, KeyOK, Inserted, InsertedPC
  <1>4. ASSUME NEW error \in {"none", "TASK_REFERENCE_NOT_FOUND"},
               Conclude(t, Outcome("failed", "not_found", error, None))
        PROVE  Inv'
    <2> DEFINE o == Outcome("failed", "not_found", error, None)
    <2>1. o \in Execution
      BY OutcomeType DEF ExecutionStatus, Effect, ErrorCode
    <2>2. SessionOK([tx[t] EXCEPT !.pc = "commit", !.outcome = o])
      BY <1>2, <1>3 DEF SessionOK, PlaceOK, KeyOK, VerdictOK, RowOK, OutcomeOK, CommandOutcome,
           Inserted, Outcome, Transaction
    <2> QED
      BY <1>1, <1>4, <2>1, <2>2, ConcludeStep DEF Conclude, InsertedPC
  <1>5. ASSUME NEW x \in TaskId, tx' = [tx EXCEPT ![t].pc = "select", ![t].task = x],
               UNCHANGED <<committed, reply>>
        PROVE  Inv'
    <2> DEFINE s == [tx[t] EXCEPT !.pc = "select", !.task = x]
    <2>1. s \in Transaction /\ s.call = c /\ s.pc = "select" /\ s.row = tx[t].row
            /\ s.verdict = tx[t].verdict /\ s.task = x
      BY <1>2 DEF Transaction, PC
    <2>2. SessionOK(s)
      BY <1>2, <1>3, <2>1 DEF SessionOK, PlaceOK, KeyOK, VerdictOK, RowOK, OutcomeOK, Inserted
    <2>3. Inserted(tx[t])
      BY <1>1, <1>2 DEF Inserted, InsertedPC
    <2>4. tx' = [tx EXCEPT ![t] = s]
      BY <1>5
    <2> HIDE DEF s
    <2> QED
      BY <1>1, <1>5, <2>1, <2>2, <2>3, <2>4, MoveStep DEF committed
  <1>6. ASSUME NEW e \in {"ambiguous", "delete_ambiguous"},
               Conclude(t, Outcome("awaiting_selection", e, "none", None))
        PROVE  Inv'
    <2> DEFINE o == Outcome("awaiting_selection", e, "none", None)
    <2>1. o \in Execution
      BY OutcomeType DEF ExecutionStatus, Effect, ErrorCode
    <2>2. SessionOK([tx[t] EXCEPT !.pc = "commit", !.outcome = o])
      BY <1>2, <1>3 DEF SessionOK, PlaceOK, KeyOK, VerdictOK, RowOK, OutcomeOK, CommandOutcome,
           Inserted, Outcome, Transaction
    <2> QED
      BY <1>1, <1>6, <2>1, <2>2, ConcludeStep DEF Conclude, InsertedPC
  <1> QED
    BY <1>4, <1>5, <1>6 DEF Search, Candidates

\* The facts every statement after the resolution of the task starts from.
LEMMA Selected ==
    ASSUME Inv, NEW t \in Tx, tx[t].pc \in {"select", "reselect"}
    PROVE  /\ tx[t] \in Transaction /\ tx[t].call \in Call
           /\ tx[t].call.op \in {"update", "complete", "delete"}
           /\ tx[t].task \in TaskId
           /\ tx[t].row = None /\ tx[t].verdict = "none"
           /\ executions[tx[t].call.key].status = "none"
           /\ SessionOK(tx[t])
  <1>1. SessionOK(tx[t]) /\ tx[t] \in Transaction /\ tx[t].call \in Call
    BY CallFields DEF Inv
  <1> QED
    BY <1>1 DEF SessionOK, PlaceOK, RowOK, VerdictOK, KeyOK, Inserted, InsertedPC

\* A selected session that goes to its commit without a write, with an outcome
\* that its operation may record.
LEMMA SelectedCommits ==
    ASSUME Inv, NEW t \in Tx, tx[t].pc \in {"select", "reselect"},
           NEW o \in Execution, NEW n \in Nat,
           tx' = [tx EXCEPT ![t] = [tx[t] EXCEPT !.pc = "commit", !.now = n, !.outcome = o]],
           UNCHANGED <<committed, reply, clock>>,
           \A r \in Transaction :
              r.call = tx[t].call /\ r.row = None /\ r.task = tx[t].task /\ r.outcome = o
                 => CommandOutcome(r)
    PROVE  Inv'
  <1> DEFINE s == [tx[t] EXCEPT !.pc = "commit", !.now = n, !.outcome = o]
  <1>1. s \in Transaction /\ s.pc = "commit" /\ s.call = tx[t].call /\ s.row = None
          /\ s.task = tx[t].task /\ s.outcome = o /\ s.verdict = "none"
    BY Selected DEF Transaction, PC
  <1>2. tx' = [tx EXCEPT ![t] = s]
    OBVIOUS
  <1> HIDE DEF s
  <1>3. CommandOutcome(s)
    BY <1>1
  <1>4. SessionOK(s)
    BY <1>1, <1>3, Selected
       DEF SessionOK, PlaceOK, KeyOK, VerdictOK, RowOK, OutcomeOK, Inserted
  <1>5. Inserted(s) => Inserted(tx[t])
    BY <1>1 DEF Inserted, InsertedPC
  <1> QED
    BY <1>1, <1>2, <1>4, <1>5, Selected, MoveStep DEF committed

\* The same, without a reading of the clock.
LEMMA SelectedConcludes ==
    ASSUME Inv, NEW t \in Tx, tx[t].pc \in {"select", "reselect"},
           NEW o \in Execution, Conclude(t, o), UNCHANGED clock,
           \A r \in Transaction :
              r.call = tx[t].call /\ r.row = None /\ r.task = tx[t].task /\ r.outcome = o
                 => CommandOutcome(r)
    PROVE  Inv'
  <1>1. tx[t] \in Transaction /\ tx[t].now \in Nat
    BY Selected DEF Transaction
  <1>2. [tx[t] EXCEPT !.pc = "commit", !.outcome = o]
          = [tx[t] EXCEPT !.pc = "commit", !.now = tx[t].now, !.outcome = o]
    BY <1>1 DEF Transaction
  <1>3. tx' = [tx EXCEPT ![t] = [tx[t] EXCEPT !.pc = "commit", !.outcome = o]]
    BY DEF Conclude
  <1>4. tx' = [tx EXCEPT ![t] = [tx[t] EXCEPT !.pc = "commit", !.now = tx[t].now, !.outcome = o]]
    BY <1>2, <1>3
  <1>5. UNCHANGED <<committed, reply, clock>>
    BY DEF Conclude
  <1> QED
    BY <1>1, <1>4, <1>5, SelectedCommits

\* A selected task that cannot be acted on fails the command.
LEMMA FailStep ==
    ASSUME Inv, NEW t \in Tx, tx[t].pc \in {"select", "reselect"},
           NEW effect \in {"failed", "task_delete_failed"},
           Conclude(t, Outcome("failed", effect, "TASK_NOT_FOUND", tx[t].task)), UNCHANGED clock
    PROVE  Inv'
  <1> DEFINE o == Outcome("failed", effect, "TASK_NOT_FOUND", tx[t].task)
  <1>1. o \in Execution
    BY Selected, OutcomeType DEF ExecutionStatus, Effect, ErrorCode
  <1>2. o.status = "failed" /\ o.effect = effect /\ o.error = "TASK_NOT_FOUND"
    BY DEF Outcome
  <1>3. Conclude(t, o)
    OBVIOUS
  <1> HIDE DEF o
  <1> QED
    BY <1>1, <1>2, <1>3, SelectedConcludes DEF CommandOutcome

\* A selected task that is to be written.
LEMMA ToWriteStep ==
    ASSUME Inv, NEW t \in Tx, tx[t].pc \in {"select", "reselect"},
           tx[t].call.op \in {"update", "complete"},
           NEW effect, effect = (IF tx[t].call.op = "update" THEN "task_updated" ELSE "task_completed"),
           tx' = [tx EXCEPT ![t] = [tx[t] EXCEPT !.pc = "write",
                    !.outcome = Outcome("executed", effect, "none", tx[t].task)]],
           UNCHANGED <<committed, reply, clock>>
    PROVE  Inv'
  <1> DEFINE o == Outcome("executed", effect, "none", tx[t].task)
  <1>1. o \in Execution
    BY Selected, OutcomeType DEF ExecutionStatus, Effect, ErrorCode
  <1>2. SessionOK([tx[t] EXCEPT !.pc = "write", !.outcome = o])
    BY Selected DEF SessionOK, PlaceOK, KeyOK, VerdictOK, RowOK, OutcomeOK, WriteOutcome,
         Inserted, Transaction
  <1> QED
    BY <1>1, <1>2, ConcludeStep DEF InsertedPC

LEMMA SelectToCompleteInv ==
    ASSUME Inv, NEW t \in Tx, SelectToComplete(t)
    PROVE  Inv'
  <1>1. CASE Conclude(t, Outcome("failed", "failed", "TASK_NOT_FOUND", tx[t].task))
    BY <1>1, FailStep DEF SelectToComplete
  <1>2. CASE ActiveFor(tx[t].call.user, tx[t].task)
    BY <1>2, ToWriteStep DEF SelectToComplete
  <1> QED
    BY <1>1, <1>2 DEF SelectToComplete

\* An update that ends without a write.
LEMMA UpdateConcludes ==
    ASSUME Inv, NEW t \in Tx, tx[t].pc \in {"select", "reselect"}, tx[t].call.op = "update",
           Visible(tx[t].call.user, tx[t].task), NEW effect \in {"task_updated", "task_unchanged"},
           Conclude(t, Outcome("executed", effect, "none", tx[t].task)), UNCHANGED clock
    PROVE  Inv'
  <1> DEFINE o == Outcome("executed", effect, "none", tx[t].task)
  <1>1. o \in Execution
    BY Selected, OutcomeType DEF ExecutionStatus, Effect, ErrorCode
  <1>2. tasks[tx[t].task].status # "free"
    BY DEF Visible, Live
  <1> QED
    BY <1>1, <1>2, Selected, SelectedConcludes DEF CommandOutcome

LEMMA SelectToUpdateInv ==
    ASSUME Inv, NEW t \in Tx, SelectToUpdate(t)
    PROVE  Inv'
  <1>1. CASE Conclude(t, Outcome("failed", "failed", "TASK_NOT_FOUND", tx[t].task))
    BY <1>1, FailStep DEF SelectToUpdate
  <1>2. CASE /\ Visible(tx[t].call.user, tx[t].task)
             /\ Conclude(t, Outcome("executed", "task_unchanged", "none", tx[t].task))
    BY <1>2, UpdateConcludes DEF SelectToUpdate
  <1>3. CASE Goto(t, "reselect")
    <2>1. SessionOK([tx[t] EXCEPT !.pc = "reselect"])
      BY Selected DEF SelectToUpdate, SessionOK, PlaceOK, KeyOK, VerdictOK, RowOK, OutcomeOK,
           Inserted, Transaction
    <2> QED
      BY <1>3, <2>1, GotoStep DEF SelectToUpdate, PC, InsertedPC
  <1> QED
    BY <1>1, <1>2, <1>3 DEF SelectToUpdate

LEMMA ReselectToUpdateInv ==
    ASSUME Inv, NEW t \in Tx, ReselectToUpdate(t)
    PROVE  Inv'
  <1>1. tx[t].pc = "reselect" /\ tx[t].call.op = "update" /\ UNCHANGED clock
    BY DEF ReselectToUpdate, Inv, SessionOK, PlaceOK
  <1>2. CASE Conclude(t, Outcome("failed", "failed", "TASK_NOT_FOUND", tx[t].task))
    BY <1>1, <1>2, FailStep
  <1>3. CASE /\ Visible(tx[t].call.user, tx[t].task)
             /\ Conclude(t, Outcome("executed", "task_updated", "none", tx[t].task))
    BY <1>1, <1>3, UpdateConcludes
  <1>4. CASE /\ tx' = [tx EXCEPT ![t] = [tx[t] EXCEPT !.pc = "write",
                        !.outcome = Outcome("executed", "task_updated", "none", tx[t].task)]]
             /\ UNCHANGED <<committed, reply>>
    BY <1>1, <1>4, ToWriteStep
  <1> QED
    BY <1>2, <1>3, <1>4 DEF ReselectToUpdate

LEMMA SelectToDeleteInv ==
    ASSUME Inv, NEW t \in Tx, SelectToDelete(t)
    PROVE  Inv'
  <1> DEFINE o == Outcome("awaiting_confirmation", "task_delete_pending", "none", tx[t].task)
  <1>1. tx[t].pc = "select" /\ tx[t].call.op = "delete" /\ UNCHANGED clock
    BY DEF SelectToDelete
  <1>2. CASE Conclude(t, Outcome("failed", "task_delete_failed", "TASK_NOT_FOUND", tx[t].task))
    BY <1>1, <1>2, FailStep
  <1>3. CASE /\ ActiveFor(tx[t].call.user, tx[t].task)
             /\ tx' = [tx EXCEPT ![t] = [tx[t] EXCEPT !.pc = "commit", !.now = clock, !.outcome = o]]
             /\ UNCHANGED <<committed, reply>>
    <2>1. o \in Execution
      BY <1>1, Selected, OutcomeType DEF ExecutionStatus, Effect, ErrorCode
    <2>2. tasks[tx[t].task].status # "free"
      BY <1>3 DEF ActiveFor, Visible, Live
    <2>3. clock \in Nat
      BY TimeAssumption DEF Inv, TypeOK
    <2>4. \A r \in Transaction :
             r.call = tx[t].call /\ r.row = None /\ r.task = tx[t].task /\ r.outcome = o
                => CommandOutcome(r)
      BY <1>1, <2>2, Selected DEF CommandOutcome
    <2> HIDE DEF o
    <2> QED
      BY <1>1, <1>3, <2>1, <2>3, <2>4, SelectedCommits
  <1> QED
    BY <1>2, <1>3 DEF SelectToDelete

\* A row that was created and is not live any more was deleted.
LEMMA CreatedRow ==
    ASSUME Inv, NEW x \in TaskId, tasks[x].status # "free", ~Live(x)
    PROVE  tasks[x].status = "deleted"
  BY DEF Inv, TypeOK, Row, LiveRow, FreeRow, DeletedRow, Live

\* The request that a session resolves is about its task, which was created.
LEMMA ResolvedTask ==
    ASSUME Inv, NEW t \in Tx, tx[t].call.op = "resolve",
           tx[t].pc \notin {"idle", "request"}
    PROVE  /\ requests[tx[t].call.key].status # "none"
           /\ tx[t].task = requests[tx[t].call.key].task
           /\ tx[t].call.user = requests[tx[t].call.key].user
           /\ tx[t].task \in TaskId /\ tasks[tx[t].task].status # "free"
  <1>1. tx[t].call.key \in Key /\ VerdictOK(tx[t])
    BY CallFields DEF Inv, SessionOK
  <1> QED
    BY <1>1 DEF VerdictOK, Inv, RequestsOK

LEMMA WriteTaskInv ==
    ASSUME Inv, NEW t \in Tx, WriteTask(t)
    PROVE  Inv'
  <1> DEFINE x == tx[t].task
             c == tx[t].call
  <1>1. tx[t].pc = "write" /\ ~RowLocked(x) /\ UNCHANGED clock
    BY DEF WriteTask
  <1>2. tx[t] \in Transaction /\ c \in Call /\ SessionOK(tx[t])
    BY <1>1, CallFields DEF Inv
  <1>3. /\ c.op \in {"update", "complete", "resolve"} /\ x \in TaskId
        /\ tx[t].row = None /\ WriteOutcome(tx[t])
        /\ c.op = "resolve" => tx[t].verdict = "confirmed"
        /\ c.op # "resolve" => tx[t].verdict = "none"
    BY <1>1, <1>2 DEF SessionOK, PlaceOK, RowOK, OutcomeOK, VerdictOK
  <1>4. CASE /\ Live(x) /\ tx' = [tx EXCEPT ![t].pc = "commit", ![t].row = x]
             /\ UNCHANGED <<committed, reply>>
    <2> DEFINE s == [tx[t] EXCEPT !.pc = "commit", !.row = x]
    <2>1. /\ s \in Transaction /\ s.pc = "commit" /\ s.row = x /\ s.call = c /\ s.task = x
          /\ s.verdict = tx[t].verdict /\ s.outcome = tx[t].outcome /\ s.now = tx[t].now
      BY <1>2, <1>3 DEF Transaction, PC
    <2>2. tx' = [tx EXCEPT ![t] = s]
      BY <1>4
    <2> HIDE DEF s
    <2>3. tasks[x].status # "free" /\ x # None
      BY <1>3, <1>4, NoneAssumption DEF Live
    <2>4. OutcomeOK(s)
      BY <1>3, <2>1, <2>3 DEF OutcomeOK, WriteOutcome, DecisionOutcome, CommandOutcome
    <2>5. PlaceOK(s) /\ VerdictOK(s)
      BY <1>1, <1>2, <1>3, <2>1 DEF SessionOK, PlaceOK, VerdictOK
    <2>6. KeyOK(s) /\ RowOK(s)
      <3>1. s.outcome.status = "executed"
        BY <1>3, <2>1 DEF WriteOutcome, Outcome
      <3> QED
        BY <1>1, <1>2, <1>3, <1>4, <2>1, <3>1 DEF SessionOK, KeyOK, RowOK, Inserted, InsertedPC
    <2>7. \A u \in Tx \ {t} :
             /\ s.row # tx[u].row
             /\ Inserted(s) /\ Inserted(tx[u]) => s.call.key # tx[u].call.key
             /\ s.verdict # "none" /\ tx[u].verdict # "none" => s.call.key # tx[u].call.key
      BY <1>1, <2>1 DEF RowLocked, Inv, LocksExclude, Inserted, InsertedPC
    <2> QED
      BY <1>1, <1>2, <1>4, <2>1, <2>2, <2>4, <2>5, <2>6, <2>7, PrivateStep DEF SessionOK, committed
  <1>5. CASE ~Live(x) /\ c.op = "resolve" /\ Goto(t, "commit")
    <2> DEFINE s == [tx[t] EXCEPT !.pc = "commit"]
    <2>1. /\ s \in Transaction /\ s.pc = "commit" /\ s.row = None /\ s.call = c /\ s.task = x
          /\ s.verdict = tx[t].verdict /\ s.outcome = tx[t].outcome /\ s.now = tx[t].now
      BY <1>2, <1>3 DEF Transaction, PC
    <2>2. tasks[x].status = "deleted"
      BY <1>1, <1>5, ResolvedTask, CreatedRow
    <2> HIDE DEF s
    <2>3. OutcomeOK(s)
      BY <1>3, <1>5, <2>1, <2>2 DEF OutcomeOK, WriteOutcome, DecisionOutcome
    <2>4. PlaceOK(s) /\ VerdictOK(s) /\ KeyOK(s) /\ RowOK(s)
      BY <1>1, <1>2, <1>3, <1>5, <2>1 DEF SessionOK, PlaceOK, VerdictOK, KeyOK, RowOK, Inserted
    <2> QED
      BY <1>1, <1>5, <2>3, <2>4, GotoStep DEF SessionOK, s, PC
  <1>6. CASE Raise(t)
    BY <1>1, <1>6, AnswerStep DEF Raise, committed, ErrorCode, Effect
  <1> QED
    BY <1>4, <1>5, <1>6 DEF WriteTask

LEMMA ReadRequestInv ==
    ASSUME Inv, NEW t \in Tx, ReadRequest(t)
    PROVE  Inv'
  <1> DEFINE r == requests[tx[t].call.key]
  <1>1. tx[t].pc = "request" /\ UNCHANGED clock
    BY DEF ReadRequest
  <1>2. tx[t] \in Transaction /\ tx[t].call.key \in Key /\ SessionOK(tx[t]) /\ r \in Request
    BY <1>1, CallFields DEF Inv, TypeOK
  <1>3. tx[t].call.op = "resolve" /\ tx[t].row = None /\ tx[t].verdict = "none"
    BY <1>1, <1>2 DEF SessionOK, PlaceOK, RowOK, VerdictOK
  <1>4. CASE /\ r.status # "none" /\ r.user = tx[t].call.user /\ UNCHANGED <<committed, reply>>
             /\ tx' = [tx EXCEPT ![t].pc = "execution", ![t].seen = r.status, ![t].task = r.task]
    <2> DEFINE s == [tx[t] EXCEPT !.pc = "execution", !.seen = r.status, !.task = r.task]
    <2>1. /\ s \in Transaction /\ s.pc = "execution" /\ s.row = None /\ s.call = tx[t].call
          /\ s.task = r.task /\ s.verdict = "none"
      BY <1>2, <1>3 DEF Transaction, PC, Request
    <2>2. tx' = [tx EXCEPT ![t] = s]
      BY <1>4
    <2> HIDE DEF s
    <2>3. SessionOK(s)
      BY <1>3, <1>4, <2>1 DEF SessionOK, PlaceOK, KeyOK, VerdictOK, RowOK, OutcomeOK, Inserted
    <2>4. ~Inserted(s)
      BY <1>3, <2>1 DEF Inserted
    <2> QED
      BY <1>1, <1>3, <1>4, <2>1, <2>2, <2>3, <2>4, MoveStep DEF committed
  <1>5. CASE Finish(t, "failed", "CONFIRMATION_NOT_FOUND", "none") /\ UNCHANGED committed
    BY <1>1, <1>5, AnswerStep DEF committed, ErrorCode, Effect, ExecutionStatus
  <1> QED
    BY <1>4, <1>5 DEF ReadRequest, OwnRequest

LEMMA ReadExecutionInv ==
    ASSUME Inv, NEW t \in Tx, ReadExecution(t)
    PROVE  Inv'
  <1> DEFINE e == executions[tx[t].call.key]
  <1>1. tx[t].pc = "execution" /\ UNCHANGED <<committed, clock>>
    BY DEF ReadExecution
  <1>2. tx[t] \in Transaction /\ SessionOK(tx[t]) /\ e \in Execution /\ clock \in Nat
    BY <1>1, CallFields, TimeAssumption DEF Inv, TypeOK
  <1>3. /\ tx[t].call.op = "resolve" /\ tx[t].row = None /\ tx[t].verdict = "none"
        /\ requests[tx[t].call.key].status # "none" /\ tx[t].task = requests[tx[t].call.key].task
        /\ tx[t].call.user = requests[tx[t].call.key].user
    BY <1>1, <1>2 DEF SessionOK, PlaceOK, RowOK, VerdictOK
  <1>4. CASE /\ UNCHANGED reply
             /\ tx' = [tx EXCEPT ![t].pc = "transition", ![t].now = clock, ![t].outcome = e]
    <2> DEFINE s == [tx[t] EXCEPT !.pc = "transition", !.now = clock, !.outcome = e]
    <2>1. /\ s \in Transaction /\ s.pc = "transition" /\ s.row = None /\ s.call = tx[t].call
          /\ s.task = tx[t].task /\ s.verdict = "none"
      BY <1>2, <1>3 DEF Transaction, PC
    <2>2. tx' = [tx EXCEPT ![t] = s]
      BY <1>4
    <2> HIDE DEF s
    <2>3. SessionOK(s)
      BY <1>3, <2>1 DEF SessionOK, PlaceOK, KeyOK, VerdictOK, RowOK, OutcomeOK, Inserted
    <2>4. ~Inserted(s)
      BY <1>3, <2>1 DEF Inserted
    <2> QED
      BY <1>1, <1>3, <1>4, <2>1, <2>2, <2>3, <2>4, MoveStep DEF committed
  <1>5. CASE \E status \in {"duplicate", "rejected", "failed"}, error \in ErrorCode :
                Finish(t, status, error, e.effect)
    BY <1>1, <1>2, <1>5, AnswerStep DEF committed, Execution, ExecutionStatus
  <1> QED
    BY <1>4, <1>5 DEF ReadExecution, ErrorCode

LEMMA TransitionPendingInv ==
    ASSUME Inv, NEW t \in Tx, TransitionPending(t)
    PROVE  Inv'
  <1> DEFINE c == tx[t].call
             r == requests[c.key]
             expired == Outcome("failed", "task_delete_failed", "CONFIRMATION_EXPIRED", None)
             cancelled == Outcome("rejected", "task_delete_cancelled", "none", None)
  <1>1. tx[t].pc = "transition" /\ ~RequestLocked(c.key) /\ UNCHANGED <<committed, clock>>
    BY DEF TransitionPending
  <1>2. /\ tx[t] \in Transaction /\ SessionOK(tx[t]) /\ c \in Call /\ c.key \in Key
        /\ tx[t].outcome.effect \in Effect /\ executions[c.key].effect \in Effect
        /\ tx[t].now \in Nat /\ r.expires \in Nat
    BY <1>1, CallFields DEF Inv, TypeOK, Transaction, Execution, Request
  <1>3. /\ c.op = "resolve" /\ tx[t].row = None /\ tx[t].verdict = "none"
        /\ r.status # "none" /\ tx[t].task = r.task /\ r.task \in TaskId
        /\ tx[t].call.user = r.user
    BY <1>1, <1>2, ResolvedTask DEF SessionOK, PlaceOK, RowOK, VerdictOK
  <1>4. ASSUME r.status = "pending", UNCHANGED reply,
               NEW pc \in {"delete", "commit"},
               NEW attempt \in {"confirmed", "cancelled", "expired"}, NEW o \in Execution,
               tx' = [tx EXCEPT ![t].pc = pc, ![t].verdict = attempt, ![t].outcome = o],
               attempt = "expired" <=> Expired(t),
               \/ attempt = "confirmed" /\ pc = "delete"
               \/ attempt = "cancelled" /\ pc = "commit" /\ o = cancelled
               \/ attempt = "expired" /\ pc = "commit" /\ o = expired
        PROVE  Inv'
    <2> DEFINE s == [tx[t] EXCEPT !.pc = pc, !.verdict = attempt, !.outcome = o]
    <2>1. /\ s \in Transaction /\ s.pc = pc /\ s.row = None /\ s.call = c /\ s.task = r.task
          /\ s.verdict = attempt /\ s.outcome = o /\ s.now = tx[t].now
      BY <1>2, <1>3 DEF Transaction, PC
    <2>2. tx' = [tx EXCEPT ![t] = s]
      BY <1>4
    <2> HIDE DEF s
    <2>3. VerdictOK(s)
      BY <1>2, <1>3, <1>4, <2>1 DEF VerdictOK, Expired
    <2>4. OutcomeOK(s)
      BY <1>3, <1>4, <2>1 DEF OutcomeOK, DecisionOutcome
    <2>5. PlaceOK(s) /\ KeyOK(s) /\ RowOK(s) /\ ~Inserted(s)
      BY <1>3, <1>4, <2>1 DEF PlaceOK, KeyOK, RowOK, Inserted
    <2>6. \A u \in Tx \ {t} : tx[u].verdict # "none" => s.call.key # tx[u].call.key
      BY <1>1, <2>1 DEF RequestLocked
    <2> QED
      BY <1>1, <1>2, <1>4, <2>1, <2>2, <2>3, <2>4, <2>5, <2>6, PrivateStep DEF SessionOK, committed
  <1>5. CASE \E error \in ErrorCode, effect \in Effect : Finish(t, "failed", error, effect)
    BY <1>1, <1>5, AnswerStep DEF committed, ExecutionStatus
  <1>6. expired \in Execution /\ cancelled \in Execution /\ tx[t].outcome \in Execution
    BY <1>2, OutcomeType DEF ExecutionStatus, Effect, ErrorCode, Transaction
  <1>7. CASE r.status = "pending"
    BY <1>4, <1>6, <1>7 DEF TransitionPending, StillPending
  <1>8. CASE r.status # "pending"
    BY <1>2, <1>5, <1>8 DEF TransitionPending, StillPending, ErrorCode
  <1> QED
    BY <1>7, <1>8

LEMMA SelectConfirmedInv ==
    ASSUME Inv, NEW t \in Tx, SelectConfirmed(t)
    PROVE  Inv'
  <1> DEFINE x == tx[t].task
             failed == Outcome("failed", "task_delete_failed", "TASK_NOT_FOUND", x)
             deleted == Outcome("executed", "task_deleted", "none", x)
  <1>1. tx[t].pc = "delete" /\ UNCHANGED <<committed, reply, clock>>
    BY DEF SelectConfirmed, Conclude, committed
  <1>2. tx[t] \in Transaction /\ SessionOK(tx[t])
    BY <1>1, CallFields DEF Inv
  <1>3. /\ tx[t].call.op = "resolve" /\ tx[t].row = None /\ tx[t].verdict = "confirmed"
        /\ x \in TaskId
    BY <1>1, <1>2 DEF SessionOK, PlaceOK, RowOK, VerdictOK
  <1>4. ASSUME NEW pc \in {"write", "commit"}, NEW o \in Execution,
               tx' = [tx EXCEPT ![t].pc = pc, ![t].outcome = o],
               \/ pc = "write" /\ o = deleted
               \/ pc = "commit" /\ o = failed
        PROVE  Inv'
    <2> DEFINE s == [tx[t] EXCEPT !.pc = pc, !.outcome = o]
    <2>1. /\ s \in Transaction /\ s.pc = pc /\ s.row = None /\ s.call = tx[t].call /\ s.task = x
          /\ s.verdict = "confirmed" /\ s.outcome = o /\ s.now = tx[t].now
      BY <1>2, <1>3 DEF Transaction, PC
    <2>2. tx' = [tx EXCEPT ![t] = s]
      BY <1>4
    <2> HIDE DEF s
    <2>3. VerdictOK(s)
      BY <1>1, <1>2, <1>3, <2>1 DEF VerdictOK, SessionOK
    <2>4. OutcomeOK(s)
      BY <1>3, <1>4, <2>1 DEF OutcomeOK, DecisionOutcome, WriteOutcome
    <2>5. PlaceOK(s) /\ KeyOK(s) /\ RowOK(s) /\ ~Inserted(s)
      BY <1>3, <1>4, <2>1 DEF PlaceOK, KeyOK, RowOK, Inserted
    <2> QED
      BY <1>1, <1>3, <2>1, <2>2, <2>3, <2>4, <2>5, MoveStep DEF SessionOK, committed
  <1>5. failed \in Execution /\ deleted \in Execution
    BY <1>3, OutcomeType DEF ExecutionStatus, Effect, ErrorCode
  <1> QED
    BY <1>1, <1>4, <1>5 DEF SelectConfirmed, Conclude

-----------------------------------------------------------------------------
(* Commits *)

\* What a commit of session t on key k must leave to the other sessions: rows
\* it did not lock, rows that stay created or deleted, the other keys, and
\* the task of a request that is being resolved.
OthersKept(t, k) ==
    /\ tx' = [tx EXCEPT ![t] = NoTransaction]
    /\ \A x \in TaskId : /\ x # tx[t].row => tasks'[x] = tasks[x]
                         /\ tasks[x].status # "free" => tasks'[x].status # "free"
                         /\ tasks[x].status = "deleted" => tasks'[x].status = "deleted"
    /\ \A l \in Key \ {k} : executions'[l] = executions[l] /\ requests'[l] = requests[l]
    /\ requests[k].status # "none" => /\ requests'[k].status # "none"
                                      /\ requests'[k].task = requests[k].task
                                      /\ requests'[k].user = requests[k].user
    /\ \A u \in Tx \ {t} : Inserted(tx[u]) \/ tx[u].verdict # "none" => tx[u].call.key # k

\* Such a commit keeps what every other session relies on.
LEMMA OthersRely ==
    ASSUME Inv, NEW t \in Tx, NEW k \in Key, OthersKept(t, k), NEW u \in Tx \ {t}
    PROVE  IF tx'[u].pc = "idle" THEN IdleOK(tx[u])' ELSE SessionOK(tx[u])'
  <1>1. tx'[u] = tx[u]
    BY DEF OthersKept, Inv, TypeOK
  <1>2. CASE tx[u].pc = "idle"
    BY <1>1, <1>2 DEF Inv, IdleOK
  <1>3. CASE tx[u].pc # "idle"
    <2> DEFINE s == tx[u]
    <2>1. SessionOK(s) /\ s.call.key \in Key
      BY <1>3, CallFields DEF Inv
    <2>2. s.call.op = "resolve" /\ s.pc # "request"
            => s.task \in TaskId /\ requests[s.call.key].status # "none"
               /\ s.task = requests[s.call.key].task /\ s.call.user = requests[s.call.key].user
      BY <1>3, ResolvedTask
    <2>3. PlaceOK(s)' /\ KeyOK(s)'
      BY <1>1, <2>1 DEF OthersKept, SessionOK, PlaceOK, KeyOK, Inserted
    <2>4. VerdictOK(s)'
      <3>1. CASE s.call.key = k
        <4>1. s.verdict = "none"
          BY <3>1 DEF OthersKept
        <4> QED
          BY <1>1, <2>1, <2>2, <3>1, <4>1 DEF OthersKept, SessionOK, VerdictOK
      <3>2. CASE s.call.key # k
        <4>1. requests'[s.call.key] = requests[s.call.key]
          BY <2>1, <3>2 DEF OthersKept
        <4> QED
          BY <1>1, <2>1, <4>1 DEF SessionOK, VerdictOK
      <3> QED
        BY <3>1, <3>2
    <2>5. RowOK(s)'
      <3>1. CASE s.row = None
        BY <1>1, <3>1 DEF RowOK
      <3>2. CASE s.row # None
        <4>1. s.row \in TaskId /\ s.row # tx[t].row
          BY <2>1, <3>2 DEF SessionOK, RowOK, Inv, LocksExclude
        <4>2. tasks'[s.row] = tasks[s.row]
          BY <4>1 DEF OthersKept
        <4> QED
          BY <1>1, <2>1, <4>2 DEF SessionOK, RowOK, Live
      <3> QED
        BY <3>1, <3>2
    <2>6. s.pc = "write" => WriteOutcome(s)'
      BY <1>1, <2>1 DEF SessionOK, OutcomeOK, WriteOutcome
    <2>7. s.pc = "commit" /\ s.call.op = "resolve" => DecisionOutcome(s)'
      <3>1. s.task \in TaskId /\ tasks[s.task].status = "deleted" => tasks'[s.task].status = "deleted"
        BY DEF OthersKept
      <3> QED
        BY <1>1, <2>1, <2>2, <3>1 DEF SessionOK, OutcomeOK, DecisionOutcome
    <2>8. s.pc = "commit" /\ s.call.op # "resolve" => CommandOutcome(s)'
      <3>1. s.task \in TaskId /\ tasks[s.task].status # "free" => tasks'[s.task].status # "free"
        BY DEF OthersKept
      <3> QED
        BY <1>1, <2>1, <3>1 DEF SessionOK, OutcomeOK, CommandOutcome
    <2> QED
      BY <1>1, <1>3, <2>3, <2>4, <2>5, <2>6, <2>7, <2>8 DEF SessionOK, OutcomeOK
  <1> QED
    BY <1>2, <1>3

\* The session that committed holds nothing, so locks stay exclusive.
LEMMA CommitReleases ==
    ASSUME Inv, NEW t \in Tx, NEW k \in Key, OthersKept(t, k)
    PROVE  /\ LocksExclude'
           /\ \A u \in Tx : IF tx'[u].pc = "idle" THEN IdleOK(tx[u])' ELSE SessionOK(tx[u])'
  <1>1. tx'[t] = NoTransaction /\ \A u \in Tx \ {t} : tx'[u] = tx[u]
    BY DEF OthersKept, Inv, TypeOK
  <1>2. LocksExclude'
    BY <1>1 DEF Inv, LocksExclude, Inserted, NoTransaction, InsertedPC
  <1>3. IdleOK(tx[t])' /\ tx'[t].pc = "idle"
    BY <1>1 DEF IdleOK, NoTransaction
  <1> QED
    BY <1>2, <1>3, OthersRely

\* The answer of a commit is well formed.
LEMMA CommitAnswer ==
    ASSUME Inv, NEW t \in Tx, tx[t].pc = "commit",
           Finish(t, tx[t].outcome.status, AnswerError(tx[t].outcome), tx[t].outcome.effect)
    PROVE  /\ tx' = [tx EXCEPT ![t] = NoTransaction]
           /\ tx' \in [Tx -> Transaction] /\ reply' \in [Tx -> Reply]
           /\ \A u \in Tx : tx'[u].pc # "idle" => tx'[u].call \in Call
  <1>1. tx[t].outcome \in Execution /\ tx[t].call \in Call
    BY CallFields DEF Inv, TypeOK, Transaction
  <1>2. AnswerError(tx[t].outcome) \in ErrorCode
    BY <1>1 DEF AnswerError, Execution, ErrorCode
  <1>3. [call |-> tx[t].call, error |-> AnswerError(tx[t].outcome),
         status |-> tx[t].outcome.status,
         effect |-> AnswerEffect(tx[t].call, tx[t].outcome.status, tx[t].outcome.effect),
         task |-> AnswerTask(tx[t], tx[t].outcome.status)] \in Reply
    BY <1>1, <1>2, AnswerEffectType, AnswerTaskType DEF Reply, Execution, Inv
  <1> QED
    BY <1>3, NoTransactionType DEF Finish, Inv, TypeOK, NoTransaction

\* What a command commits: it starts a key, and creates, renames or completes
\* at most the row it locked.
LEMMA CommandCommit ==
    ASSUME Inv, NEW t \in Tx, CommitCommand(t)
    PROVE  LET s == tx[t]
               k == s.call.key
           IN  /\ s.pc = "commit" /\ s.outcome \in Execution /\ k \in Key
               /\ CommandOutcome(s) /\ RowOK(s) /\ s.call \in CallType /\ s.call.op \in Op
               /\ s.call.op # "resolve" /\ Inserted(s)
               /\ executions[k].status = "none" /\ requests[k].status = "none"
               /\ executions' = [executions EXCEPT ![k] = s.outcome]
               /\ s.row # None => s.row \in TaskId /\ s.call.op \in {"create", "update", "complete"}
  <1>1. tx[t].pc = "commit" /\ tx[t].call.op # "resolve"
    BY DEF CommitCommand
  <1>2. tx[t] \in Transaction /\ SessionOK(tx[t]) /\ tx[t].call.key \in Key /\ tx[t].call.op \in Op
          /\ tx[t].call \in CallType
    BY <1>1, CallFields DEF Inv
  <1>3. Inserted(tx[t]) /\ executions[tx[t].call.key].status = "none" /\ CommandOutcome(tx[t])
    BY <1>1, <1>2 DEF Inserted, InsertedPC, SessionOK, KeyOK, OutcomeOK
  <1>4. requests[tx[t].call.key].status = "none"
    BY <1>2, <1>3 DEF Inv, RequestsOK
  <1>5. tx[t].row # None => tx[t].row \in TaskId /\ tx[t].call.op \in {"create", "update", "complete"}
    BY <1>1, <1>2, <1>3 DEF SessionOK, RowOK, CommandOutcome, Op, Outcome
  <1> QED
    BY <1>1, <1>2, <1>3, <1>4, <1>5 DEF CommitCommand, FinishExecution, Transaction, SessionOK

\* The row a command writes.
LEMMA CommandRow ==
    ASSUME Inv, NEW t \in Tx, CommitCommand(t)
    PROVE  /\ tasks' \in [TaskId -> Row]
           /\ \A x \in TaskId :
                 /\ x # tx[t].row => tasks'[x] = tasks[x]
                 /\ tasks'[x].status = "deleted" <=> tasks[x].status = "deleted"
                 /\ tasks[x].status # "free" => tasks'[x].status # "free"
                 /\ tasks[x].status = "completed" => tasks'[x].status = "completed"
                 /\ x = tx[t].row => Live(x)'
                 /\ x = tx[t].row /\ tx[t].call.op = "complete" => tasks'[x].status = "completed"
                 /\ tasks[x].status # "free" => tasks'[x].owner = tasks[x].owner
                 /\ x = tx[t].row /\ tx[t].call.op = "create" => tasks'[x].owner = tx[t].call.user
  <1> DEFINE s == tx[t]
             y == s.row
  <1>1. tasks' = [x \in TaskId |-> IF x = y THEN WrittenRow(s) ELSE tasks[x]]
    BY DEF CommitCommand, CommitTasks
  <1>2. /\ s.call \in CallType /\ RowOK(s)
        /\ s.row # None => s.row \in TaskId /\ s.call.op \in {"create", "update", "complete"}
    BY CommandCommit
  <1>3. s.call.op \in {"create", "update"} => s.call.title \in Title
    <2>1. tx[t].pc # "idle"
      BY DEF CommitCommand
    <2> QED
      BY <2>1, CallFields DEF Inv
  <1>4. tasks \in [TaskId -> Row]
    BY DEF Inv, TypeOK
  <1>5. CASE y = None
    BY <1>1, <1>4, <1>5, NoneAssumption
  <1>6. CASE y # None
    <2>1. y \in TaskId /\ y # None
      BY <1>2, <1>6
    <2>2. CASE s.call.op = "create"
      <3>1. WrittenRow(s) = [owner |-> s.call.user, title |-> s.call.title, status |-> "active"]
        BY <2>2 DEF WrittenRow
      <3>2. WrittenRow(s) \in LiveRow /\ WrittenRow(s).status = "active"
              /\ WrittenRow(s).owner = s.call.user
        BY <1>2, <1>3, <2>2, <3>1 DEF LiveRow, CallType
      <3>3. tasks[y].status = "free"
        BY <1>2, <1>6, <2>2 DEF RowOK
      <3> QED
        BY <1>1, <1>4, <2>1, <2>2, <3>2, <3>3 DEF Row, Live
    <2>3. CASE s.call.op # "create"
      <3>1. Live(y) /\ tasks[y] \in LiveRow
        BY <1>2, <1>4, <1>6, <2>1, <2>3 DEF RowOK, Row, Live, FreeRow, DeletedRow
      <3>2. CASE s.call.op = "update"
        <4>1. WrittenRow(s) = [tasks[y] EXCEPT !.title = s.call.title]
          BY <3>2 DEF WrittenRow
        <4>2. WrittenRow(s) \in LiveRow /\ WrittenRow(s).status = tasks[y].status
                /\ WrittenRow(s).owner = tasks[y].owner
          BY <1>3, <3>1, <3>2, <4>1 DEF LiveRow
        <4> QED
          BY <1>1, <1>4, <2>1, <3>1, <3>2, <4>2 DEF Row, Live
      <3>3. CASE s.call.op = "complete"
        <4>1. WrittenRow(s) = [tasks[y] EXCEPT !.status = "completed"]
          BY <3>3 DEF WrittenRow
        <4>2. WrittenRow(s) \in LiveRow /\ WrittenRow(s).status = "completed"
                /\ WrittenRow(s).owner = tasks[y].owner
          BY <3>1, <4>1 DEF LiveRow
        <4> QED
          BY <1>1, <1>4, <2>1, <3>1, <3>3, <4>2 DEF Row, Live
      <3> QED
        BY <1>2, <1>6, <2>3, <3>2, <3>3
    <2> QED
      BY <2>2, <2>3
  <1> QED
    BY <1>5, <1>6

\* The request a command creates is a new, pending one about a known task.
LEMMA CommandRequest ==
    ASSUME Inv, NEW t \in Tx, CommitCommand(t)
    PROVE  LET k == tx[t].call.key
           IN  /\ requests' \in [Key -> Request]
               /\ \A l \in Key \ {k} : requests'[l] = requests[l]
               /\ IF tx[t].outcome.status = "awaiting_confirmation"
                  THEN /\ requests'[k].status = "pending" /\ requests'[k].task = tx[t].task
                       /\ tx[t].task \in TaskId /\ tasks[tx[t].task].status # "free"
                  ELSE requests'[k].status = "none"
  <1> DEFINE s == tx[t]
             k == s.call.key
             r == [status |-> "pending", user |-> s.call.user, task |-> s.task,
                   expires |-> s.now + TTL, resolved |-> 0]
  <1>1. /\ requests \in [Key -> Request] /\ k \in Key /\ requests[k].status = "none"
        /\ CommandOutcome(s)
    BY CommandCommit DEF Inv, TypeOK
  <1>2. s \in Transaction /\ s.call.user \in User
    <2>1. tx[t].pc # "idle"
      BY DEF CommitCommand
    <2> QED
      BY <2>1, CallFields DEF Inv
  <1>3. r \in Request
    BY <1>2, TimeAssumption DEF Request, Transaction, RequestStatus
  <1>4. s.outcome.status = "awaiting_confirmation"
          => s.task \in TaskId /\ tasks[s.task].status # "free"
    BY <1>1 DEF CommandOutcome, Outcome
  <1>5. requests' = IF s.outcome.status # "awaiting_confirmation" THEN requests
                    ELSE [requests EXCEPT ![k] = r]
    BY DEF CommitCommand
  <1> HIDE DEF r
  <1>6. r.status = "pending" /\ r.task = s.task
    BY DEF r
  <1> QED
    BY <1>1, <1>3, <1>4, <1>5, <1>6

LEMMA CommitCommandInv ==
    ASSUME Inv, NEW t \in Tx, CommitCommand(t)
    PROVE  Inv'
  <1> DEFINE s == tx[t]
             k == s.call.key
             o == s.outcome
  <1>1. /\ s.pc = "commit" /\ o \in Execution /\ k \in Key /\ CommandOutcome(s)
        /\ Inserted(s) /\ executions[k].status = "none" /\ requests[k].status = "none"
        /\ executions' = [executions EXCEPT ![k] = o]
    BY CommandCommit
  <1>2. Finish(t, o.status, AnswerError(o), o.effect) /\ UNCHANGED clock
    BY DEF CommitCommand
  <1>3. \A u \in Tx \ {t} : Inserted(tx[u]) \/ tx[u].verdict # "none" => tx[u].call.key # k
    BY <1>1 DEF Inv, LocksExclude, SessionOK, VerdictOK, IdleOK
  <1>4. OthersKept(t, k)
    BY <1>1, <1>2, <1>3, CommitAnswer, CommandRow, CommandRequest DEF OthersKept, Inv, TypeOK
  <1>5. TypeOK'
    BY <1>1, <1>2, CommitAnswer, CommandRow, CommandRequest DEF Inv, TypeOK
  <1>6. executions'[k] = o /\ \A l \in Key \ {k} : executions'[l] = executions[l]
    BY <1>1 DEF Inv, TypeOK
  <1>7. /\ o.status \notin {"none", "rejected"} /\ o.error # "CONFIRMATION_EXPIRED"
        /\ o.effect # "task_deleted"
    BY <1>1 DEF CommandOutcome, Outcome
  <1>8. RequestsOK'
    BY <1>6, <1>7, CommandRow, CommandRequest DEF Inv, RequestsOK
  <1>9. RequestAndExecutionAgree'
    BY <1>6, <1>7, CommandRequest DEF Inv, RequestAndExecutionAgree
  <1>10. DecidedInTime'
    BY CommandRequest DEF Inv, DecidedInTime
  <1>11. EveryDeletionWasConfirmed'
    <2>1. ASSUME NEW x \in TaskId, tasks[x].status = "deleted"
          PROVE  \E l \in Key : /\ requests'[l].status = "consumed" /\ requests'[l].task = x
                                /\ requests'[l].resolved < requests'[l].expires
                                /\ executions'[l] = Outcome("executed", "task_deleted", "none", x)
      <3>1. PICK l \in Key : /\ requests[l].status = "consumed" /\ requests[l].task = x
                             /\ requests[l].resolved < requests[l].expires
                             /\ executions[l] = Outcome("executed", "task_deleted", "none", x)
        BY <2>1 DEF Inv, EveryDeletionWasConfirmed
      <3>2. l # k
        BY <1>1, <3>1
      <3> QED
        BY <1>6, <3>1, <3>2, CommandRequest
    <2> QED
      BY <2>1, CommandRow DEF EveryDeletionWasConfirmed, Outcome
  <1>12. EffectsAreTrue'
    <2>1. ASSUME NEW l \in Key \ {k}
          PROVE  LET e == executions'[l]
                 IN  /\ e.effect \in TaskEffect => e.task \in TaskId /\ tasks'[e.task].status # "free"
                     /\ e.effect = "task_completed" => tasks'[e.task].status \in {"completed", "deleted"}
                     /\ e.effect = "task_deleted" => tasks'[e.task].status = "deleted"
      <3>1. executions'[l] = executions[l]
        BY <1>6
      <3> QED
        BY <3>1, CommandRow DEF Inv, EffectsAreTrue, TaskEffect
    <2>2. /\ o.effect \in TaskEffect => o.task \in TaskId /\ tasks'[o.task].status # "free"
          /\ o.effect = "task_completed" => tasks'[o.task].status = "completed"
      BY <1>1, CommandRow DEF CommandOutcome, Outcome, Live, TaskEffect
    <2> QED
      BY <1>6, <1>7, <2>1, <2>2 DEF EffectsAreTrue, TaskEffect
  <1>13. /\ LocksExclude'
         /\ \A u \in Tx : IF tx'[u].pc = "idle" THEN IdleOK(tx[u])' ELSE SessionOK(tx[u])'
    BY <1>1, <1>4, CommitReleases
  <1> QED
    BY <1>5, <1>8, <1>9, <1>10, <1>11, <1>12, <1>13 DEF Inv

\* What a decision commits: it resolves the pending request it locked, records
\* the outcome in the execution that waited for it, and deletes at most the
\* request's task.
LEMMA DecisionCommit ==
    ASSUME Inv, NEW t \in Tx, CommitDecision(t)
    PROVE  LET s == tx[t]
               k == s.call.key
           IN  /\ s.pc = "commit" /\ s.call.op = "resolve"
               /\ s \in Transaction /\ s.outcome \in Execution /\ k \in Key /\ s.now \in Nat
               /\ DecisionOutcome(s) /\ RowOK(s) /\ VerdictOK(s) /\ s.verdict # "none"
               /\ requests[k].status = "pending" /\ executions[k].status = "awaiting_confirmation"
               /\ s.call.user = requests[k].user
               /\ s.task \in TaskId /\ s.task = requests[k].task /\ tasks[s.task].status # "free"
               /\ executions' = [executions EXCEPT ![k] = s.outcome]
  <1>1. tx[t].pc = "commit" /\ tx[t].call.op = "resolve"
    BY DEF CommitDecision
  <1>2. tx[t] \in Transaction /\ SessionOK(tx[t]) /\ tx[t].call.key \in Key
    BY <1>1, CallFields DEF Inv
  <1>3. DecisionOutcome(tx[t]) /\ RowOK(tx[t]) /\ VerdictOK(tx[t])
    BY <1>1, <1>2 DEF SessionOK, OutcomeOK
  <1>4. tx[t].verdict # "none" /\ requests[tx[t].call.key].status = "pending"
    BY <1>1, <1>3 DEF VerdictOK
  <1>5. executions[tx[t].call.key].status = "awaiting_confirmation"
    BY <1>2, <1>4 DEF Inv, RequestAndExecutionAgree
  <1> QED
    BY <1>1, <1>2, <1>3, <1>4, <1>5, ResolvedTask DEF CommitDecision, FinishExecution, Transaction

\* The row a decision deletes was live until then.
LEMMA DecisionRow ==
    ASSUME Inv, NEW t \in Tx, CommitDecision(t)
    PROVE  /\ tasks' \in [TaskId -> Row]
           /\ \A x \in TaskId : IF x = tx[t].row THEN tasks'[x] = DeletedRow /\ Live(x)
                               ELSE tasks'[x] = tasks[x]
  <1> DEFINE s == tx[t]
  <1>1. s.call.op = "resolve" /\ RowOK(s)
    BY DecisionCommit
  <1>2. WrittenRow(s) = DeletedRow
    BY <1>1 DEF WrittenRow
  <1>3. tasks' = [x \in TaskId |-> IF x = s.row THEN DeletedRow ELSE tasks[x]]
    BY <1>2 DEF CommitDecision, CommitTasks
  <1>4. s.row # None => Live(s.row)
    BY <1>1 DEF RowOK
  <1> QED
    BY <1>3, <1>4, NoneAssumption DEF Inv, TypeOK, Row

LEMMA DecisionRequest ==
    ASSUME Inv, NEW t \in Tx, CommitDecision(t)
    PROVE  LET s == tx[t]
               k == s.call.key
           IN  /\ requests' \in [Key -> Request]
               /\ \A l \in Key \ {k} : requests'[l] = requests[l]
               /\ requests'[k].status = IF s.verdict = "confirmed" THEN "consumed" ELSE s.verdict
               /\ requests'[k].task = s.task /\ requests'[k].resolved = s.now
               /\ requests'[k].expires = requests[k].expires
               /\ requests'[k].user = requests[k].user
  <1> DEFINE s == tx[t]
             k == s.call.key
             r == [requests[k] EXCEPT !.status = IF s.verdict = "confirmed" THEN "consumed" ELSE s.verdict,
                                      !.resolved = s.now]
  <1>1. /\ requests \in [Key -> Request] /\ k \in Key /\ s \in Transaction /\ s.verdict # "none"
        /\ s.task = requests[k].task /\ requests[k] \in Request
    BY DecisionCommit DEF Inv, TypeOK
  <1>2. /\ r \in Request /\ r.status = (IF s.verdict = "confirmed" THEN "consumed" ELSE s.verdict)
        /\ r.task = s.task /\ r.resolved = s.now /\ r.expires = requests[k].expires
        /\ r.user = requests[k].user
    BY <1>1 DEF Request, RequestStatus, Transaction
  <1>3. requests' = [requests EXCEPT ![k] = r]
    BY DEF CommitDecision, ResolvedStatus
  <1> HIDE DEF r
  <1> QED
    BY <1>1, <1>2, <1>3

LEMMA CommitDecisionInv ==
    ASSUME Inv, NEW t \in Tx, CommitDecision(t)
    PROVE  Inv'
  <1> DEFINE s == tx[t]
             k == s.call.key
             o == s.outcome
  <1>1. /\ s.pc = "commit" /\ s.call.op = "resolve" /\ o \in Execution /\ k \in Key
        /\ DecisionOutcome(s) /\ RowOK(s) /\ VerdictOK(s) /\ s.verdict # "none"
        /\ requests[k].status = "pending" /\ executions[k].status = "awaiting_confirmation"
        /\ s.task \in TaskId /\ s.task = requests[k].task /\ tasks[s.task].status # "free"
        /\ executions' = [executions EXCEPT ![k] = o] /\ s \in Transaction
    BY DecisionCommit
  <1>2. Finish(t, o.status, AnswerError(o), o.effect) /\ UNCHANGED clock
    BY DEF CommitDecision
  <1>3. /\ \A x \in TaskId : tasks[x].status # "free" => tasks'[x].status # "free"
        /\ \A x \in TaskId : tasks[x].status = "deleted" => tasks'[x].status = "deleted"
        /\ \A x \in TaskId : tasks[x].status = "completed"
                                => tasks'[x].status \in {"completed", "deleted"}
    BY DecisionRow DEF DeletedRow
  <1>4. s.verdict \in {"confirmed", "cancelled", "expired"}
    BY <1>1 DEF Transaction
  <1>5. executions'[k] = o /\ \A l \in Key \ {k} : executions'[l] = executions[l]
    BY <1>1 DEF Inv, TypeOK
  <1>6. OthersKept(t, k)
    <2>1. \A u \in Tx \ {t} : Inserted(tx[u]) => tx[u].call.key # k
      BY <1>1 DEF Inv, SessionOK, KeyOK, Inserted, InsertedPC
    <2>2. \A u \in Tx \ {t} : tx[u].verdict # "none" => tx[u].call.key # k
      BY <1>1 DEF Inv, LocksExclude
    <2>3. /\ requests'[k].status # "none" /\ requests'[k].task = requests[k].task
          /\ requests'[k].user = requests[k].user
      BY <1>1, <1>4, DecisionRequest
    <2>4. \A x \in TaskId : x # tx[t].row => tasks'[x] = tasks[x]
      BY DecisionRow
    <2>5. \A l \in Key \ {k} : requests'[l] = requests[l]
      BY DecisionRequest
    <2>6. tx' = [tx EXCEPT ![t] = NoTransaction]
      BY <1>1, <1>2, CommitAnswer
    <2> QED
      BY <1>3, <1>5, <2>1, <2>2, <2>3, <2>4, <2>5, <2>6 DEF OthersKept
  <1>7. TypeOK'
    BY <1>1, <1>2, CommitAnswer, DecisionRow, DecisionRequest DEF Inv, TypeOK
  <1>8. \/ s.verdict = "confirmed" /\ o = Outcome("executed", "task_deleted", "none", s.task)
           /\ (s.row = s.task \/ tasks[s.task].status = "deleted")
        \/ s.verdict = "confirmed" /\ o = Outcome("failed", "task_delete_failed", "TASK_NOT_FOUND", s.task)
           /\ s.row = None
        \/ s.verdict = "cancelled" /\ o = Outcome("rejected", "task_delete_cancelled", "none", None)
           /\ s.row = None
        \/ s.verdict = "expired" /\ s.row = None
           /\ o = Outcome("failed", "task_delete_failed", "CONFIRMATION_EXPIRED", None)
    BY <1>1 DEF DecisionOutcome
  <1>9. RequestsOK'
    <2>1. \A l \in Key \ {k} : /\ executions'[l] = executions[l] /\ requests'[l] = requests[l]
      BY <1>5, DecisionRequest
    <2>2. executions'[k].status # "none" /\ requests'[k].task = s.task
      BY <1>5, <1>8, DecisionRequest DEF Outcome
    <2>3. ASSUME NEW l \in Key \ {k}
          PROVE  /\ executions'[l].status = "none" => requests'[l].status = "none"
                 /\ requests'[l].status # "none" => /\ requests'[l].task \in TaskId
                                                   /\ tasks'[requests'[l].task].status # "free"
      BY <1>3, <2>1 DEF Inv, RequestsOK
    <2>4. requests'[k].task \in TaskId /\ tasks'[requests'[k].task].status # "free"
      BY <1>1, <1>3, <2>2
    <2> QED
      BY <2>2, <2>3, <2>4 DEF RequestsOK
  <1>10. RequestAndExecutionAgree'
    <2>1. requests'[k].status = IF s.verdict = "confirmed" THEN "consumed" ELSE s.verdict
      BY DecisionRequest
    <2>2. /\ requests'[k].status # "pending" /\ o.status # "awaiting_confirmation"
          /\ requests'[k].status = "cancelled" <=> o.status = "rejected"
          /\ requests'[k].status = "expired" <=> o.error = "CONFIRMATION_EXPIRED"
          /\ requests'[k].status = "consumed" => o.status \in {"executed", "failed"}
          /\ o.effect = "task_deleted" => requests'[k].status = "consumed"
      BY <1>8, <2>1 DEF Outcome
    <2>3. \A l \in Key \ {k} : executions'[l] = executions[l] /\ requests'[l] = requests[l]
      BY <1>5, DecisionRequest
    <2> QED
      BY <1>5, <2>2, <2>3 DEF Inv, RequestAndExecutionAgree
  <1>11. DecidedInTime'
    <2>1. /\ requests'[k].status = "expired" => requests'[k].resolved >= requests'[k].expires
          /\ requests'[k].status \in {"consumed", "cancelled"}
               => requests'[k].resolved < requests'[k].expires
      BY <1>1, <1>4, DecisionRequest DEF VerdictOK
    <2>2. \A l \in Key \ {k} : requests'[l] = requests[l]
      BY DecisionRequest
    <2> QED
      BY <2>1, <2>2 DEF Inv, DecidedInTime
  <1>12. EveryDeletionWasConfirmed'
    <2>1. ASSUME NEW x \in TaskId, tasks[x].status = "deleted"
          PROVE  \E l \in Key : /\ requests'[l].status = "consumed" /\ requests'[l].task = x
                                /\ requests'[l].resolved < requests'[l].expires
                                /\ executions'[l] = Outcome("executed", "task_deleted", "none", x)
      <3>1. PICK l \in Key : /\ requests[l].status = "consumed" /\ requests[l].task = x
                             /\ requests[l].resolved < requests[l].expires
                             /\ executions[l] = Outcome("executed", "task_deleted", "none", x)
        BY <2>1 DEF Inv, EveryDeletionWasConfirmed
      <3>2. l # k
        BY <1>1, <3>1
      <3> QED
        BY <1>5, <3>1, <3>2, DecisionRequest
    <2>2. ASSUME NEW x \in TaskId, tasks[x].status # "deleted", tasks'[x].status = "deleted"
          PROVE  /\ requests'[k].status = "consumed" /\ requests'[k].task = x
                 /\ requests'[k].resolved < requests'[k].expires
                 /\ executions'[k] = Outcome("executed", "task_deleted", "none", x)
      <3>1. x = s.row /\ s.row # None
        BY <2>2, DecisionRow, NoneAssumption
      <3>2. s.row = s.task /\ s.verdict = "confirmed" /\ o = Outcome("executed", "task_deleted", "none", x)
        BY <1>1, <1>8, <3>1 DEF RowOK
      <3>3. /\ requests'[k].status = "consumed" /\ requests'[k].task = x
            /\ requests'[k].resolved = s.now /\ requests'[k].expires = requests[k].expires
        BY <3>1, <3>2, DecisionRequest
      <3> QED
        BY <1>1, <1>5, <3>2, <3>3 DEF VerdictOK
    <2> QED
      BY <1>1, <2>1, <2>2 DEF EveryDeletionWasConfirmed, Outcome
  <1>13. EffectsAreTrue'
    <2>1. ASSUME NEW l \in Key \ {k}
          PROVE  LET e == executions'[l]
                 IN  /\ e.effect \in TaskEffect => e.task \in TaskId /\ tasks'[e.task].status # "free"
                     /\ e.effect = "task_completed" => tasks'[e.task].status \in {"completed", "deleted"}
                     /\ e.effect = "task_deleted" => tasks'[e.task].status = "deleted"
      <3>1. executions'[l] = executions[l]
        BY <1>5
      <3> QED
        BY <1>3, <3>1 DEF Inv, EffectsAreTrue, TaskEffect
    <2>2. /\ o.effect \in TaskEffect => o.effect = "task_deleted" /\ o.task \in TaskId
          /\ o.effect = "task_deleted" => tasks'[o.task].status = "deleted"
      BY <1>1, <1>3, <1>8, DecisionRow DEF Outcome, TaskEffect, DeletedRow
    <2> QED
      BY <1>5, <2>1, <2>2 DEF EffectsAreTrue, TaskEffect
  <1>14. /\ LocksExclude'
         /\ \A u \in Tx : IF tx'[u].pc = "idle" THEN IdleOK(tx[u])' ELSE SessionOK(tx[u])'
    BY <1>1, <1>6, CommitReleases
  <1> QED
    BY <1>7, <1>9, <1>10, <1>11, <1>12, <1>13, <1>14 DEF Inv

-----------------------------------------------------------------------------
(* The invariant *)

LEMMA BeginInv ==
    ASSUME Inv, NEW t \in Tx, NEW c \in Call, Begin(t, c)
    PROVE  Inv'
  <1> DEFINE pc == IF c.op = "resolve" THEN "request" ELSE "lookup"
             s == [NoTransaction EXCEPT !.call = c, !.pc = pc]
  <1>1. /\ s \in Transaction /\ s.call = c /\ s.pc = pc /\ s.row = None /\ s.verdict = "none"
        /\ pc \in {"request", "lookup"} /\ s.pc # "idle"
    BY NoTransactionType DEF Transaction, PC, NoTransaction
  <1>2. SessionOK(s)
    BY <1>1 DEF SessionOK, PlaceOK, KeyOK, VerdictOK, RowOK, OutcomeOK, Inserted, InsertedPC
  <1>3. ~Inserted(s)
    BY <1>1 DEF Inserted, InsertedPC
  <1>4. NoReply \in Reply
    BY DEF NoReply, Reply, ErrorCode, Effect
  <1>5. tx' = [tx EXCEPT ![t] = s] /\ reply' = [reply EXCEPT ![t] = NoReply]
    BY DEF Begin
  <1>6. reply' \in [Tx -> Reply]
    BY <1>4, <1>5 DEF Inv, TypeOK
  <1>7. UNCHANGED <<tasks, executions, requests, clock>>
    BY DEF Begin, committed
  <1> HIDE DEF s
  <1>8. \A u \in Tx \ {t} :
              /\ s.row # None => s.row # tx[u].row
              /\ Inserted(s) /\ Inserted(tx[u]) => s.call.key # tx[u].call.key
              /\ s.verdict # "none" /\ tx[u].verdict # "none" => s.call.key # tx[u].call.key
    BY <1>1, <1>3
  <1> QED
    BY <1>1, <1>2, <1>5, <1>6, <1>7, <1>8, SessionStep

LEMMA RollbackInv ==
    ASSUME Inv, NEW t \in Tx, Rollback(t)
    PROVE  Inv'
  BY AnswerStep DEF Rollback, Raise, committed, ErrorCode, Effect

LEMMA ClockInv ==
    ASSUME Inv, clock' \in 0 .. MaxClock, UNCHANGED <<tasks, executions, requests, tx, reply>>
    PROVE  Inv'
  <1>1. TypeOK'
    BY DEF Inv, TypeOK
  <1>2. (LocksExclude /\ RequestsOK /\ RequestAndExecutionAgree /\ DecidedInTime /\ EffectsAreTrue
          /\ EveryDeletionWasConfirmed)'
    BY DEF Inv, LocksExclude, RequestsOK, RequestAndExecutionAgree, DecidedInTime, EffectsAreTrue,
           EveryDeletionWasConfirmed, Inserted
  <1>3. ASSUME NEW t \in Tx
        PROVE  IF tx'[t].pc = "idle" THEN IdleOK(tx[t])' ELSE SessionOK(tx[t])'
    BY DEF Inv, IdleOK, SessionOK, PlaceOK, KeyOK, VerdictOK, RowOK, OutcomeOK, WriteOutcome,
           DecisionOutcome, CommandOutcome, Live, Inserted
  <1> QED
    BY <1>1, <1>2, <1>3 DEF Inv

LEMMA InitInv == Init => Inv
  <1> SUFFICES ASSUME Init PROVE Inv
    OBVIOUS
  <1>1. TypeOK
    <2>1. tasks \in [TaskId -> Row]
      BY SeededAssumption DEF Init, Row, LiveRow
    <2>2. NoExecution \in Execution /\ NoRequest \in Request /\ NoReply \in Reply
      BY DEF NoExecution, NoRequest, NoReply, Execution, ExecutionStatus, Effect, ErrorCode,
             Request, RequestStatus, Reply
    <2>3. clock \in 0 .. MaxClock
      BY TimeAssumption DEF Init
    <2> QED
      BY <2>1, <2>2, <2>3, NoTransactionType DEF Init, TypeOK, NoTransaction
  <1>2. LocksExclude
    BY DEF Init, LocksExclude, NoTransaction, Inserted, InsertedPC
  <1>3. RequestsOK /\ RequestAndExecutionAgree /\ DecidedInTime /\ EffectsAreTrue
    BY DEF Init, RequestsOK, RequestAndExecutionAgree, DecidedInTime, EffectsAreTrue,
           NoRequest, NoExecution, TaskEffect
  <1>4. EveryDeletionWasConfirmed
    BY SeededAssumption DEF Init, EveryDeletionWasConfirmed, FreeRow
  <1>5. \A t \in Tx : tx[t].pc = "idle" /\ IdleOK(tx[t])
    BY DEF Init, NoTransaction, IdleOK
  <1> QED
    BY <1>1, <1>2, <1>3, <1>4, <1>5 DEF Inv

\* Every step of every session, and of the clock, keeps the invariant.
LEMMA NextInv == Inv /\ [Next]_vars => Inv'
  <1> SUFFICES ASSUME Inv, [Next]_vars PROVE Inv'
    OBVIOUS
  <1>1. ASSUME NEW t \in Tx, Step(t) PROVE Inv'
    BY <1>1, LookupInv, ReplayInv, CreateReceivedInv, CreateTaskInv, SearchInv,
       SelectToCompleteInv, SelectToUpdateInv, ReselectToUpdateInv, SelectToDeleteInv,
       WriteTaskInv, ReadRequestInv, ReadExecutionInv, TransitionPendingInv,
       SelectConfirmedInv, CommitCommandInv, CommitDecisionInv DEF Step
  <1>2. ASSUME NEW t \in Tx, Rollback(t) PROVE Inv'
    BY <1>2, RollbackInv
  <1>3. ASSUME NEW t \in Tx, NEW c \in Call, Begin(t, c) PROVE Inv'
    BY <1>3, BeginInv
  <1>4. CASE Tick
    <2>1. clock' \in 0 .. MaxClock
      BY <1>4, TimeAssumption DEF Tick, Inv, TypeOK
    <2> QED
      BY <1>4, <2>1, ClockInv DEF Tick, committed
  <1>5. CASE UNCHANGED vars
    BY <1>5, ClockInv DEF vars, Inv, TypeOK
  <1> QED
    BY <1>1, <1>2, <1>3, <1>4, <1>5 DEF Next

\* What a session knows at each statement, and what its locks keep from the
\* others, holds for every number of sessions, keys and tasks.
THEOREM Invariance == Spec => []Inv
  <1>1. Init => Inv
    BY InitInv
  <1>2. Inv /\ [Next]_vars => Inv'
    BY NextInv
  <1> QED
    BY <1>1, <1>2, PTL DEF Spec

\* The tables and the sessions stay well formed.
THEOREM TypeCorrect == Spec => []TypeOK
  <1>1. Inv => TypeOK
    BY DEF Inv
  <1> QED
    BY <1>1, Invariance, PTL

\* A task is deleted only with a request of its own that was confirmed before
\* it expired, by an execution that says so.
THEOREM DeletionsConfirmed == Spec => []EveryDeletionWasConfirmed
  <1>1. Inv => EveryDeletionWasConfirmed
    BY DEF Inv
  <1> QED
    BY <1>1, Invariance, PTL

\* A confirmation request and its execution always tell the same story.
THEOREM Agreement == Spec => []RequestAndExecutionAgree
  <1>1. Inv => RequestAndExecutionAgree
    BY DEF Inv
  <1> QED
    BY <1>1, Invariance, PTL

\* Requests are decided strictly before they expire and expire no earlier.
THEOREM Timeliness == Spec => []DecidedInTime
  <1>1. Inv => DecidedInTime
    BY DEF Inv
  <1> QED
    BY <1>1, Invariance, PTL

\* What a committed execution reports has happened to the row it names.
THEOREM Truthfulness == Spec => []EffectsAreTrue
  <1>1. Inv => EffectsAreTrue
    BY DEF Inv
  <1> QED
    BY <1>1, Invariance, PTL

-----------------------------------------------------------------------------
(* What a step may never do *)

\* Only commits change the committed rows.
LEMMA OnlyCommits ==
    ASSUME [Next]_vars
    PROVE  UNCHANGED committed \/ \E t \in Tx : CommitCommand(t) \/ CommitDecision(t)
  <1>1. ASSUME NEW t \in Tx,
               \/ Lookup(t) \/ Replay(t) \/ CreateReceived(t) \/ CreateTask(t) \/ Search(t)
        PROVE  UNCHANGED committed
    BY <1>1 DEF Lookup, Replay, CreateReceived, CreateTask, Search, Goto, Conclude, Raise
  <1>2. ASSUME NEW t \in Tx,
               \/ SelectToComplete(t) \/ SelectToUpdate(t) \/ ReselectToUpdate(t)
               \/ SelectToDelete(t) \/ WriteTask(t)
        PROVE  UNCHANGED committed
    BY <1>2 DEF SelectToComplete, SelectToUpdate, ReselectToUpdate, SelectToDelete, WriteTask,
                Goto, Conclude, Raise
  <1>3. ASSUME NEW t \in Tx,
               \/ ReadRequest(t) \/ ReadExecution(t) \/ TransitionPending(t) \/ SelectConfirmed(t)
        PROVE  UNCHANGED committed
    BY <1>3 DEF ReadRequest, ReadExecution, TransitionPending, SelectConfirmed, Conclude
  <1>4. ASSUME NEW t \in Tx, Rollback(t) \/ \E c \in Call : Begin(t, c)
        PROVE  UNCHANGED committed
    BY <1>4 DEF Rollback, Raise, Begin
  <1>5. Tick \/ UNCHANGED vars => UNCHANGED committed
    BY DEF Tick, vars, committed
  <1> QED
    BY <1>1, <1>2, <1>3, <1>4, <1>5 DEF Next, Step

\* A command starts an unused key.
LEMMA CommandKey ==
    ASSUME Inv, NEW t \in Tx, CommitCommand(t)
    PROVE  \E k \in Key : /\ executions[k].status = "none" /\ requests[k].status = "none"
                          /\ executions'[k] = tx[t].outcome
                          /\ \A l \in Key \ {k} : /\ executions'[l] = executions[l]
                                                 /\ requests'[l] = requests[l]
  BY CommandCommit, CommandRequest DEF Inv, TypeOK

\* A decision finishes a key whose execution waits for it.
LEMMA DecisionKey ==
    ASSUME Inv, NEW t \in Tx, CommitDecision(t)
    PROVE  \E k \in Key : /\ executions[k].status = "awaiting_confirmation"
                          /\ requests[k].status = "pending"
                          /\ executions'[k] = tx[t].outcome
                          /\ \A l \in Key \ {k} : /\ executions'[l] = executions[l]
                                                 /\ requests'[l] = requests[l]
  BY DecisionCommit, DecisionRequest DEF Inv, TypeOK

\* The property of one step that ResolvedIsFinal states of all.
Final ==
    \A k \in Key :
        /\ requests[k].status \notin {"none", "pending"} => requests'[k] = requests[k]
        /\ executions[k].status \notin {"none", "awaiting_confirmation"}
              => executions'[k] = executions[k]

\* No resolved request and no finished execution is ever rewritten.
THEOREM Finality == Spec => ResolvedIsFinal
  <1>1. Inv /\ [Next]_vars => [Final]_vars
    <2> SUFFICES ASSUME Inv, [Next]_vars PROVE Final
      OBVIOUS
    <2>1. CASE UNCHANGED committed
      BY <2>1 DEF committed, Final
    <2>2. ASSUME NEW t \in Tx, CommitCommand(t) \/ CommitDecision(t) PROVE Final
      BY <2>2, CommandKey, DecisionKey DEF Final
    <2> QED
      BY <2>1, <2>2, OnlyCommits
  <1>2. ResolvedIsFinal <=> [][Final]_vars
    BY DEF ResolvedIsFinal, Final
  <1> QED
    BY <1>1, <1>2, Invariance, PTL DEF Spec

\* The property of one step that OneEffectPerExecution states of all.
OneEffect ==
    \A x \in TaskId : tasks'[x] # tasks[x] =>
        \E k \in Key :
            /\ executions'[k].status = "executed" /\ executions'[k].task = x
            /\ executions[k].status \in {"none", "awaiting_confirmation"}
            /\ \A l \in Key \ {k} : executions'[l] = executions[l]
            /\ \A y \in TaskId \ {x} : tasks'[y] = tasks[y]

\* A row changes only with the one execution that names it: no replayed or
\* concurrent call acts a second time.
THEOREM ExactlyOnce == Spec => OneEffectPerExecution
  <1>1. Inv /\ [Next]_vars => [OneEffect]_vars
    <2> SUFFICES ASSUME Inv, [Next]_vars PROVE OneEffect
      OBVIOUS
    <2>1. CASE UNCHANGED committed
      BY <2>1 DEF committed, OneEffect
    <2>2. ASSUME NEW t \in Tx, CommitCommand(t) PROVE OneEffect
      <3>1. RowOK(tx[t]) /\ CommandOutcome(tx[t])
        BY <2>2, CommandCommit
      <3>2. \A x \in TaskId : x = tx[t].row
              => tx[t].outcome.status = "executed" /\ tx[t].outcome.task = x
        BY <3>1, NoneAssumption DEF RowOK, CommandOutcome, Outcome
      <3> QED
        BY <2>2, <3>2, CommandKey, CommandRow DEF OneEffect
    <2>3. ASSUME NEW t \in Tx, CommitDecision(t) PROVE OneEffect
      <3>1. RowOK(tx[t]) /\ DecisionOutcome(tx[t])
        BY <2>3, DecisionCommit
      <3>2. \A x \in TaskId : x = tx[t].row
              => tx[t].outcome.status = "executed" /\ tx[t].outcome.task = x
        BY <3>1, NoneAssumption DEF RowOK, DecisionOutcome, Outcome
      <3> QED
        BY <2>3, <3>2, DecisionKey, DecisionRow DEF OneEffect
    <2> QED
      BY <2>1, <2>2, <2>3, OnlyCommits
  <1>2. OneEffectPerExecution <=> [][OneEffect]_vars
    BY DEF OneEffectPerExecution, OneEffect
  <1> QED
    BY <1>1, <1>2, Invariance, PTL DEF Spec

-----------------------------------------------------------------------------
(* Ownership: what Inv does not say of the rows a session is about to write *)

\* A session that is about to write has seen its task under its own user, and
\* the row it has written is still its user's.
OwnerOK(s) ==
    /\ s.pc = "write" => /\ tasks[s.task].status # "free"
                         /\ Live(s.task) => tasks[s.task].owner = s.call.user
    /\ s.row # None /\ s.call.op # "create" => tasks[s.row].owner = s.call.user

Owners == \A t \in Tx : OwnerOK(tx[t])

\* A session that answers, or waits at a statement, without having written.
LEMMA OwnersQuiet ==
    ASSUME Inv, Owners, NEW t \in Tx, UNCHANGED tasks,
           \A u \in Tx \ {t} : tx'[u] = tx[u],
           tx'[t].row = None, tx'[t].pc # "write"
    PROVE  Owners'
  BY DEF Owners, OwnerOK, Live

\* Only these sessions come to a write or take a row.
LEMMA OwnersWrites ==
    ASSUME Inv, Owners, NEW t \in Tx,
           \/ SelectToComplete(t) \/ ReselectToUpdate(t) \/ SelectConfirmed(t)
           \/ WriteTask(t) \/ CreateTask(t)
    PROVE  Owners'
  <1>1. UNCHANGED tasks /\ tx[t].pc \notin {"idle", "commit"} /\ tx[t] \in Transaction
    BY DEF SelectToComplete, ReselectToUpdate, SelectConfirmed, WriteTask, CreateTask, Goto,
           Conclude, Raise, committed, Inv, TypeOK
  <1>2. SessionOK(tx[t]) /\ tx[t].row = None
    BY <1>1 DEF Inv, SessionOK, RowOK
  <1>3. \A u \in Tx \ {t} : tx'[u] = tx[u]
    BY DEF SelectToComplete, ReselectToUpdate, SelectConfirmed, WriteTask, CreateTask, Goto,
           Conclude, Raise, Finish, Inv, TypeOK
  <1>4. OwnerOK(tx[t])'
    <2>1. CASE SelectToComplete(t) \/ ReselectToUpdate(t) \/ SelectConfirmed(t)
      <3>1. /\ tx'[t].row = None /\ tx'[t].task = tx[t].task /\ tx'[t].call = tx[t].call
            /\ tx'[t].pc = "write" => Visible(tx[t].call.user, tx[t].task)
        BY <1>1, <1>2, <2>1 DEF SelectToComplete, ReselectToUpdate, SelectConfirmed, Conclude,
           ActiveFor, Inv, TypeOK, Transaction
      <3> QED
        BY <1>1, <3>1 DEF OwnerOK, Visible, Live
    <2>2. CASE WriteTask(t)
      <3>1. tx[t].pc = "write"
        BY <2>2 DEF WriteTask
      <3>2. \/ tx'[t].row = None /\ tx'[t].pc # "write"
            \/ Live(tx[t].task) /\ tx'[t].row = tx[t].task /\ tx'[t].call = tx[t].call
               /\ tx'[t].pc # "write"
        BY <1>1, <1>2, <2>2 DEF WriteTask, Goto, Raise, Finish, NoTransaction, Inv, TypeOK, Transaction
      <3> QED
        BY <1>1, <3>1, <3>2 DEF Owners, OwnerOK
    <2>3. CASE CreateTask(t)
      <3>1. tx'[t].pc = "commit" /\ tx'[t].call = tx[t].call
        <4>1. PICK x \in TaskId : tx' = [tx EXCEPT ![t] = [tx[t] EXCEPT
                 !.pc = "commit", !.task = x, !.row = x,
                 !.outcome = Outcome("executed", "task_created", "none", x)]]
          BY <2>3 DEF CreateTask
        <4> QED
          BY <1>1, <4>1 DEF Inv, TypeOK, Transaction
      <3>2. tx[t].call.op = "create"
        BY <1>2, <2>3 DEF CreateTask, SessionOK, PlaceOK
      <3> QED
        BY <3>1, <3>2 DEF OwnerOK
    <2> QED
      BY <2>1, <2>2, <2>3
  <1> QED
    BY <1>1, <1>3, <1>4 DEF Owners, OwnerOK, Live

\* A commit leaves alone the rows that others locked, and renames, completes or
\* deletes without changing a live row's owner.
LEMMA OwnersCommit ==
    ASSUME Inv, Owners, NEW t \in Tx, CommitCommand(t) \/ CommitDecision(t)
    PROVE  Owners'
  <1>1. tx' = [tx EXCEPT ![t] = NoTransaction]
    BY DEF CommitCommand, CommitDecision, Finish
  <1>2. \A x \in TaskId :
          /\ x # tx[t].row => tasks'[x] = tasks[x]
          /\ tasks[x].status # "free" =>
                /\ tasks'[x].status # "free"
                /\ Live(x)' => Live(x) /\ tasks'[x].owner = tasks[x].owner
    <2>1. CASE CommitCommand(t)
      BY <2>1, CommandRow, CreatedRow DEF Live
    <2>2. CASE CommitDecision(t)
      BY <2>2, DecisionRow DEF DeletedRow, Live
    <2> QED
      BY <2>1, <2>2
  <1>3. ASSUME NEW u \in Tx \ {t} PROVE OwnerOK(tx[u])'
    <2>1. tx'[u] = tx[u]
      BY <1>1 DEF Inv, TypeOK
    <2>2. tx[u].row # None => tx[u].row \in TaskId /\ tx[u].row # tx[t].row
      BY DEF Inv, LocksExclude, IdleOK, SessionOK, RowOK
    <2>3. tx[u].pc = "write" => tx[u].task \in TaskId
      BY DEF Inv, SessionOK, PlaceOK
    <2>4. ASSUME NEW x \in TaskId, x = tx[u].task, tx[u].pc = "write"
          PROVE  tasks'[x].status # "free" /\ (Live(x)' => tasks'[x].owner = tx[u].call.user)
      BY <1>2, <2>4 DEF Owners, OwnerOK
    <2>5. tx[u].row # None /\ tx[u].call.op # "create" => tasks'[tx[u].row].owner = tx[u].call.user
      BY <1>2, <2>2 DEF Owners, OwnerOK
    <2> QED
      BY <2>1, <2>3, <2>4, <2>5 DEF OwnerOK, Live
  <1>4. OwnerOK(tx[t])'
    BY <1>1 DEF OwnerOK, NoTransaction, Inv, TypeOK
  <1> QED
    BY <1>3, <1>4 DEF Owners

LEMMA OwnersNext == Inv /\ Owners /\ [Next]_vars => Owners'
  <1> SUFFICES ASSUME Inv, Owners, [Next]_vars PROVE Owners'
    OBVIOUS
  <1>1. ASSUME NEW t \in Tx,
               \/ Lookup(t) \/ Replay(t) \/ CreateReceived(t) \/ Search(t) \/ SelectToUpdate(t)
               \/ SelectToDelete(t) \/ ReadRequest(t) \/ ReadExecution(t) \/ TransitionPending(t)
        PROVE  Owners'
    <2>1. tx[t].pc \notin {"idle", "commit", "write"} /\ tx[t] \in Transaction
      BY <1>1 DEF Lookup, Replay, CreateReceived, Search, SelectToUpdate, SelectToDelete,
         ReadRequest, ReadExecution, TransitionPending, Inv, TypeOK
    <2>2. tx[t].row = None
      BY <2>1 DEF Inv, SessionOK, RowOK
    <2>3. /\ UNCHANGED tasks /\ \A u \in Tx \ {t} : tx'[u] = tx[u]
          /\ tx'[t].row = None /\ tx'[t].pc # "write"
      <3>1. CASE Lookup(t) \/ Replay(t) \/ CreateReceived(t)
        <4>1. ASSUME NEW e, DuplicateDeletion(t, e) \/ DuplicateCommand(t, e)
              PROVE  tx' = [tx EXCEPT ![t] = NoTransaction]
          BY <4>1 DEF DuplicateDeletion, DuplicateCommand, Finish
        <4>2. CASE Lookup(t)
          BY <2>1, <2>2, <4>1, <4>2 DEF Lookup, Goto, NoTransaction, committed, Inv, TypeOK,
             Transaction
        <4>3. CASE Replay(t) \/ CreateReceived(t)
          BY <2>1, <2>2, <4>3 DEF Replay, CreateReceived, Raise, Finish, NoTransaction, committed,
             Inv, TypeOK, Transaction
        <4> QED
          BY <3>1, <4>2, <4>3
      <3>2. CASE Search(t) \/ SelectToUpdate(t) \/ SelectToDelete(t)
        BY <2>1, <2>2, <3>2 DEF Search, SelectToUpdate, SelectToDelete, Conclude, Goto, committed,
           Inv, TypeOK, Transaction
      <3>3. CASE ReadRequest(t) \/ ReadExecution(t) \/ TransitionPending(t)
        BY <2>1, <2>2, <3>3 DEF ReadRequest, ReadExecution, TransitionPending, Finish, NoTransaction,
           committed, Inv, TypeOK, Transaction
      <3> QED
        BY <1>1, <3>1, <3>2, <3>3
    <2> QED
      BY <2>3, OwnersQuiet
  <1>2. ASSUME NEW t \in Tx, Rollback(t) \/ \E c \in Call : Begin(t, c) PROVE Owners'
    <2>1. /\ UNCHANGED tasks /\ \A u \in Tx \ {t} : tx'[u] = tx[u]
          /\ tx'[t].row = None /\ tx'[t].pc # "write"
      <3>1. CASE Rollback(t)
        BY <3>1 DEF Rollback, Raise, Finish, NoTransaction, committed, Inv, TypeOK
      <3>2. ASSUME NEW c \in Call, Begin(t, c)
            PROVE  /\ UNCHANGED tasks /\ \A u \in Tx \ {t} : tx'[u] = tx[u]
                   /\ tx'[t].row = None /\ tx'[t].pc # "write"
        <4> DEFINE s == [NoTransaction EXCEPT !.call = c,
                           !.pc = IF c.op = "resolve" THEN "request" ELSE "lookup"]
        <4>1. s.row = None /\ s.pc # "write"
          BY DEF NoTransaction
        <4>2. tx' = [tx EXCEPT ![t] = s] /\ UNCHANGED tasks
          BY <3>2 DEF Begin, committed
        <4> HIDE DEF s
        <4> QED
          BY <4>1, <4>2 DEF Inv, TypeOK
      <3> QED
        BY <1>2, <3>1, <3>2
    <2> QED
      BY <2>1, OwnersQuiet
  <1>3. Tick \/ UNCHANGED vars => Owners'
    BY DEF Tick, vars, committed, Owners, OwnerOK, Live
  <1> QED
    BY <1>1, <1>2, <1>3, OwnersWrites, OwnersCommit DEF Next, Step

\* A request belongs to the user whose command created it.
LEMMA RequestOwner ==
    ASSUME Inv, NEW t \in Tx, CommitCommand(t)
    PROVE  requests' = requests \/ requests'[tx[t].call.key].user = tx[t].call.user
  <1>1. requests \in [Key -> Request] /\ tx[t].call.key \in Key
    BY CommandCommit DEF Inv, TypeOK
  <1> QED
    BY <1>1 DEF CommitCommand

\* The property of one step that OwnDataOnly states of all.
OwnOnly ==
    /\ \A t \in Tx, x \in TaskId :
          tx[t] # tx'[t] /\ tasks'[x] # tasks[x]
             => tx[t].call.user = IF tasks[x].status = "free" THEN tasks'[x].owner
                                  ELSE tasks[x].owner
    /\ \A t \in Tx, k \in Key :
          tx[t] # tx'[t] /\ requests'[k] # requests[k] => tx[t].call.user = requests'[k].user
    /\ \A x \in TaskId :
          /\ tasks[x].status = "completed" => tasks'[x].status \in {"completed", "deleted"}
          /\ tasks[x].status = "deleted" => tasks'[x] = tasks[x]

\* A user's call changes no other user's task or request, and no task is
\* reopened or comes back after its deletion.
THEOREM Ownership == Spec => OwnDataOnly
  <1>1. Init => Owners
    BY DEF Init, Owners, OwnerOK, NoTransaction
  <1>2. Inv /\ Owners /\ [Next]_vars => Owners' /\ [OwnOnly]_vars
    <2> SUFFICES ASSUME Inv, Owners, [Next]_vars PROVE OwnOnly
      BY OwnersNext
    <2>1. CASE UNCHANGED committed
      BY <2>1 DEF committed, OwnOnly
    <2>2. ASSUME NEW u \in Tx, CommitCommand(u) \/ CommitDecision(u) PROVE OwnOnly
      <3>1. \A t \in Tx \ {u} : tx'[t] = tx[t]
        BY <2>2 DEF CommitCommand, CommitDecision, Finish, Inv, TypeOK
      <3>2. \A x \in TaskId :
              /\ x # tx[u].row => tasks'[x] = tasks[x]
              /\ x = tx[u].row => tasks[x].status # "deleted"
              /\ tasks[x].status = "completed" => tasks'[x].status \in {"completed", "deleted"}
        <4>1. CASE CommitCommand(u)
          BY <4>1, CommandRow DEF Live
        <4>2. CASE CommitDecision(u)
          BY <4>2, DecisionRow DEF DeletedRow, Live
        <4> QED
          BY <2>2, <4>1, <4>2
      <3>3. ASSUME NEW x \in TaskId, x = tx[u].row
            PROVE  tx[u].call.user = IF tasks[x].status = "free" THEN tasks'[x].owner ELSE tasks[x].owner
        <4>1. RowOK(tx[u]) /\ (tx[u].call.op = "create" => CommitCommand(u))
          BY <2>2, CommandCommit, DecisionCommit
        <4>2. x # None
          BY NoneAssumption
        <4>3. CASE tx[u].call.op = "create"
          BY <3>3, <4>1, <4>2, <4>3, CommandRow DEF RowOK
        <4>4. CASE tx[u].call.op # "create"
          BY <3>3, <4>1, <4>2, <4>4 DEF RowOK, Owners, OwnerOK, Live
        <4> QED
          BY <4>3, <4>4
      <3>4. ASSUME NEW k \in Key, requests'[k] # requests[k]
            PROVE  requests'[k].user = tx[u].call.user
        <4>1. CASE CommitCommand(u)
          BY <3>4, <4>1, CommandCommit, CommandRequest, RequestOwner
        <4>2. CASE CommitDecision(u)
          BY <3>4, <4>2, DecisionCommit, DecisionRequest
        <4> QED
          BY <2>2, <4>1, <4>2
      <3> QED
        BY <3>1, <3>2, <3>3, <3>4 DEF OwnOnly
    <2> QED
      BY <2>1, <2>2, OnlyCommits
  <1>3. OwnDataOnly <=> [][OwnOnly]_vars
    BY DEF OwnDataOnly, OwnOnly
  <1> QED
    BY <1>1, <1>2, <1>3, Invariance, PTL DEF Spec

-----------------------------------------------------------------------------
(* Refinement *)

\* The initial tasks are present or not there; nothing is gone, nothing asked.
LEMMA RefinedInit == Init => Protocol!Init
  BY SeededAssumption DEF Init, Protocol!Init, Live, NoRequest, FreeRow

\* A command adds a task, asks for a deletion, or does nothing to the protocol.
LEMMA RefinedCommand ==
    ASSUME Inv, NEW t \in Tx, CommitCommand(t)
    PROVE  [Protocol!Next]_(Protocol!pvars)
  <1> DEFINE s == tx[t]
  <1>0. PICK k \in Key : k = s.call.key
    BY CommandCommit
  <1>1. /\ requests[k].status = "none" /\ requests \in [Key -> Request]
        /\ CommandOutcome(s) /\ RowOK(s)
    BY <1>0, CommandCommit DEF Inv, TypeOK
  <1>2. CASE s.call.op = "create" /\ s.row # None
    <2>1. PICK x \in TaskId : x = s.row /\ tasks[x].status = "free" /\ s.outcome.status = "executed"
      BY <1>1, <1>2 DEF RowOK
    <2>2. requests' = requests
      BY <2>1 DEF CommitCommand
    <2>3. Live(x)' /\ \A y \in TaskId \ {x} : tasks'[y] = tasks[y]
      BY <2>1, CommandRow
    <2>4. Protocol!Add(x)
      BY <2>1, <2>2, <2>3 DEF Protocol!Add, Live
    <2> QED
      BY <2>1, <2>4 DEF Protocol!Next
  <1>3. CASE s.call.op # "create" \/ s.row = None
    <2>1. \A x \in TaskId : Live(x)' = Live(x) /\ (tasks'[x].status = "deleted" <=> tasks[x].status = "deleted")
      <3>1. \A x \in TaskId : x = s.row => Live(x)
        BY <1>1, <1>3, NoneAssumption DEF RowOK
      <3> QED
        BY <3>1, CommandRow DEF Live
    <2>2. CASE s.outcome.status = "awaiting_confirmation"
      <3>1. PICK x \in TaskId :
              /\ requests'[k].status = "pending" /\ requests'[k].task = x
              /\ tasks[x].status # "free" /\ \A l \in Key \ {k} : requests'[l] = requests[l]
        BY <1>0, <2>2, CommandRequest
      <3>2. Live(x) \/ tasks[x].status = "deleted"
        BY <3>1, CreatedRow
      <3>3. Protocol!Ask(k, x)
        BY <1>1, <2>1, <3>1, <3>2 DEF Protocol!Ask
      <3> QED
        BY <1>1, <3>1, <3>3 DEF Protocol!Next
    <2>3. CASE s.outcome.status # "awaiting_confirmation"
      <3>1. requests' = requests
        BY <2>3 DEF CommitCommand
      <3> QED
        BY <2>1, <3>1 DEF Protocol!pvars
    <2> QED
      BY <2>2, <2>3
  <1> QED
    BY <1>2, <1>3

\* A decision resolves one pending request and deletes its task at most.
LEMMA RefinedDecision ==
    ASSUME Inv, NEW t \in Tx, CommitDecision(t)
    PROVE  Protocol!Next
  <1> DEFINE s == tx[t]
  <1>0. PICK k \in Key, x \in TaskId : k = s.call.key /\ x = s.task
    BY DecisionCommit
  <1>1. /\ requests[k].status = "pending" /\ s.verdict # "none" /\ s \in Transaction
        /\ DecisionOutcome(s) /\ RowOK(s) /\ requests[k].task = x
    BY <1>0, DecisionCommit
  <1>2. /\ requests'[k].status = IF s.verdict = "confirmed" THEN "consumed" ELSE s.verdict
        /\ requests'[k].task = x
        /\ \A l \in Key \ {k} : requests'[l] = requests[l]
    BY <1>0, DecisionRequest
  <1>3. s.verdict \in {"confirmed", "cancelled", "expired"}
    BY <1>1 DEF Transaction
  <1>4. \A how : requests'[k].status = how => Protocol!Resolve(k, how)
    BY <1>1, <1>2 DEF Protocol!Resolve
  <1>5. CASE s.row = None
    <2>1. \A y \in TaskId : tasks'[y] = tasks[y]
      BY <1>5, DecisionRow, NoneAssumption
    <2>2. Protocol!Fail(k) \/ Protocol!Cancel(k) \/ Protocol!Expire(k)
      BY <1>2, <1>3, <1>4, <2>1 DEF Protocol!Fail, Protocol!Cancel, Protocol!Expire, Live
    <2> QED
      BY <1>1, <2>2 DEF Protocol!Next
  <1>6. CASE s.row # None
    <2>1. s.row = x /\ s.verdict = "confirmed"
      BY <1>0, <1>1, <1>6 DEF DecisionOutcome, RowOK
    <2>2. tasks'[x].status = "deleted" /\ \A y \in TaskId \ {x} : tasks'[y] = tasks[y]
      BY <2>1, DecisionRow DEF DeletedRow
    <2>3. Protocol!Execute(k)
      BY <1>1, <1>2, <1>4, <2>1, <2>2 DEF Protocol!Execute, Live
    <2> QED
      BY <1>1, <2>3 DEF Protocol!Next
  <1> QED
    BY <1>5, <1>6

\* The transactional service implements the deletion protocol: every commit is
\* one of its steps, and everything else changes nothing it can see.
THEOREM Refinement == Spec => ImplementsProtocol
  <1>1. Init => Protocol!Init
    BY RefinedInit
  <1>2. Inv /\ [Next]_vars => [Protocol!Next]_(Protocol!pvars)
    <2> SUFFICES ASSUME Inv, [Next]_vars PROVE [Protocol!Next]_(Protocol!pvars)
      OBVIOUS
    <2>1. CASE UNCHANGED committed
      BY <2>1 DEF committed, Protocol!pvars, Live
    <2>2. ASSUME NEW t \in Tx, CommitCommand(t) \/ CommitDecision(t)
          PROVE  [Protocol!Next]_(Protocol!pvars)
      BY <2>2, RefinedCommand, RefinedDecision
    <2> QED
      BY <2>1, <2>2, OnlyCommits
  <1> QED
    BY <1>1, <1>2, Invariance, PTL DEF Spec, ImplementsProtocol, Protocol!Spec
=============================================================================
