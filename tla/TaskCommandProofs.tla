------------------------- MODULE TaskCommandProofs -------------------------
(***************************************************************************)
(* Proof that what TaskService answers to a command is true and stays      *)
(* true, whoever repeats the command's key and whatever other sessions do, *)
(* for every set of users, tasks, keys, sessions and calls.                *)
(***************************************************************************)
EXTENDS TaskProgressProofs

-----------------------------------------------------------------------------
(* What a step leaves alone *)

\* A finished execution stays as it is.
LEMMA FinishedStays ==
    ASSUME Inv, [Next]_vars, NEW k \in Key,
           executions[k].status \notin {"none", "awaiting_confirmation"}
    PROVE  executions'[k] = executions[k]
  <1>1. CASE UNCHANGED committed
    BY <1>1 DEF committed
  <1>2. ASSUME NEW t \in Tx, CommitCommand(t) \/ CommitDecision(t)
        PROVE  executions'[k] = executions[k]
    <2>1. PICK l \in Key : /\ executions[l].status \in {"none", "awaiting_confirmation"}
                           /\ \A m \in Key \ {l} : executions'[m] = executions[m]
      BY <1>2, CommandKey, DecisionKey
    <2> QED
      BY <2>1
  <1> QED
    BY <1>1, <1>2, OnlyCommits

\* A request that was made is never unmade, nor made to be about another task.
LEMMA RequestStays ==
    ASSUME Inv, [Next]_vars, NEW k \in Key, requests[k].status # "none"
    PROVE  requests'[k].status # "none" /\ requests'[k].task = requests[k].task
  <1>1. CASE UNCHANGED committed
    BY <1>1 DEF committed
  <1>2. ASSUME NEW t \in Tx, CommitCommand(t)
        PROVE  requests'[k].status # "none" /\ requests'[k].task = requests[k].task
    BY <1>2, CommandKey
  <1>3. ASSUME NEW t \in Tx, CommitDecision(t)
        PROVE  requests'[k].status # "none" /\ requests'[k].task = requests[k].task
    <2>1. CASE tx[t].call.key = k
      BY <1>3, <2>1, DecisionCommit, DecisionRequest DEF Transaction
    <2>2. CASE tx[t].call.key # k
      BY <1>3, <2>2, DecisionRequest
    <2> QED
      BY <2>1, <2>2
  <1> QED
    BY <1>1, <1>2, <1>3, OnlyCommits

\* A request is created and decided together with its execution.
LEMMA PendingNext == Inv /\ PendingOK /\ [Next]_vars => PendingOK'
  <1> SUFFICES ASSUME Inv, PendingOK, [Next]_vars, NEW k \in Key, requests'[k].status = "pending"
               PROVE  executions'[k] = Outcome("awaiting_confirmation", "task_delete_pending",
                                               "none", requests'[k].task)
    BY DEF PendingOK
  <1>1. CASE requests'[k] = requests[k] /\ executions'[k] = executions[k]
    BY <1>1 DEF PendingOK
  <1>2. ASSUME NEW t \in Tx, CommitCommand(t), tx[t].call.key = k
        PROVE  executions'[k] = Outcome("awaiting_confirmation", "task_delete_pending",
                                        "none", requests'[k].task)
    <2>1. /\ executions'[k] = tx[t].outcome /\ CommandOutcome(tx[t])
          /\ tx[t].outcome.status = "awaiting_confirmation" /\ requests'[k].task = tx[t].task
      BY <1>2, CommandCommit, CommandRequest DEF Inv, TypeOK
    <2> QED
      BY <2>1 DEF CommandOutcome, Outcome
  <1>3. ASSUME NEW t \in Tx, CommitDecision(t), tx[t].call.key = k PROVE FALSE
    BY <1>3, DecisionCommit, DecisionRequest DEF Transaction
  <1>4. ASSUME NEW t \in Tx, CommitCommand(t) \/ CommitDecision(t), tx[t].call.key # k
        PROVE  requests'[k] = requests[k] /\ executions'[k] = executions[k]
    BY <1>4, CommandCommit, CommandRequest, DecisionCommit, DecisionRequest DEF Inv, TypeOK
  <1>5. CASE UNCHANGED committed
    BY <1>1, <1>5 DEF committed
  <1> QED
    BY <1>1, <1>2, <1>3, <1>4, <1>5, OnlyCommits

LEMMA PendingTask ==
    ASSUME PendingOK, NEW k \in Key, requests[k].status = "pending"
    PROVE  executions[k].task = requests[k].task
  <1>1. executions[k] = Outcome("awaiting_confirmation", "task_delete_pending", "none",
                                requests[k].task)
    BY DEF PendingOK
  <1> QED
    BY <1>1 DEF Outcome

\* Who is told that a task was not found got no other kind of answer.
LEMMA ToldNotFound ==
    ASSUME NEW r \in Reply, Told(r) = "not found"
    PROVE  r.status = "failed" /\ r.error \in {"TASK_NOT_FOUND", "TASK_REFERENCE_NOT_FOUND"}
  <1>1. r.status \in {"none", "raised", "duplicate"} \cup ExecutionStatus
    BY DEF Reply
  <1>2. \A op, effect, again : ToldOfSuccess(op, effect, again) # "not found"
    BY DEF ToldOfSuccess
  <1>3. r.status = "failed"
    BY <1>1, <1>2 DEF Told, ExecutionStatus
  <1>4. ToldOfFailure(r.call.op, r.error) = "not found"
    BY <1>3 DEF Told
  <1> QED
    BY <1>3, <1>4 DEF ToldOfFailure

\* A true answer stays true.
LEMMA CommandAnswerStays ==
    ASSUME Inv, [Next]_vars, NEW k \in Key, NEW r \in Reply,
           CommandAnswerTrue(r, requests[k], executions[k])
    PROVE  CommandAnswerTrue(r, requests'[k], executions'[k])
  <1>1. CASE r.status \in {"executed", "duplicate", "failed", "rejected", "awaiting_selection"}
    <2>1. executions'[k] = executions[k]
      BY <1>1, FinishedStays DEF CommandAnswerTrue
    <2> QED
      BY <1>1, <2>1 DEF CommandAnswerTrue
  <1>2. CASE r.status = "awaiting_confirmation"
    BY <1>2, RequestStays, ToldNotFound DEF CommandAnswerTrue
  <1>3. CASE r.status \in {"none", "raised"}
    BY <1>3, ToldNotFound DEF CommandAnswerTrue
  <1> QED
    BY <1>1, <1>2, <1>3 DEF Reply, ExecutionStatus

-----------------------------------------------------------------------------
(* Who answers, who replays *)

\* What every step of a session does to the answers.
LEMMA OwnAnswer ==
    ASSUME Inv, NEW t \in Tx, Step(t) \/ Rollback(t), reply' # reply
    PROVE  \E status, error, effect : Finish(t, status, error, effect)
  <1>1. CASE Lookup(t)
    BY <1>1 DEF Lookup, DuplicateDeletion, DuplicateCommand, Goto
  <1>2. CASE Replay(t) \/ CreateReceived(t) \/ WriteTask(t)
    BY <1>2 DEF Replay, CreateReceived, WriteTask, Goto, Raise
  <1>3. CASE \/ CreateTask(t) \/ Search(t) \/ SelectToComplete(t) \/ SelectToUpdate(t)
             \/ ReselectToUpdate(t) \/ SelectToDelete(t) \/ SelectConfirmed(t)
    BY <1>3 DEF CreateTask, Search, SelectToComplete, SelectToUpdate, ReselectToUpdate,
                SelectToDelete, SelectConfirmed, Goto, Conclude
  <1>4. CASE ReadRequest(t) \/ ReadExecution(t) \/ TransitionPending(t)
    BY <1>4 DEF ReadRequest, ReadExecution, TransitionPending
  <1>5. CASE CommitCommand(t) \/ CommitDecision(t) \/ Rollback(t)
    BY <1>5 DEF CommitCommand, CommitDecision, Rollback, Raise
  <1> QED
    BY <1>1, <1>2, <1>3, <1>4, <1>5 DEF Step

\* A session's answer changes with a step of the session that answers its own
\* call, or is forgotten when it begins another.
LEMMA OnlyOwnAnswers ==
    ASSUME Inv, [Next]_vars, NEW u \in Tx, reply'[u] # reply[u], reply'[u].call # NoCall
    PROVE  /\ Step(u) \/ Rollback(u)
           /\ reply'[u].call = tx[u].call
           /\ tx'[u].pc = "idle" /\ tx[u].pc # "idle"
  <1>1. reply \in [Tx -> Reply] /\ tx \in [Tx -> Transaction] /\ NoTransaction.pc = "idle"
    BY DEF Inv, TypeOK, NoTransaction
  <1>2. ~(Tick \/ UNCHANGED vars)
    BY DEF Tick, vars
  <1>3. ASSUME NEW t \in Tx, NEW c \in Call, Begin(t, c) PROVE FALSE
    BY <1>1, <1>3 DEF Begin, NoReply
  <1>4. PICK t \in Tx : Step(t) \/ Rollback(t)
    BY <1>2, <1>3 DEF Next
  <1>5. PICK status, error, effect : Finish(t, status, error, effect)
    BY <1>4, OwnAnswer
  <1>6. t = u /\ reply'[u].call = tx[u].call /\ tx'[u].pc = "idle"
    BY <1>1, <1>5 DEF Finish
  <1>7. tx[u].pc # "idle"
    BY <1>4, <1>6 DEF Rollback, Step, Lookup, Replay, CreateReceived, CreateTask, Search,
       SelectToComplete, SelectToUpdate, ReselectToUpdate, SelectToDelete, WriteTask,
       ReadRequest, ReadExecution, TransitionPending, SelectConfirmed, CommitCommand,
       CommitDecision
  <1> QED
    BY <1>4, <1>6, <1>7

\* The statements that answer a command.
LEMMA OnlyCommandAnswers ==
    ASSUME Inv, [Next]_vars, NEW u \in Tx, reply'[u] # reply[u],
           reply'[u].call.op \in Op \ {"resolve"}
    PROVE  /\ reply'[u].call = tx[u].call
           /\ tx'[u].pc = "idle"
           /\ \/ Lookup(u) \/ Replay(u) \/ CreateReceived(u) \/ WriteTask(u)
              \/ CommitCommand(u) \/ Rollback(u)
  <1>1. reply'[u].call # NoCall
    BY DEF NoCall, Op
  <1>2. /\ (Step(u) \/ Rollback(u)) /\ reply'[u].call = tx[u].call
        /\ tx'[u].pc = "idle" /\ tx[u].pc # "idle"
    BY <1>1, OnlyOwnAnswers
  <1>3. tx[u].pc \notin {"request", "execution", "transition", "delete"}
    BY <1>2 DEF Inv, SessionOK, PlaceOK
  <1>4. ~(ReadRequest(u) \/ ReadExecution(u) \/ TransitionPending(u) \/ SelectConfirmed(u))
    BY <1>3 DEF ReadRequest, ReadExecution, TransitionPending, SelectConfirmed
  <1>5. ~CommitDecision(u)
    BY <1>2 DEF CommitDecision
  <1>6. ~(\/ CreateTask(u) \/ Search(u) \/ SelectToComplete(u) \/ SelectToUpdate(u)
          \/ ReselectToUpdate(u) \/ SelectToDelete(u))
    BY DEF CreateTask, Search, SelectToComplete, SelectToUpdate, ReselectToUpdate,
           SelectToDelete, Goto, Conclude
  <1> QED
    BY <1>2, <1>4, <1>5, <1>6 DEF Step

\* Only a session that found its key executed replays it.
LEMMA OnlyExecutedIsReplayed ==
    ASSUME Inv, [Next]_vars, NEW u \in Tx, tx'[u] # tx[u], tx'[u].pc = "replay"
    PROVE  /\ tx'[u].call = tx[u].call /\ UNCHANGED committed
           /\ executions[tx[u].call.key].status = "executed"
  <1>1. tx \in [Tx -> Transaction] /\ NoTransaction.pc = "idle"
    BY DEF Inv, TypeOK, NoTransaction
  <1>2. ~(Tick \/ UNCHANGED vars)
    BY DEF Tick, vars
  <1>3. ASSUME NEW t \in Tx, NEW c \in Call, Begin(t, c) PROVE FALSE
    BY <1>1, <1>3 DEF Begin, NoTransaction
  <1>4. PICK t \in Tx : Step(t) \/ Rollback(t)
    BY <1>2, <1>3 DEF Next
  <1>5. t = u
    BY <1>4, OneSession
  <1>6. tx[u].pc = "lookup"
    BY <1>4, <1>5, NextPlace
  <1>7. Lookup(u)
    <2>1. ~Rollback(u)
      BY <1>1 DEF Rollback, Raise, Finish
    <2> QED
      BY <1>4, <1>5, <1>6, <2>1 DEF Step, Replay, CreateReceived, CreateTask, Search,
         SelectToComplete, SelectToUpdate, ReselectToUpdate, SelectToDelete, WriteTask,
         ReadRequest, ReadExecution, TransitionPending, SelectConfirmed, CommitCommand,
         CommitDecision
  <1>8. ASSUME NEW status, NEW error, NEW effect, Finish(u, status, error, effect) PROVE FALSE
    BY <1>1, <1>8 DEF Finish
  <1>9. ~Goto(u, "insert")
    BY <1>1 DEF Goto, Transaction
  <1>10. executions[tx[u].call.key].status = "executed" /\ Goto(u, "replay")
    BY <1>7, <1>8, <1>9 DEF Lookup, DuplicateDeletion, DuplicateCommand
  <1> QED
    BY <1>1, <1>10 DEF Goto, Transaction

-----------------------------------------------------------------------------
(* The answers of each statement *)

\* The answer to a repeated key that is not executed is what its execution is.
LEMMA RepeatedAnswer ==
    ASSUME Inv, NEW u \in Tx, Lookup(u), reply'[u] # reply[u], NEW r, r = reply'[u]
    PROVE  LET e == executions[tx[u].call.key] IN
           /\ r.status \notin {"executed", "duplicate"}
           /\ r.status \in {"failed", "rejected", "awaiting_selection"}
                 => e.status \in {"failed", "rejected", "awaiting_selection"}
           /\ r.status = "failed" /\ r.error \in {"TASK_NOT_FOUND", "TASK_REFERENCE_NOT_FOUND"}
                 => /\ e.status = "failed"
                    /\ e.error \in {"none", "TASK_NOT_FOUND", "TASK_REFERENCE_NOT_FOUND"}
           /\ r.status = "awaiting_confirmation"
                 => e.status = "awaiting_confirmation" /\ r.task = e.task
  <1> DEFINE e == executions[tx[u].call.key]
  <1>1. reply \in [Tx -> Reply]
    BY DEF Inv, TypeOK
  <1>2. ASSUME NEW status, NEW error, NEW effect, Finish(u, status, error, effect)
        PROVE  /\ r.status = status /\ r.error = error
               /\ status = "awaiting_confirmation" => r.task = e.task
    BY <1>1, <1>2 DEF Finish, Lookup, AnswerTask
  <1>3. DuplicateDeletion(u, e) \/ DuplicateCommand(u, e)
    BY DEF Lookup, Goto
  <1>4. CASE DuplicateDeletion(u, e)
    BY <1>2, <1>4 DEF DuplicateDeletion
  <1>5. CASE DuplicateCommand(u, e)
    BY <1>2, <1>5 DEF DuplicateCommand
  <1> QED
    BY <1>3, <1>4, <1>5

\* A command that commits answers what its execution says.
LEMMA CommittedAnswer ==
    ASSUME Inv, NEW u \in Tx, CommitCommand(u), NEW r \in Reply, r = reply'[u]
    PROVE  LET k == tx[u].call.key IN
           /\ CommandAnswerTrue(r, requests'[k], executions'[k])
           /\ r.call.op = "delete" => r.status # "executed"
  <1> DEFINE s == tx[u]
             k == s.call.key
             o == s.outcome
  <1>1. /\ k \in Key /\ executions'[k] = o /\ CommandOutcome(s) /\ s.call.op \in Op \ {"resolve"}
        /\ o \in Execution /\ s.pc = "commit"
    BY CommandCommit DEF Inv, TypeOK
  <1>2. /\ r.call = s.call /\ r.status = o.status
        /\ r.effect = AnswerEffect(s.call, o.status, o.effect)
        /\ o.status \in {"executed", "awaiting_confirmation"} => r.task = o.task
    BY <1>1 DEF CommitCommand, Finish, Inv, TypeOK, AnswerTask
  <1>3. o.status = "awaiting_confirmation"
          => requests'[k].status = "pending" /\ requests'[k].task = s.task
    BY CommandRequest
  <1>4. CASE /\ o.status \in {"failed", "awaiting_selection"}
             /\ o.error \in {"none", "TASK_REFERENCE_NOT_FOUND", "TASK_NOT_FOUND"}
    BY <1>1, <1>2, <1>4, ToldNotFound DEF CommandAnswerTrue
  <1>5. CASE o.status = "executed" /\ r.effect = o.effect /\ s.call.op # "delete"
    BY <1>1, <1>2, <1>5, ToldNotFound DEF CommandAnswerTrue
  <1>6. CASE s.call.op = "create" /\ o = Outcome("executed", "task_created", "none", s.task)
    BY <1>1, <1>2, <1>5, <1>6 DEF Outcome, AnswerEffect
  <1>7. CASE /\ s.call.op = "update"
             /\ \E effect \in {"task_updated", "task_unchanged"} :
                   o = Outcome("executed", effect, "none", s.task)
    BY <1>1, <1>2, <1>5, <1>7 DEF Outcome, AnswerEffect
  <1>8. CASE s.call.op = "complete" /\ o = Outcome("executed", "task_completed", "none", s.task)
    <2>1. o.status = "executed" /\ o.effect = "task_completed"
      BY <1>8 DEF Outcome
    <2>2. r.effect = "task_completed"
      BY <1>2, <1>8, <2>1 DEF AnswerEffect
    <2> QED
      BY <1>5, <1>8, <2>1, <2>2
  <1>9. CASE /\ s.call.op = "delete"
             /\ o = Outcome("awaiting_confirmation", "task_delete_pending", "none", s.task)
    <2>1. o.status = "awaiting_confirmation" /\ o.task = s.task
      BY <1>9 DEF Outcome
    <2> QED
      BY <1>1, <1>2, <1>3, <2>1, ToldNotFound DEF CommandAnswerTrue
  <1> QED
    BY <1>1, <1>4, <1>6, <1>7, <1>8, <1>9 DEF CommandOutcome

\* Every new answer is true when it is given.
LEMMA NewAnswer ==
    ASSUME Inv, ReplayOK, PendingOK, [Next]_vars, NEW u \in Tx, reply'[u] # reply[u],
           reply'[u] \in Reply, reply'[u].call.op \in Op \ {"resolve"}
    PROVE  LET r == reply'[u]
               k == r.call.key IN
           /\ CommandAnswerTrue(r, requests'[k], executions'[k])
           /\ r.call.op = "delete" => r.status # "executed"
  <1> DEFINE r == reply'[u]
             k == r.call.key
  <1>1. /\ r.call = tx[u].call
        /\ \/ Lookup(u) \/ Replay(u) \/ CreateReceived(u) \/ WriteTask(u)
           \/ CommitCommand(u) \/ Rollback(u)
    BY OnlyCommandAnswers
  <1>2. reply \in [Tx -> Reply]
    BY DEF Inv, TypeOK
  <1>3. ASSUME Raise(u)
        PROVE  CommandAnswerTrue(r, requests'[k], executions'[k]) /\ r.status # "executed"
    <2>1. r.status = "raised"
      BY <1>2, <1>3 DEF Raise, Finish
    <2> QED
      BY <2>1, ToldNotFound DEF CommandAnswerTrue
  <1>4. CASE Lookup(u)
    <2>1. UNCHANGED committed
      BY <1>4 DEF Lookup, Goto
    <2>2. executions[k].status = "awaiting_confirmation"
            => requests[k].status # "none" /\ requests[k].task = executions[k].task
      <3>1. k \in Key
        BY <1>1, <1>4, CallFields DEF Lookup, Inv
      <3>2. executions[k].status = "awaiting_confirmation" => requests[k].status = "pending"
        BY <3>1 DEF Inv, RequestAndExecutionAgree
      <3> QED
        BY <3>1, <3>2, PendingTask
    <2>3. /\ r.status \notin {"executed", "duplicate"}
          /\ r.status \in {"failed", "rejected", "awaiting_selection"}
                => executions[k].status \in {"failed", "rejected", "awaiting_selection"}
          /\ r.status = "failed" /\ r.error \in {"TASK_NOT_FOUND", "TASK_REFERENCE_NOT_FOUND"}
                => /\ executions[k].status = "failed"
                   /\ executions[k].error \in {"none", "TASK_NOT_FOUND", "TASK_REFERENCE_NOT_FOUND"}
          /\ r.status = "awaiting_confirmation"
                => executions[k].status = "awaiting_confirmation" /\ r.task = executions[k].task
      BY <1>1, <1>4, RepeatedAnswer
    <2>4. requests' = requests /\ executions' = executions
      BY <2>1 DEF committed
    <2> QED
      BY <2>2, <2>3, <2>4, ToldNotFound DEF CommandAnswerTrue
  <1>5. CASE Replay(u)
    <2>1. executions[k].status = "executed"
      BY <1>1, <1>5 DEF Replay, ReplayOK
    <2>2. CASE Finish(u, "duplicate", "none", executions[k].effect) /\ UNCHANGED committed
      <3>1. /\ r.status = "duplicate" /\ r.call = tx[u].call
            /\ r.effect = AnswerEffect(r.call, "duplicate", executions[k].effect)
            /\ r.task = executions[k].task
        BY <1>1, <1>2, <1>5, <2>2 DEF Finish, AnswerTask, Replay
      <3>2. executions[k].effect \in EffectsOf(r.call.op) => r.effect = executions[k].effect
        BY <3>1 DEF AnswerEffect, EffectsOf
      <3> QED
        BY <2>1, <2>2, <3>1, <3>2, ToldNotFound DEF CommandAnswerTrue, committed
    <2> QED
      BY <1>1, <1>3, <1>5, <2>2 DEF Replay
  <1>6. CASE CreateReceived(u) \/ WriteTask(u) \/ Rollback(u)
    <2>1. Raise(u)
      BY <1>6 DEF CreateReceived, WriteTask, Rollback, Goto
    <2> QED
      BY <1>3, <2>1
  <1>7. CASE CommitCommand(u)
    BY <1>1, <1>7, CommittedAnswer
  <1> QED
    BY <1>1, <1>4, <1>5, <1>6, <1>7

-----------------------------------------------------------------------------
(* The theorems *)

LEMMA ReplayNext == Inv /\ ReplayOK /\ [Next]_vars => ReplayOK'
  <1> SUFFICES ASSUME Inv, ReplayOK, [Next]_vars, NEW u \in Tx, tx'[u].pc = "replay"
               PROVE  executions'[tx'[u].call.key].status = "executed"
    BY DEF ReplayOK
  <1>1. CASE tx'[u] = tx[u]
    <2>1. tx[u].call.key \in Key /\ executions[tx[u].call.key].status = "executed"
      BY <1>1, CallFields DEF Inv, ReplayOK
    <2> QED
      BY <1>1, <2>1, FinishedStays
  <1>2. CASE tx'[u] # tx[u]
    BY <1>2, OnlyExecutedIsReplayed DEF committed
  <1> QED
    BY <1>1, <1>2

LEMMA CommandAnswersNext ==
    Inv /\ CommandsInv /\ [Next]_vars => CommandAnswersAreTrue'
  <1> SUFFICES ASSUME Inv, CommandsInv, [Next]_vars, NEW u \in Tx,
                      reply'[u].call.op \in Op \ {"resolve"}
               PROVE  LET r == reply'[u]
                          k == r.call.key IN
                      /\ CommandAnswerTrue(r, requests'[k], executions'[k])
                      /\ /\ r.status \in {"executed", "duplicate"}
                         /\ executions'[k].effect \in EffectsOf(r.call.op)
                         => DoneTo(r.call.op, tasks'[r.task])
                      /\ r.call.op = "delete" => r.status # "executed"
    BY DEF CommandAnswersAreTrue
  <1> DEFINE r == reply'[u]
             k == r.call.key
  <1>1. Inv' /\ r \in Reply /\ k \in Key
    <2>1. Inv' /\ r \in Reply
      BY NextInv DEF Inv, TypeOK
    <2>2. r.call \in Call
      BY <2>1 DEF Reply, NoCall, Op
    <2> QED
      BY <2>1, <2>2, CallAssumption DEF CallType
  <1>2. /\ CommandAnswerTrue(r, requests'[k], executions'[k])
        /\ r.call.op = "delete" => r.status # "executed"
    <2>1. CASE reply'[u] = reply[u]
      BY <1>1, <2>1, CommandAnswerStays DEF CommandsInv, CommandAnswersAreTrue
    <2>2. CASE reply'[u] # reply[u]
      BY <1>1, <2>2, NewAnswer DEF CommandsInv
    <2> QED
      BY <2>1, <2>2
  <1>3. ASSUME r.status \in {"executed", "duplicate"}, executions'[k].effect \in EffectsOf(r.call.op)
        PROVE  DoneTo(r.call.op, tasks'[r.task])
    <2>1. r.task = executions'[k].task
      BY <1>2, <1>3 DEF CommandAnswerTrue
    <2> QED
      BY <1>1, <1>3, <2>1 DEF Inv, EffectsAreTrue, EffectsOf, TaskEffect, DoneTo, Op
  <1> QED
    BY <1>2, <1>3

\* What replaying sessions have found and what was told of the commands: the
\* invariant the commands' answers rest on, beside that of the service.
THEOREM CommandsInvariance == Spec => []CommandsInv
  <1>1. Init => CommandsInv
    BY DEF Init, CommandsInv, ReplayOK, PendingOK, CommandAnswersAreTrue, NoTransaction,
           NoRequest, NoReply, NoCall, Op
  <1>2. Inv /\ CommandsInv /\ [Next]_vars => CommandsInv'
    BY ReplayNext, PendingNext, CommandAnswersNext DEF CommandsInv
  <1> QED
    BY <1>1, <1>2, Invariance, PTL DEF Spec

\* What a user is told of a command is true and stays true.
THEOREM TrueCommandAnswers == Spec => []CommandAnswersAreTrue
  <1>1. CommandsInv => CommandAnswersAreTrue
    BY DEF CommandsInv
  <1> QED
    BY <1>1, CommandsInvariance, PTL
=============================================================================
