------------------------- MODULE TaskAnswersProofs -------------------------
(***************************************************************************)
(* Proof that what TaskService makes ResponseAgent tell a user about a     *)
(* confirmation is true and stays true, for every set of users, tasks,     *)
(* keys, sessions and calls.                                               *)
(***************************************************************************)
EXTENDS TaskServiceProofs

-----------------------------------------------------------------------------
(* What is told of a decision, by the status of its answer *)

AnswerStatus == {"none", "raised", "duplicate"} \cup ExecutionStatus

LEMMA ToldFailure ==
    ASSUME NEW error
    PROVE  LET told == ToldOfFailure("resolve", error) IN
           /\ told \in {"expired", "unavailable", "resolved", "not found", "failed"}
           /\ told = "expired" => error = "CONFIRMATION_EXPIRED"
           /\ told = "resolved" => error = "CONFIRMATION_ALREADY_RESOLVED"
           /\ told = "not found" => error \in {"TASK_NOT_FOUND", "TASK_REFERENCE_NOT_FOUND"}
  <1>1. CASE error = "CONFIRMATION_EXPIRED"
    BY <1>1 DEF ToldOfFailure
  <1>2. CASE error = "CONFIRMATION_NOT_FOUND"
    BY <1>2 DEF ToldOfFailure
  <1>3. CASE error = "CONFIRMATION_ALREADY_RESOLVED"
    BY <1>3 DEF ToldOfFailure
  <1>4. CASE error \in {"TASK_NOT_FOUND", "TASK_REFERENCE_NOT_FOUND"}
    BY <1>4 DEF ToldOfFailure
  <1>5. CASE error \notin {"CONFIRMATION_EXPIRED", "CONFIRMATION_NOT_FOUND",
                           "CONFIRMATION_ALREADY_RESOLVED", "TASK_NOT_FOUND",
                           "TASK_REFERENCE_NOT_FOUND"}
    BY <1>5 DEF ToldOfFailure
  <1> QED
    BY <1>1, <1>2, <1>3, <1>4, <1>5

LEMMA ToldSuccess ==
    ASSUME NEW effect, NEW again \in BOOLEAN
    PROVE  ToldOfSuccess("resolve", effect, again)
              = IF again /\ effect \in TaskEffect THEN "already deleted" ELSE "deleted"
  BY DEF ToldOfSuccess

LEMMA ToldDecision ==
    ASSUME NEW r, r.call.op = "resolve", r.status \in AnswerStatus
    PROVE  /\ Told(r) = "already deleted" => r.status = "duplicate" /\ r.effect \in TaskEffect
           /\ Told(r) = "deleted" => r.status \in {"executed", "duplicate"}
           /\ Told(r) = "cancelled" => r.status = "rejected"
           /\ Told(r) \in {"not found", "expired", "resolved"} => r.status = "failed"
           /\ Told(r) = "not found" => r.error \in {"TASK_NOT_FOUND", "TASK_REFERENCE_NOT_FOUND"}
  <1>1. CASE r.status \in {"none", "raised"}
    BY <1>1 DEF Told
  <1>2. CASE r.status = "awaiting_selection"
    BY <1>2 DEF Told
  <1>3. CASE r.status = "awaiting_confirmation"
    BY <1>3 DEF Told
  <1>4. CASE r.status = "rejected"
    BY <1>4 DEF Told
  <1>5. CASE r.status = "failed"
    BY <1>5, ToldFailure DEF Told
  <1>6. CASE r.status = "executed"
    <2>1. Told(r) = ToldOfSuccess("resolve", r.effect, FALSE)
      BY <1>6 DEF Told
    <2> QED
      BY <1>6, <2>1, ToldSuccess
  <1>7. CASE r.status = "duplicate"
    <2>1. Told(r) = ToldOfSuccess("resolve", r.effect, TRUE)
      BY <1>7 DEF Told
    <2> QED
      BY <1>7, <2>1, ToldSuccess
  <1> QED
    BY <1>1, <1>2, <1>3, <1>4, <1>5, <1>6, <1>7 DEF AnswerStatus, ExecutionStatus

-----------------------------------------------------------------------------
(* What a step leaves alone *)

\* A resolved request and its execution stay as they are.
LEMMA ClosedStays ==
    ASSUME Inv, [Next]_vars, NEW k \in Key, requests[k].status \notin {"none", "pending"}
    PROVE  requests'[k] = requests[k] /\ executions'[k] = executions[k]
  <1>1. CASE UNCHANGED committed
    BY <1>1 DEF committed
  <1>2. ASSUME NEW t \in Tx, CommitCommand(t) \/ CommitDecision(t)
        PROVE  requests'[k] = requests[k] /\ executions'[k] = executions[k]
    <2>1. PICK l \in Key : /\ requests[l].status \in {"none", "pending"}
                           /\ \A m \in Key \ {l} : /\ executions'[m] = executions[m]
                                                  /\ requests'[m] = requests[m]
      BY <1>2, CommandKey, DecisionKey
    <2> QED
      BY <2>1
  <1> QED
    BY <1>1, <1>2, OnlyCommits

\* A session comes to the execution of its request only by reading the request.
LEMMA OnlyReads ==
    ASSUME Inv, [Next]_vars, NEW u \in Tx, tx'[u].pc = "execution"
    PROVE  tx'[u] = tx[u] \/ ReadRequest(u)
  <1>0. tx \in [Tx -> Transaction] /\ NoTransaction.pc = "idle"
    BY DEF Inv, TypeOK, NoTransaction
  <1>1. ASSUME NEW t \in Tx,
               \/ Lookup(t) \/ Replay(t) \/ CreateReceived(t) \/ CreateTask(t) \/ Search(t)
        PROVE  tx'[u] = tx[u]
    <2>1. CASE Lookup(t)
      BY <1>0, <2>1 DEF Lookup, Goto, DuplicateDeletion, DuplicateCommand, Finish, Transaction
    <2>2. CASE Replay(t)
      BY <1>0, <2>2 DEF Replay, Raise, Finish
    <2>3. CASE CreateReceived(t)
      BY <1>0, <2>3 DEF CreateReceived, Raise, Finish, Transaction
    <2>4. CASE CreateTask(t)
      BY <1>0, <2>4 DEF CreateTask, Transaction
    <2>5. CASE Search(t)
      BY <1>0, <2>5 DEF Search, Conclude, Transaction
    <2> QED
      BY <1>1, <2>1, <2>2, <2>3, <2>4, <2>5
  <1>2. ASSUME NEW t \in Tx,
               \/ SelectToComplete(t) \/ SelectToUpdate(t) \/ ReselectToUpdate(t)
               \/ SelectToDelete(t) \/ WriteTask(t)
        PROVE  tx'[u] = tx[u]
    BY <1>0, <1>2 DEF SelectToComplete, SelectToUpdate, ReselectToUpdate, SelectToDelete,
                      WriteTask, Goto, Conclude, Raise, Finish, Transaction
  <1>3. ASSUME NEW t \in Tx, ReadRequest(t), t # u PROVE tx'[u] = tx[u]
    BY <1>0, <1>3 DEF ReadRequest, Finish
  <1>4. ASSUME NEW t \in Tx, ReadExecution(t) \/ TransitionPending(t) \/ SelectConfirmed(t)
        PROVE  tx'[u] = tx[u]
    BY <1>0, <1>4 DEF ReadExecution, TransitionPending, SelectConfirmed, Conclude, Finish,
                      Transaction
  <1>5. ASSUME NEW t \in Tx, CommitCommand(t) \/ CommitDecision(t) \/ Rollback(t)
        PROVE  tx'[u] = tx[u]
    BY <1>0, <1>5 DEF CommitCommand, CommitDecision, Rollback, Raise, Finish
  <1>6. ASSUME NEW t \in Tx, NEW c \in Call, Begin(t, c)
        PROVE  tx'[u] = tx[u]
    BY <1>0, <1>6 DEF Begin, NoTransaction
  <1>7. Tick \/ UNCHANGED vars => tx'[u] = tx[u]
    BY DEF Tick, vars
  <1> QED
    BY <1>1, <1>2, <1>3, <1>4, <1>5, <1>6, <1>7 DEF Next, Step

\* An answer to a decision is given by one of these steps.
LEMMA OnlyAnswers ==
    ASSUME Inv, [Next]_vars, NEW u \in Tx, reply'[u] # reply[u], reply'[u].call.op = "resolve"
    PROVE  \/ ReadRequest(u) \/ ReadExecution(u) \/ TransitionPending(u)
           \/ CommitDecision(u) \/ Rollback(u)
  <1>0. reply \in [Tx -> Reply] /\ NoReply.call.op # "resolve"
    BY DEF Inv, TypeOK, NoReply, NoCall
  <1>1. ASSUME NEW t \in Tx,
               \/ Lookup(t) \/ Replay(t) \/ CreateReceived(t)
               \/ WriteTask(t) \/ CommitCommand(t)
        PROVE  FALSE
    <2>1. ASSUME reply' # reply PROVE tx[t].call.op # "resolve"
      <3>1. tx[t].pc # "idle" => PlaceOK(tx[t])
        BY DEF Inv, SessionOK
      <3>2. tx[t].pc \in {"lookup", "replay", "insert"} => tx[t].call.op # "resolve"
        BY <3>1 DEF PlaceOK
      <3>3. CASE Lookup(t) \/ Replay(t) \/ CreateReceived(t)
        BY <3>2, <3>3 DEF Lookup, Replay, CreateReceived
      <3>4. CASE WriteTask(t)
        BY <2>1, <3>4 DEF WriteTask, Goto
      <3>5. CASE CommitCommand(t)
        BY <3>5 DEF CommitCommand
      <3> QED
        BY <1>1, <3>3, <3>4, <3>5
    <2>2. \/ UNCHANGED reply
          \/ \E r : r.call = tx[t].call /\ reply' = [reply EXCEPT ![t] = r]
      <3>1. ASSUME NEW status, NEW error, NEW effect, Finish(t, status, error, effect)
            PROVE  \E r : r.call = tx[t].call /\ reply' = [reply EXCEPT ![t] = r]
        BY <3>1 DEF Finish
      <3>2. CASE Lookup(t)
        BY <3>1, <3>2 DEF Lookup, Goto, DuplicateDeletion, DuplicateCommand
      <3>3. CASE Replay(t) \/ CreateReceived(t) \/ WriteTask(t) \/ CommitCommand(t)
        BY <3>1, <3>3 DEF Replay, CreateReceived, WriteTask, CommitCommand, Goto, Raise
      <3> QED
        BY <1>1, <3>2, <3>3
    <2> QED
      BY <1>0, <2>1, <2>2
  <1>2. ASSUME NEW t \in Tx,
               \/ CreateTask(t) \/ Search(t) \/ SelectToComplete(t) \/ SelectToUpdate(t)
               \/ ReselectToUpdate(t) \/ SelectToDelete(t) \/ SelectConfirmed(t)
        PROVE  FALSE
    BY <1>2 DEF CreateTask, Search, SelectToComplete, SelectToUpdate, ReselectToUpdate,
                SelectToDelete, SelectConfirmed, Goto, Conclude
  <1>3. ASSUME NEW t \in Tx, t # u,
               ReadRequest(t) \/ ReadExecution(t) \/ TransitionPending(t)
        PROVE  FALSE
    BY <1>0, <1>3 DEF ReadRequest, ReadExecution, TransitionPending, Finish
  <1>4. ASSUME NEW t \in Tx, t # u, CommitDecision(t) \/ Rollback(t)
        PROVE  FALSE
    BY <1>0, <1>4 DEF CommitDecision, Rollback, Raise, Finish
  <1>5. ASSUME NEW t \in Tx, NEW c \in Call, Begin(t, c)
        PROVE  FALSE
    BY <1>0, <1>5 DEF Begin
  <1>6. ~(Tick \/ UNCHANGED vars)
    BY DEF Tick, vars
  <1> QED
    BY <1>1, <1>2, <1>3, <1>4, <1>5, <1>6 DEF Next, Step

-----------------------------------------------------------------------------
(* The inductive invariant: endings, what a session has seen, the answers *)

LEMMA AnswersInit == Init => AnswersInv
  <1> SUFFICES ASSUME Init PROVE AnswersInv
    OBVIOUS
  <1>1. EndingsOK
    BY DEF Init, EndingsOK, NoRequest
  <1>2. SeenOK
    BY DEF Init, SeenOK, NoTransaction
  <1>3. AnswersAreTrue
    BY DEF Init, AnswersAreTrue, NoReply, NoCall
  <1> QED
    BY <1>1, <1>2, <1>3 DEF AnswersInv

\* A command commits a pending request or none; a decision commits the ending
\* its execution tells.
LEMMA EndingsNext == Inv /\ EndingsOK /\ [Next]_vars => EndingsOK'
  <1> SUFFICES ASSUME Inv, EndingsOK, [Next]_vars, NEW k \in Key
               PROVE  LET q == requests'[k]
                          e == executions'[k] IN
                      /\ q.status = "consumed" =>
                            e \in {Outcome("executed", "task_deleted", "none", q.task),
                                   Outcome("failed", "task_delete_failed", "TASK_NOT_FOUND", q.task)}
                      /\ q.status = "cancelled" =>
                            e = Outcome("rejected", "task_delete_cancelled", "none", None)
                      /\ q.status \in {"pending", "expired"} => e.status # "executed"
    BY DEF EndingsOK
  <1>1. CASE requests'[k] = requests[k] /\ executions'[k] = executions[k]
    BY <1>1 DEF EndingsOK
  <1>2. ASSUME NEW t \in Tx, CommitCommand(t), tx[t].call.key = k
        PROVE  /\ requests'[k].status \in {"none", "pending"}
               /\ requests'[k].status = "pending" => executions'[k].status # "executed"
    <2>1. executions'[k] = tx[t].outcome
      BY <1>2, CommandCommit DEF Inv, TypeOK
    <2> QED
      BY <1>2, <2>1, CommandRequest
  <1>3. ASSUME NEW t \in Tx, CommitDecision(t), tx[t].call.key = k
        PROVE  /\ executions'[k] = tx[t].outcome
               /\ DecisionOutcome(tx[t]) /\ requests'[k].task = tx[t].task
               /\ requests'[k].status = IF tx[t].verdict = "confirmed" THEN "consumed"
                                        ELSE tx[t].verdict
    BY <1>3, DecisionCommit, DecisionRequest DEF Inv, TypeOK
  <1>4. ASSUME NEW t \in Tx, CommitCommand(t) \/ CommitDecision(t), tx[t].call.key # k
        PROVE  requests'[k] = requests[k] /\ executions'[k] = executions[k]
    BY <1>4, CommandRequest, CommandCommit, DecisionRequest, DecisionCommit DEF Inv, TypeOK
  <1>5. CASE UNCHANGED committed
    BY <1>1, <1>5 DEF committed
  <1>6. ASSUME NEW t \in Tx, CommitDecision(t), tx[t].call.key = k
        PROVE  /\ requests'[k].status = "consumed" =>
                    executions'[k] \in
                      {Outcome("executed", "task_deleted", "none", requests'[k].task),
                       Outcome("failed", "task_delete_failed", "TASK_NOT_FOUND", requests'[k].task)}
               /\ requests'[k].status = "cancelled" =>
                    executions'[k] = Outcome("rejected", "task_delete_cancelled", "none", None)
               /\ requests'[k].status \in {"pending", "expired"} => executions'[k].status # "executed"
    <2>1. tx[t].verdict \in {"confirmed", "cancelled", "expired"}
      BY <1>6, DecisionCommit DEF Transaction
    <2>2. /\ executions'[k] = tx[t].outcome /\ DecisionOutcome(tx[t])
          /\ requests'[k].task = tx[t].task
          /\ requests'[k].status = IF tx[t].verdict = "confirmed" THEN "consumed"
                                   ELSE tx[t].verdict
      BY <1>3, <1>6
    <2>3. requests'[k].status = "expired" => executions'[k].status = "failed"
      BY <2>2 DEF DecisionOutcome, Outcome
    <2> QED
      BY <2>1, <2>2, <2>3 DEF DecisionOutcome
  <1> QED
    BY <1>1, <1>2, <1>4, <1>5, <1>6, OnlyCommits

LEMMA SeenNext == Inv /\ SeenOK /\ [Next]_vars => SeenOK'
  <1> SUFFICES ASSUME Inv, SeenOK, [Next]_vars, NEW u \in Tx, tx'[u].pc = "execution"
               PROVE  tx'[u].seen \in {"pending", requests'[tx'[u].call.key].status}
    BY DEF SeenOK
  <1> DEFINE k == tx[u].call.key
  <1>1. CASE tx'[u] = tx[u]
    <2>1. k \in Key /\ requests[k].status # "none" /\ tx[u].seen \in {"pending", requests[k].status}
      <3>1. k \in Key /\ SessionOK(tx[u])
        BY <1>1, CallFields DEF Inv
      <3> QED
        BY <1>1, <3>1 DEF SeenOK, SessionOK, VerdictOK, PlaceOK
    <2> QED
      BY <1>1, <2>1, ClosedStays
  <1>2. CASE ReadRequest(u)
    <2>1. tx \in [Tx -> Transaction] /\ NoTransaction.pc = "idle"
      BY DEF Inv, TypeOK, NoTransaction
    <2>2. ~Finish(u, "failed", "CONFIRMATION_NOT_FOUND", "none")
      BY <2>1 DEF Finish
    <2>3. /\ tx' = [tx EXCEPT ![u].pc = "execution", ![u].seen = requests[k].status,
                              ![u].task = requests[k].task]
          /\ UNCHANGED committed
      BY <1>2, <2>2 DEF ReadRequest
    <2>4. tx'[u].seen = requests[k].status /\ tx'[u].call.key = k
      BY <2>1, <2>3 DEF Transaction
    <2> QED
      BY <2>3, <2>4 DEF committed
  <1> QED
    BY <1>1, <1>2, OnlyReads

\* A true answer stays true: what it claims is of a resolved request.
LEMMA AnswerStays ==
    ASSUME Inv, [Next]_vars, NEW k \in Key, NEW r,
           AnswerTrue(r, requests[k], executions[k])
    PROVE  AnswerTrue(r, requests'[k], executions'[k])
  <1>1. CASE requests[k].status \in {"none", "pending"}
    BY <1>1 DEF AnswerTrue
  <1>2. CASE requests[k].status \notin {"none", "pending"}
    BY <1>2, ClosedStays
  <1> QED
    BY <1>1, <1>2

\* An answer that claims nothing of its request.
LEMMA Unclaimed ==
    ASSUME NEW r, NEW q, NEW e, r.call.op = "resolve",
           \/ r.status = "raised"
           \/ r.status = "failed" /\ r.error \in {"CONFIRMATION_NOT_FOUND", "CONFIRMATION_INVALID_DECISION"}
    PROVE  AnswerTrue(r, q, e)
  <1>1. CASE r.status = "raised"
    <2>1. Told(r) = "nothing"
      BY <1>1 DEF Told
    <2> QED
      BY <2>1 DEF AnswerTrue
  <1>2. CASE r.status = "failed" /\ r.error \in {"CONFIRMATION_NOT_FOUND", "CONFIRMATION_INVALID_DECISION"}
    <2>1. Told(r) \in {"unavailable", "failed"}
      BY <1>2, ToldFailure DEF Told
    <2> QED
      BY <2>1 DEF AnswerTrue
  <1> QED
    BY <1>1, <1>2

\* An answer without a commit, of what the session has read.
LEMMA ReadAnswer ==
    ASSUME Inv, EndingsOK, SeenOK, NEW u \in Tx, ReadExecution(u), UNCHANGED committed,
           NEW r, r = reply'[u], reply'[u] # reply[u]
    PROVE  AnswerTrue(r, requests[tx[u].call.key], executions[tx[u].call.key])
  <1> DEFINE k == tx[u].call.key
             q == requests[k]
             e == executions[k]
  <1>1. /\ k \in Key /\ tx[u].call.op = "resolve" /\ q.status # "none" /\ q \in Request
        /\ e \in Execution /\ reply \in [Tx -> Reply] /\ tx[u].seen \in RequestStatus
    <2>1. tx[u].pc = "execution" /\ SessionOK(tx[u]) /\ k \in Key /\ tx[u] \in Transaction
      BY CallFields DEF ReadExecution, Inv
    <2> QED
      BY <2>1 DEF SessionOK, PlaceOK, VerdictOK, Inv, TypeOK, Transaction
  <1>2. tx[u].seen \in {"pending", q.status}
    BY DEF SeenOK, ReadExecution
  <1>3. e.status = "executed" => q.status = "consumed"
    BY <1>1 DEF EndingsOK, Request, RequestStatus, Outcome
  <1>4. \A status, error : Finish(u, status, error, e.effect) =>
            /\ r.call.op = "resolve" /\ r.status = status /\ r.error = error
            /\ r.effect = e.effect
    BY <1>1 DEF Finish, AnswerEffect
  <1>5. CASE Finish(u, "duplicate", "none", e.effect) /\ (tx[u].seen = "consumed" \/ e.status = "executed")
    <2>1. q.status = "consumed"
      BY <1>2, <1>3, <1>5
    <2>2. e \in {Outcome("executed", "task_deleted", "none", q.task),
                 Outcome("failed", "task_delete_failed", "TASK_NOT_FOUND", q.task)}
      BY <1>1, <2>1 DEF EndingsOK
    <2>3. r.effect \in TaskEffect => e = Outcome("executed", "task_deleted", "none", q.task)
      BY <1>4, <1>5, <2>2 DEF Outcome, TaskEffect
    <2>4. r.call.op = "resolve" /\ r.status = "duplicate"
      BY <1>4, <1>5
    <2> QED
      BY <2>1, <2>3, <2>4, ToldDecision DEF AnswerTrue, AnswerStatus
  <1>6. CASE Finish(u, "rejected", "CONFIRMATION_CANCELLED", e.effect) /\ tx[u].seen = "cancelled"
    <2>1. q.status = "cancelled" /\ e.effect = "task_delete_cancelled"
      BY <1>1, <1>2, <1>6 DEF EndingsOK, Outcome
    <2>2. r.call.op = "resolve" /\ r.status = "rejected"
      BY <1>4, <1>6
    <2> QED
      BY <2>1, <2>2, ToldDecision DEF AnswerTrue, AnswerStatus, ExecutionStatus
  <1>7. CASE Finish(u, "failed", "CONFIRMATION_EXPIRED", e.effect) /\ tx[u].seen = "expired"
    <2>1. q.status = "expired"
      BY <1>2, <1>7
    <2>2. r.call.op = "resolve" /\ r.status = "failed" /\ r.error = "CONFIRMATION_EXPIRED"
      BY <1>4, <1>7
    <2> QED
      BY <2>1, <2>2, ToldDecision DEF AnswerTrue, AnswerStatus, ExecutionStatus
  <1>8. CASE Finish(u, "failed", "CONFIRMATION_INVALID_DECISION", e.effect)
    BY <1>4, <1>8, Unclaimed
  <1> QED
    BY <1>5, <1>6, <1>7, <1>8 DEF ReadExecution

\* The loser of a race is told of a request that was resolved.
LEMMA LoserAnswer ==
    ASSUME Inv, NEW u \in Tx, TransitionPending(u), NEW r, r = reply'[u], reply'[u] # reply[u]
    PROVE  AnswerTrue(r, requests[tx[u].call.key], executions[tx[u].call.key])
  <1> DEFINE k == tx[u].call.key
  <1>1. k \in Key /\ tx[u].call.op = "resolve" /\ requests[k].status # "none"
        /\ reply \in [Tx -> Reply]
    <2>1. tx[u].pc = "transition" /\ SessionOK(tx[u]) /\ k \in Key
      BY CallFields DEF TransitionPending, Inv
    <2> QED
      BY <2>1 DEF SessionOK, PlaceOK, VerdictOK, Inv, TypeOK
  <1>2. /\ requests[k].status # "pending"
        /\ \E error \in {"CONFIRMATION_EXPIRED", "CONFIRMATION_ALREADY_RESOLVED"} :
              \E effect : Finish(u, "failed", error, effect)
    BY DEF TransitionPending, StillPending
  <1>3. /\ r.call.op = "resolve" /\ r.status = "failed"
        /\ r.error \in {"CONFIRMATION_EXPIRED", "CONFIRMATION_ALREADY_RESOLVED"}
    BY <1>1, <1>2 DEF Finish
  <1> QED
    BY <1>1, <1>2, <1>3, ToldDecision DEF AnswerTrue, AnswerStatus, ExecutionStatus

\* The session that decides tells what it commits.
LEMMA WinnerAnswer ==
    ASSUME Inv, NEW u \in Tx, CommitDecision(u), NEW r, r = reply'[u]
    PROVE  AnswerTrue(r, requests'[tx[u].call.key], executions'[tx[u].call.key])
  <1> DEFINE s == tx[u]
             k == s.call.key
             q == requests'[k]
             e == executions'[k]
  <1>1. /\ s.call.op = "resolve" /\ k \in Key /\ reply \in [Tx -> Reply]
        /\ DecisionOutcome(s) /\ s.verdict \in {"confirmed", "cancelled", "expired"}
        /\ e = s.outcome /\ q.task = s.task
        /\ q.status = IF s.verdict = "confirmed" THEN "consumed" ELSE s.verdict
    BY DecisionCommit, DecisionRequest DEF Inv, TypeOK, Transaction
  <1>2. /\ r.call.op = "resolve" /\ r.status = s.outcome.status
        /\ r.error = AnswerError(s.outcome) /\ r.effect = s.outcome.effect
    BY <1>1 DEF CommitDecision, Finish, AnswerEffect
  <1>3. CASE s.verdict = "confirmed" /\ s.outcome = Outcome("executed", "task_deleted", "none", s.task)
    <2>1. r.status = "executed" /\ q.status = "consumed" /\ e = Outcome("executed", "task_deleted", "none", q.task)
      BY <1>1, <1>2, <1>3 DEF Outcome
    <2> QED
      BY <1>2, <2>1, ToldDecision DEF AnswerTrue, AnswerStatus, ExecutionStatus
  <1>4. CASE /\ s.verdict = "confirmed"
             /\ s.outcome = Outcome("failed", "task_delete_failed", "TASK_NOT_FOUND", s.task)
    <2>1. /\ r.status = "failed" /\ q.status = "consumed" /\ e.effect = "task_delete_failed"
      BY <1>1, <1>2, <1>4 DEF Outcome
    <2> QED
      BY <1>2, <2>1, ToldDecision DEF AnswerTrue, AnswerStatus, ExecutionStatus
  <1>5. CASE /\ s.verdict = "cancelled"
             /\ s.outcome = Outcome("rejected", "task_delete_cancelled", "none", None)
    <2>1. /\ r.status = "rejected" /\ q.status = "cancelled" /\ e.effect = "task_delete_cancelled"
      BY <1>1, <1>2, <1>5 DEF Outcome
    <2> QED
      BY <1>2, <2>1, ToldDecision DEF AnswerTrue, AnswerStatus, ExecutionStatus
  <1>6. CASE /\ s.verdict = "expired"
             /\ s.outcome = Outcome("failed", "task_delete_failed", "CONFIRMATION_EXPIRED", None)
    <2>1. r.error = "CONFIRMATION_EXPIRED" /\ r.status = "failed" /\ q.status = "expired"
      BY <1>1, <1>2, <1>6 DEF AnswerError, Outcome
    <2> QED
      BY <1>2, <2>1, ToldDecision DEF AnswerTrue, AnswerStatus, ExecutionStatus
  <1> QED
    BY <1>1, <1>3, <1>4, <1>5, <1>6 DEF DecisionOutcome

LEMMA AnswersNext ==
    ASSUME Inv, Inv', AnswersInv, EndingsOK', [Next]_vars, NEW u \in Tx,
           reply'[u].call.op = "resolve"
    PROVE  /\ AnswerTrue(reply'[u], requests'[reply'[u].call.key], executions'[reply'[u].call.key])
           /\ Told(reply'[u]) = "already deleted"
                 => tasks'[requests'[reply'[u].call.key].task].status = "deleted"
  <1> DEFINE r == reply'[u]
             k == r.call.key
  <1>1. r \in Reply /\ k \in Key
    <2>1. r \in Reply /\ r.call.op # NoCall.op
      BY DEF Inv, TypeOK, NoCall
    <2> QED
      BY <2>1, CallAssumption DEF Reply, CallType, NoCall
  <1>2. AnswerTrue(r, requests'[k], executions'[k])
    <2>1. CASE r = reply[u]
      BY <1>1, <2>1, AnswerStays DEF AnswersInv, AnswersAreTrue
    <2>2. CASE r # reply[u] /\ ReadRequest(u)
      <3>1. reply \in [Tx -> Reply]
        BY DEF Inv, TypeOK
      <3>2. Finish(u, "failed", "CONFIRMATION_NOT_FOUND", "none")
        BY <2>2 DEF ReadRequest
      <3>3. r.status = "failed" /\ r.error = "CONFIRMATION_NOT_FOUND"
        BY <3>1, <3>2 DEF Finish
      <3> QED
        BY <3>3, Unclaimed
    <2>3. CASE r # reply[u] /\ (ReadExecution(u) \/ TransitionPending(u))
      <3>1. reply \in [Tx -> Reply]
        BY DEF Inv, TypeOK
      <3>2. UNCHANGED committed /\ k = tx[u].call.key
        BY <2>3, <3>1 DEF ReadExecution, TransitionPending, Finish
      <3>3. AnswerTrue(r, requests[k], executions[k])
        BY <2>3, <3>2, ReadAnswer, LoserAnswer DEF AnswersInv
      <3> QED
        BY <3>2, <3>3 DEF committed
    <2>4. CASE CommitDecision(u)
      <3>1. k = tx[u].call.key
        BY <2>4 DEF CommitDecision, Finish, Inv, TypeOK
      <3> QED
        BY <2>4, <3>1, WinnerAnswer
    <2>5. CASE Rollback(u)
      <3>1. r.status = "raised"
        BY <2>5 DEF Rollback, Raise, Finish, Inv, TypeOK
      <3> QED
        BY <3>1, Unclaimed
    <2> QED
      BY <2>1, <2>2, <2>3, <2>4, <2>5, OnlyAnswers
  <1>3. ASSUME Told(r) = "already deleted"
        PROVE  tasks'[requests'[k].task].status = "deleted"
    <2>1. executions'[k] = Outcome("executed", "task_deleted", "none", requests'[k].task)
      BY <1>2, <1>3 DEF AnswerTrue
    <2>2. executions'[k].effect = "task_deleted" /\ executions'[k].task = requests'[k].task
      BY <2>1 DEF Outcome
    <2> QED
      BY <1>1, <2>2 DEF Inv, EffectsAreTrue
  <1> QED
    BY <1>2, <1>3

\* How requests ended, what sessions have read of them and what was told of
\* them: the invariant the answers rest on, beside that of the service.
THEOREM AnswersInvariance == Spec => []AnswersInv
  <1>1. Init => AnswersInv
    BY AnswersInit
  <1>2. Inv /\ Inv' /\ AnswersInv /\ [Next]_vars => AnswersInv'
    <2> SUFFICES ASSUME Inv, Inv', AnswersInv, [Next]_vars PROVE AnswersInv'
      OBVIOUS
    <2>1. EndingsOK' /\ SeenOK'
      BY EndingsNext, SeenNext DEF AnswersInv
    <2>2. AnswersAreTrue'
      BY <2>1, AnswersNext DEF AnswersAreTrue
    <2> QED
      BY <2>1, <2>2 DEF AnswersInv
  <1> QED
    BY <1>1, <1>2, Invariance, PTL DEF Spec

\* What a user who decided on a request is told is true and stays true.
THEOREM TrueAnswers == Spec => []AnswersAreTrue
  <1>1. AnswersInv => AnswersAreTrue
    BY DEF AnswersInv
  <1> QED
    BY <1>1, AnswersInvariance, PTL
=============================================================================
