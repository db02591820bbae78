---------------------------- MODULE TaskService ----------------------------
(***************************************************************************)
(* app/services/tasks.py over app/repositories: every service method is    *)
(* one PostgreSQL transaction at READ COMMITTED.  A transaction is a       *)
(* process; each SQL statement that another session can observe or delay   *)
(* is a step of it, so that any two calls interleave between statements.   *)
(* Committed rows are the variables tasks, executions and requests; what a *)
(* transaction has written and not committed lives in tx[t].               *)
(*                                                                         *)
(* A confirmation request is identified by the key of the execution that   *)
(* created it: _request_task_deletion_by_id creates at most one per        *)
(* execution.                                                              *)
(***************************************************************************)
EXTENDS Naturals

CONSTANTS
    User, TaskId, Title, Key,
    Tx,        \* database sessions that may be open at the same time
    Call,      \* the service calls the clients make, any number of times
    Seeded,    \* the tasks table at the start
    TTL,       \* CONFIRMATION_TTL, in clock units
    MaxClock,  \* bound on the clock
    None

Op == {"create", "update", "complete", "delete", "resolve"}

\* An operation is addressed by a query when task = None, else by a task id.
\* A "resolve" call names the request by its key.
CallType == [op : Op, key : Key, user : User, query : Title \cup {None},
             task : TaskId \cup {None}, title : Title \cup {None},
             decision : {"confirm", "cancel", "other", "none"}]

FreeRow    == [owner |-> None, title |-> None, status |-> "free"]
DeletedRow == [owner |-> None, title |-> None, status |-> "deleted"]
LiveRow    == [owner : User, title : Title, status : {"active", "completed"}]
Row        == LiveRow \cup {FreeRow, DeletedRow}

ErrorCode == {"none", "TASK_REFERENCE_NOT_FOUND", "TASK_REFERENCE_AMBIGUOUS",
              "TASK_NOT_FOUND", "CONFIRMATION_NOT_FOUND", "CONFIRMATION_CANCELLED",
              "CONFIRMATION_EXPIRED", "CONFIRMATION_INVALID_DECISION",
              "CONFIRMATION_ALREADY_RESOLVED", "CONFIRMATION_REQUIRED"}
Effect == {"none", "task_created", "task_updated", "task_unchanged",
           "task_completed", "task_deleted", "not_found", "ambiguous",
           "delete_ambiguous", "failed", "task_delete_pending", "task_delete_cancelled",
           "task_delete_failed"}
TaskEffect == {"task_created", "task_updated", "task_unchanged", "task_completed",
               "task_delete_pending", "task_deleted"}  \* those that name a task
ExecutionStatus == {"none", "awaiting_selection", "awaiting_confirmation",
                    "executed", "failed", "rejected"}

\* A command_executions row: status, effect_payload.kind, .error_code, .task_id.
Execution == [status : ExecutionStatus, effect : Effect, error : ErrorCode,
              task : TaskId \cup {None}]
NoExecution == [status |-> "none", effect |-> "none", error |-> "none",
                task |-> None]

\* A confirmation_requests row.  "confirmed" is written and overwritten by
\* "consumed" inside one transaction, so it is never committed.
RequestStatus == {"none", "pending", "cancelled", "expired", "consumed"}
Request == [status : RequestStatus, user : User \cup {None},
            task : TaskId \cup {None}, expires : Nat, resolved : Nat]
NoRequest == [status |-> "none", user |-> None, task |-> None,
              expires |-> 0, resolved |-> 0]

NoCall == [op |-> "none"]
\* task is the task that the answer of an acted or asked-about command names.
Reply == [call : Call \cup {NoCall}, error : ErrorCode, effect : Effect,
          status : {"none", "raised", "duplicate"} \cup ExecutionStatus,
          task : TaskId \cup {None}]
NoReply == [call |-> NoCall, error |-> "none", effect |-> "none", status |-> "none",
            task |-> None]

PC == {"idle", "lookup", "replay", "insert", "create", "search", "select",
       "reselect", "write", "commit", "request", "execution", "transition",
       "delete"}

\* A transaction: where it is, the task its command resolved to, the tasks
\* row it has written (and so locked), its copy of the execution row, the
\* status it has given the request (and so locked it), and what it has read.
Transaction == [pc : PC, call : Call \cup {NoCall}, task : TaskId \cup {None},
                row : TaskId \cup {None}, outcome : Execution,
                verdict : {"none", "confirmed", "cancelled", "expired"},
                seen : RequestStatus, now : Nat]
NoTransaction == [pc |-> "idle", call |-> NoCall, task |-> None, row |-> None,
                  outcome |-> NoExecution, verdict |-> "none",
                  seen |-> "none", now |-> 0]

ASSUME CallAssumption ==
    /\ Call \subseteq CallType
    /\ \A c \in Call : /\ c.op = "create" => c.title # None
                       /\ c.op = "update" => c.title # None
ASSUME SeededAssumption ==
    Seeded \in [TaskId -> {FreeRow} \cup [owner : User, title : Title, status : {"active"}]]
ASSUME NoneAssumption == None \notin TaskId \cup User \cup Title
ASSUME TimeAssumption == TTL \in Nat \ {0} /\ MaxClock \in Nat

VARIABLES tasks, executions, requests, tx, reply, clock
vars == <<tasks, executions, requests, tx, reply, clock>>
committed == <<tasks, executions, requests>>

-----------------------------------------------------------------------------
(* Rows and locks *)

Live(x) == tasks[x].status \in {"active", "completed"}
AnyOwner(u, x) == Live(x)  \* mutant: the WHERE clause forgets user_id
Visible(u, x) == Live(x) /\ tasks[x].owner = u
ActiveFor(u, x) == Visible(u, x) /\ tasks[x].status = "active"

\* search_for_user / list_for_user restricted to active tasks; the text match
\* is abstracted to equality with the title, no query matches every title.
Candidates(c) == {x \in TaskId : /\ ActiveFor(c.user, x)
                                 /\ c.query \in {None, tasks[x].title}}

RowUnlocked(x) == FALSE  \* mutant: no row locks
\* The row is locked by the UPDATE, DELETE or INSERT of a session not yet committed.
RowLocked(x) == \E t \in Tx : tx[t].row = x
RequestUnlocked(k) == FALSE  \* mutant: no lock on the request
RequestLocked(k) == \E t \in Tx : tx[t].verdict # "none" /\ tx[t].call.key = k
InsertedPC == {"create", "search", "select", "reselect", "write", "commit"}
Inserted(s) == s.pc \in InsertedPC /\ s.call.op # "resolve"
KeyUnlocked(k) == FALSE  \* mutant: no unique constraint on the key
KeyLocked(k) == \E t \in Tx : Inserted(tx[t]) /\ tx[t].call.key = k

Outcome(status, effect, error, x) ==
    [status |-> status, effect |-> effect, error |-> error, task |-> x]

-----------------------------------------------------------------------------
(* Transaction control *)

\* The effect in a handler's answer: a completion's is rebuilt from its status,
\* a creation's is fixed, the others are the stored ones.
AnswerEffect(c, status, effect) ==
    IF status = "raised" \/ c.op \notin {"create", "complete"} THEN effect
    ELSE IF c.op = "create" THEN "task_created"
    ELSE CASE status = "awaiting_selection" -> "ambiguous"
           [] status = "failed"             -> IF c.task = None THEN "not_found" ELSE "none"
           [] OTHER                         -> "task_completed"

\* The task in a handler's answer: the one the command resolved to, or of a
\* repeated key the one its stored effect names.
AnswerTask(s, status) ==
    IF status \notin {"executed", "duplicate", "awaiting_confirmation"} THEN None
    ELSE IF s.pc = "commit" THEN s.outcome.task
    ELSE executions[s.call.key].task

\* The transaction ends and the caller gets its answer.
Finish(t, status, error, effect) ==
    /\ tx' = [tx EXCEPT ![t] = NoTransaction]
    /\ reply' = [reply EXCEPT ![t] =
          [call |-> tx[t].call, error |-> error, status |-> status,
           effect |-> AnswerEffect(tx[t].call, status, effect),
           task |-> AnswerTask(tx[t], status)]]

\* An exception leaves the session.begin() block: rollback.
Raise(t) == Finish(t, "raised", "none", "none") /\ UNCHANGED committed

Goto(t, pc) ==
    /\ tx' = [tx EXCEPT ![t].pc = pc]
    /\ UNCHANGED <<committed, reply>>

\* The execution row is complete; only the commit is left.
Conclude(t, outcome) ==
    /\ tx' = [tx EXCEPT ![t].pc = "commit", ![t].outcome = outcome]
    /\ UNCHANGED <<committed, reply>>

Begin(t, c) ==
    /\ tx[t].pc = "idle"
    /\ tx' = [tx EXCEPT ![t] = [NoTransaction EXCEPT !.call = c,
                 !.pc = IF c.op = "resolve" THEN "request" ELSE "lookup"]]
    /\ reply' = [reply EXCEPT ![t] = NoReply]
    /\ UNCHANGED <<committed, clock>>

\* A crash, a lost connection or an unexpected exception before the commit.
Rollback(t) ==
    /\ tx[t].pc # "idle"
    /\ Raise(t)
    /\ UNCHANGED clock

Tick ==
    /\ clock < MaxClock
    /\ clock' = clock + 1
    /\ UNCHANGED <<committed, tx, reply>>

-----------------------------------------------------------------------------
(* Idempotency: every mutating command starts by looking its key up *)

\* A repeated deletion whose execution is not an executed one.  When the key
\* belongs to an ambiguous update or completion the answer looks executed,
\* which the Harness refuses.
DuplicateDeletion(t, e) ==
    /\ tx[t].call.op = "delete"
    /\ \/ e.status = "awaiting_confirmation" /\ Finish(t, "awaiting_confirmation", "none", e.effect)
       \/ /\ e.status = "awaiting_selection" /\ e.effect = "delete_ambiguous"
          /\ Finish(t, "awaiting_selection", "none", e.effect)
       \/ /\ e.status = "awaiting_selection" /\ e.effect # "delete_ambiguous"
          /\ Finish(t, "rejected", "CONFIRMATION_REQUIRED", "none")
       \/ /\ e.status = "failed"
          /\ Finish(t, "failed", IF e.error = "none" THEN "TASK_NOT_FOUND" ELSE e.error, e.effect)
       \/ e.status = "rejected" /\ Finish(t, "rejected", "CONFIRMATION_CANCELLED", e.effect)

\* The same for the other commands; a repeated creation has no other answer
\* than the created task.
DuplicateCommand(t, e) ==
    LET op == tx[t].call.op IN
    \/ /\ op \in {"update", "complete"} /\ e.status = "awaiting_selection"
       /\ IF tx[t].call.task = None
          THEN Finish(t, "awaiting_selection", "none", e.effect)
          ELSE Finish(t, "failed", "TASK_REFERENCE_AMBIGUOUS", e.effect)
    \/ /\ op \in {"update", "complete"} /\ e.status = "failed"
       /\ Finish(t, "failed", IF e.error = "none" THEN "TASK_NOT_FOUND" ELSE e.error, e.effect)
    \/ /\ \/ op = "create"
          \/ op \in {"update", "complete"} /\ e.status \in {"awaiting_confirmation", "rejected"}
       /\ Finish(t, "raised", "none", "none")

\* Mutant: a command by id locks its task before it records its key.
LockThenInsert(t) ==
    LET x == tx[t].call.task IN
    /\ tx[t].pc = "lookup" /\ executions[tx[t].call.key].status = "none"
    /\ x = None \/ ~RowLocked(x)
    /\ tx' = [tx EXCEPT ![t].pc = "insert", ![t].row = x]
    /\ UNCHANGED <<committed, reply, clock>>

Lookup(t) ==
    LET e == executions[tx[t].call.key] IN
    /\ tx[t].pc = "lookup"
    /\ \/ e.status = "none" /\ Goto(t, "insert")
       \/ e.status = "executed" /\ Goto(t, "replay")
       \/ /\ e.status \notin {"none", "executed"}
          /\ DuplicateDeletion(t, e) \/ DuplicateCommand(t, e)
          /\ UNCHANGED committed
    /\ UNCHANGED clock

\* The replay of an executed command re-reads the task named by its effect;
\* only a deletion answers when the task is gone.
Replay(t) ==
    LET c == tx[t].call
        e == executions[c.key] IN
    /\ tx[t].pc = "replay"
    /\ IF c.op = "delete" \/ Visible(c.user, e.task)
       THEN Finish(t, "duplicate", "none", e.effect) /\ UNCHANGED committed
       ELSE Raise(t)
    /\ UNCHANGED clock

\* Mutant: a repeated key is waited for instead of refused.
InsertWhenUnused(t) ==
    /\ tx[t].pc = "insert"
    /\ executions[tx[t].call.key].status = "none" /\ ~KeyLocked(tx[t].call.key)
    /\ tx' = [tx EXCEPT ![t].task = tx[t].call.task,
                        ![t].pc = IF tx[t].call.task = None THEN "search" ELSE "select"]
    /\ UNCHANGED <<committed, reply, clock>>

\* Mutant: a key that was taken in between is looked up again.
InsertOrLookUpAgain(t) ==
    \/ /\ tx[t].pc = "insert" /\ ~KeyLocked(tx[t].call.key)
       /\ executions[tx[t].call.key].status # "none"
       /\ Goto(t, "lookup") /\ UNCHANGED clock
    \/ InsertWhenUnused(t)

\* INSERT of the execution row: waits for an uncommitted insert of the same
\* key, then violates the unique constraint if that one was committed.
CreateReceived(t) ==
    LET c == tx[t].call IN
    /\ tx[t].pc = "insert"
    /\ ~KeyLocked(c.key)
    /\ IF executions[c.key].status # "none"
       THEN Raise(t)
       ELSE /\ tx' = [tx EXCEPT ![t].task = c.task,
                                ![t].pc = IF c.op = "create" THEN "create"
                                          ELSE IF c.task = None THEN "search"
                                          ELSE "select"]
            /\ UNCHANGED <<committed, reply>>
    /\ UNCHANGED clock

-----------------------------------------------------------------------------
(* The command bodies *)

\* INSERT of a task with a fresh id.
CreateTask(t) ==
    /\ tx[t].pc = "create"
    /\ \E x \in TaskId :
         /\ tasks[x].status = "free" /\ ~RowLocked(x)
         /\ tx' = [tx EXCEPT ![t].pc = "commit", ![t].task = x, ![t].row = x,
                     ![t].outcome = Outcome("executed", "task_created", "none", x)]
    /\ UNCHANGED <<committed, reply, clock>>

\* Resolution of a textual reference.  The stored effect of a failed update
\* or completion has no error_code; that of a failed deletion has one.
Search(t) ==
    LET c == tx[t].call
        candidates == Candidates(c) IN
    /\ tx[t].pc = "search"
    /\ \/ /\ candidates = {}
          /\ Conclude(t, Outcome("failed", "not_found",
                IF c.op = "delete" THEN "TASK_REFERENCE_NOT_FOUND" ELSE "none", None))
       \/ \E x \in candidates :
            /\ candidates = {x}
            /\ tx' = [tx EXCEPT ![t].pc = "select", ![t].task = x]
            /\ UNCHANGED <<committed, reply>>
       \/ /\ \E x, y \in candidates : x # y
          /\ Conclude(t, Outcome("awaiting_selection",
                IF c.op = "delete" THEN "delete_ambiguous" ELSE "ambiguous", "none", None))
    /\ UNCHANGED clock

\* Mutant: the completion is recorded and never written to the task.
CompleteWithoutWriting(t) ==
    LET x == tx[t].task IN
    /\ tx[t].pc = "select" /\ tx[t].call.op = "complete"
    /\ Conclude(t, IF ActiveFor(tx[t].call.user, x)
                   THEN Outcome("executed", "task_completed", "none", x)
                   ELSE Outcome("failed", "failed", "TASK_NOT_FOUND", x))
    /\ UNCHANGED clock

\* complete_for_user: SELECT of an active row, without a lock.
SelectToComplete(t) ==
    LET x == tx[t].task IN
    /\ tx[t].pc = "select" /\ tx[t].call.op = "complete"
    /\ IF ActiveFor(tx[t].call.user, x)
       THEN /\ tx' = [tx EXCEPT ![t].pc = "write",
                        ![t].outcome = Outcome("executed", "task_completed", "none", x)]
            /\ UNCHANGED <<committed, reply>>
       ELSE Conclude(t, Outcome("failed", "failed", "TASK_NOT_FOUND", x))
    /\ UNCHANGED clock

\* get_for_user does not look at the status: a completed task can be updated.
SelectToUpdate(t) ==
    LET x == tx[t].task
        c == tx[t].call IN
    /\ tx[t].pc = "select" /\ c.op = "update"
    /\ \/ ~Visible(c.user, x) /\ Conclude(t, Outcome("failed", "failed", "TASK_NOT_FOUND", x))
       \/ /\ Visible(c.user, x) /\ tasks[x].title = c.title
          /\ Conclude(t, Outcome("executed", "task_unchanged", "none", x))
       \/ Visible(c.user, x) /\ tasks[x].title # c.title /\ Goto(t, "reselect")
    /\ UNCHANGED clock

\* update_for_user reads the row again; no UPDATE is emitted for equal values.
ReselectToUpdate(t) ==
    LET x == tx[t].task
        c == tx[t].call
        updated == Outcome("executed", "task_updated", "none", x) IN
    /\ tx[t].pc = "reselect"
    /\ \/ ~Visible(c.user, x) /\ Conclude(t, Outcome("failed", "failed", "TASK_NOT_FOUND", x))
       \/ Visible(c.user, x) /\ tasks[x].title = c.title /\ Conclude(t, updated)
       \/ /\ Visible(c.user, x) /\ tasks[x].title # c.title
          /\ tx' = [tx EXCEPT ![t].pc = "write", ![t].outcome = updated]
          /\ UNCHANGED <<committed, reply>>
    /\ UNCHANGED clock

\* Mutant: the task is deleted at once, without asking.
DeleteWithoutAsking(t) ==
    LET x == tx[t].task IN
    /\ tx[t].pc = "select" /\ tx[t].call.op = "delete"
    /\ ActiveFor(tx[t].call.user, x) /\ ~RowLocked(x)
    /\ tx' = [tx EXCEPT ![t].pc = "commit", ![t].row = x,
                        ![t].outcome = Outcome("executed", "task_deleted", "none", x)]
    /\ UNCHANGED <<committed, reply, clock>>

\* _request_task_deletion_by_id: nothing is deleted, a request is created.
SelectToDelete(t) ==
    LET x == tx[t].task IN
    /\ tx[t].pc = "select" /\ tx[t].call.op = "delete"
    /\ IF ActiveFor(tx[t].call.user, x)
       THEN /\ tx' = [tx EXCEPT ![t].pc = "commit", ![t].now = clock, ![t].outcome =
                        Outcome("awaiting_confirmation", "task_delete_pending", "none", x)]
            /\ UNCHANGED <<committed, reply>>
       ELSE Conclude(t, Outcome("failed", "task_delete_failed", "TASK_NOT_FOUND", x))
    /\ UNCHANGED clock

\* The flush of an UPDATE or DELETE by primary key: waits for the row's lock.
\* An UPDATE that matches no row is a StaleDataError; a DELETE that matches
\* none is only a warning, and the command goes on as if it had deleted.
WriteTask(t) ==
    LET x == tx[t].task IN
    /\ tx[t].pc = "write"
    /\ ~RowLocked(x)
    /\ \/ /\ Live(x)
          /\ tx' = [tx EXCEPT ![t].pc = "commit", ![t].row = x]
          /\ UNCHANGED <<committed, reply>>
       \/ ~Live(x) /\ tx[t].call.op = "resolve" /\ Goto(t, "commit")
       \/ ~Live(x) /\ tx[t].call.op # "resolve" /\ Raise(t)
    /\ UNCHANGED clock

-----------------------------------------------------------------------------
(* resolve_task_deletion_confirmation *)

\* get_for_user of the confirmation repository.
KnownRequest(t) == requests[tx[t].call.key].status # "none"  \* mutant: user_id forgotten
OwnRequest(t) == /\ requests[tx[t].call.key].status # "none"
                 /\ requests[tx[t].call.key].user = tx[t].call.user

ReadRequest(t) ==
    LET r == requests[tx[t].call.key] IN
    /\ tx[t].pc = "request"
    /\ IF OwnRequest(t)
       THEN /\ tx' = [tx EXCEPT ![t].pc = "execution", ![t].seen = r.status,
                                ![t].task = r.task]
            /\ UNCHANGED <<committed, reply>>
       ELSE Finish(t, "failed", "CONFIRMATION_NOT_FOUND", "none") /\ UNCHANGED committed
    /\ UNCHANGED clock

\* The request may have been resolved since it was read: the execution is
\* newer than the request the checks compare it with.
ReadExecution(t) ==
    LET e == executions[tx[t].call.key]
        seen == tx[t].seen
        duplicate == seen = "consumed" \/ e.status = "executed" IN
    /\ tx[t].pc = "execution"
    /\ \/ duplicate /\ Finish(t, "duplicate", "none", e.effect)
       \/ /\ ~duplicate /\ seen = "cancelled"
          /\ Finish(t, "rejected", "CONFIRMATION_CANCELLED", e.effect)
       \/ ~duplicate /\ seen = "expired" /\ Finish(t, "failed", "CONFIRMATION_EXPIRED", e.effect)
       \/ /\ ~duplicate /\ seen = "pending" /\ tx[t].call.decision = "other"
          /\ Finish(t, "failed", "CONFIRMATION_INVALID_DECISION", e.effect)
       \/ /\ ~duplicate /\ seen = "pending" /\ tx[t].call.decision # "other"
          /\ tx' = [tx EXCEPT ![t].pc = "transition", ![t].now = clock, ![t].outcome = e]
          /\ UNCHANGED reply
    /\ UNCHANGED <<committed, clock>>

ExpiredAfterwards(t) == tx[t].now > requests[tx[t].call.key].expires  \* mutant: > for >=
Expired(t) == tx[t].now >= requests[tx[t].call.key].expires

Unconditionally(k) == TRUE  \* mutant: UPDATE without its WHERE status = 'pending'
StillPending(k) == requests[k].status = "pending"

\* transition_pending: UPDATE ... WHERE status = 'pending'.  The session's copy
\* of the request is set to the attempted status even when no row matched, so
\* the loser of the race never sees how it was really resolved; only the
\* expiring one reads the execution again.
TransitionPending(t) ==
    LET c == tx[t].call
        attempt == IF Expired(t) THEN "expired"
                   ELSE IF c.decision = "confirm" THEN "confirmed" ELSE "cancelled"
        won(pc, outcome) ==
            /\ tx' = [tx EXCEPT ![t].pc = pc, ![t].verdict = attempt, ![t].outcome = outcome]
            /\ UNCHANGED reply IN
    /\ tx[t].pc = "transition"
    /\ ~RequestLocked(c.key)
    /\ IF StillPending(c.key)
       THEN \/ attempt = "confirmed" /\ won("delete", tx[t].outcome)
            \/ /\ attempt = "cancelled"
               /\ won("commit", Outcome("rejected", "task_delete_cancelled", "none", None))
            \/ /\ attempt = "expired"
               /\ won("commit", Outcome("failed", "task_delete_failed",
                                        "CONFIRMATION_EXPIRED", None))
       ELSE IF Expired(t)
            THEN Finish(t, "failed", "CONFIRMATION_EXPIRED", executions[c.key].effect)
            ELSE Finish(t, "failed", "CONFIRMATION_ALREADY_RESOLVED", tx[t].outcome.effect)
    /\ UNCHANGED <<committed, clock>>

\* delete_for_user: SELECT of an active row, without a lock.
SelectConfirmed(t) ==
    LET x == tx[t].task IN
    /\ tx[t].pc = "delete"
    /\ IF ActiveFor(tx[t].call.user, x)
       THEN /\ tx' = [tx EXCEPT ![t].pc = "write",
                        ![t].outcome = Outcome("executed", "task_deleted", "none", x)]
            /\ UNCHANGED <<committed, reply>>
       ELSE Conclude(t, Outcome("failed", "task_delete_failed", "TASK_NOT_FOUND", x))
    /\ UNCHANGED clock

-----------------------------------------------------------------------------
(* Commits: the rows of one transaction become visible together *)

WrittenRow(s) ==
    LET c == s.call IN
    CASE c.op = "create"   -> [owner |-> c.user, title |-> c.title, status |-> "active"]
      [] c.op = "update"   -> [tasks[s.row] EXCEPT !.title = c.title]
      [] c.op = "complete" -> [tasks[s.row] EXCEPT !.status = "completed"]
      [] OTHER             -> DeletedRow

CommitTasks(s) ==
    tasks' = [x \in TaskId |-> IF x = s.row THEN WrittenRow(s) ELSE tasks[x]]

\* The error code of the answer; not-found updates and completions answer a
\* code that their stored effect does not have.
AnswerError(outcome) ==
    CASE outcome.effect = "not_found"             -> "TASK_REFERENCE_NOT_FOUND"
      [] outcome.effect = "task_delete_cancelled" -> "CONFIRMATION_CANCELLED"
      [] OTHER                                    -> outcome.error

LeftWaiting(k, outcome) == UNCHANGED executions  \* mutant: _finish_execution forgotten
FinishExecution(k, outcome) == executions' = [executions EXCEPT ![k] = outcome]

CommitCommand(t) ==
    LET s == tx[t]
        k == s.call.key IN
    /\ s.pc = "commit" /\ s.call.op # "resolve"
    /\ CommitTasks(s)
    /\ FinishExecution(k, s.outcome)
    /\ requests' = IF s.outcome.status # "awaiting_confirmation" THEN requests
                   ELSE [requests EXCEPT ![k] =
                          [status |-> "pending", user |-> s.call.user, task |-> s.task,
                           expires |-> s.now + TTL, resolved |-> 0]]
    /\ Finish(t, s.outcome.status, AnswerError(s.outcome), s.outcome.effect)
    /\ UNCHANGED clock

NeverConsumed(s) == s.verdict  \* mutant: request.status = "consumed" forgotten
ResolvedStatus(s) == IF s.verdict = "confirmed" THEN "consumed" ELSE s.verdict

CommitDecision(t) ==
    LET s == tx[t]
        k == s.call.key IN
    /\ s.pc = "commit" /\ s.call.op = "resolve"
    /\ CommitTasks(s)
    /\ FinishExecution(k, s.outcome)
    /\ requests' = [requests EXCEPT ![k].status = ResolvedStatus(s), ![k].resolved = s.now]
    /\ Finish(t, s.outcome.status, AnswerError(s.outcome), s.outcome.effect)
    /\ UNCHANGED clock

-----------------------------------------------------------------------------

Init ==
    /\ tasks = Seeded
    /\ executions = [k \in Key |-> NoExecution]
    /\ requests = [k \in Key |-> NoRequest]
    /\ tx = [t \in Tx |-> NoTransaction]
    /\ reply = [t \in Tx |-> NoReply]
    /\ clock = 0

\* What a session that runs a call does next.
Step(t) ==
    \/ Lookup(t) \/ Replay(t) \/ CreateReceived(t) \/ CreateTask(t) \/ Search(t)
    \/ SelectToComplete(t) \/ SelectToUpdate(t) \/ ReselectToUpdate(t)
    \/ SelectToDelete(t) \/ WriteTask(t)
    \/ ReadRequest(t) \/ ReadExecution(t) \/ TransitionPending(t) \/ SelectConfirmed(t)
    \/ CommitCommand(t) \/ CommitDecision(t)

Next ==
    \/ \E t \in Tx : Step(t) \/ Rollback(t) \/ \E c \in Call : Begin(t, c)
    \/ Tick

Spec == Init /\ [][Next]_vars

\* PostgreSQL queues the waiters of a lock in order, so a session whose next
\* statement is possible again and again is eventually served.
FairSpec == Spec /\ \A t \in Tx : SF_vars(Step(t))

-----------------------------------------------------------------------------
(* Properties *)

\* Every variable holds what the tables and the sessions can hold.
TypeOK ==
    /\ tasks \in [TaskId -> Row]
    /\ executions \in [Key -> Execution]
    /\ requests \in [Key -> Request]
    /\ tx \in [Tx -> Transaction]
    /\ reply \in [Tx -> Reply]
    /\ clock \in 0 .. MaxClock
    /\ \A t \in Tx : tx[t].pc # "idle" => tx[t].call \in Call

\* Nothing is deleted without a valid confirmation (HARNESS.md, invariants): a
\* deleted task has a request of its own that was consumed before its expiry
\* by an execution that says so.
EveryDeletionWasConfirmed ==
    \A x \in TaskId : tasks[x].status = "deleted" =>
        \E k \in Key : /\ requests[k].status = "consumed" /\ requests[k].task = x
                       /\ requests[k].resolved < requests[k].expires
                       /\ executions[k] = Outcome("executed", "task_deleted", "none", x)

\* The two rows of a deletion are committed together and tell one story: the
\* execution waits exactly while the request is pending, is rejected exactly
\* when it is cancelled, and is executed or failed once it is consumed.
RequestAndExecutionAgree ==
    \A k \in Key :
        LET r == requests[k].status
            e == executions[k] IN
        /\ r = "pending" <=> e.status = "awaiting_confirmation"
        /\ r = "cancelled" <=> e.status = "rejected"
        /\ r = "expired" <=> e.error = "CONFIRMATION_EXPIRED"
        /\ r = "consumed" => e.status \in {"executed", "failed"}
        /\ e.effect = "task_deleted" => r = "consumed"

\* A request expires at expires_at exactly: it is decided strictly before and
\* expires at that instant or later, whatever happened between the check of
\* the clock and the commit.
DecidedInTime ==
    \A k \in Key :
        /\ requests[k].status \in {"consumed", "cancelled"}
              => requests[k].resolved < requests[k].expires
        /\ requests[k].status = "expired" => requests[k].resolved >= requests[k].expires

\* What a committed execution reports has happened to the row it names.
EffectsAreTrue ==
    \A k \in Key : LET e == executions[k] IN
        /\ e.effect \in TaskEffect => e.task \in TaskId /\ tasks[e.task].status # "free"
        /\ e.effect = "task_completed" => tasks[e.task].status \in {"completed", "deleted"}
        /\ e.effect = "task_deleted" => tasks[e.task].status = "deleted"

\* No confirmation is used twice and none is rewritten: a resolved request and
\* a finished execution never change again.
ResolvedIsFinal ==
    [][\A k \in Key :
        /\ requests[k].status \notin {"none", "pending"} => requests'[k] = requests[k]
        /\ executions[k].status \notin {"none", "awaiting_confirmation"}
              => executions'[k] = executions[k]]_vars

\* A row of tasks changes only together with one execution that turns into
\* "executed" and names it, so a replayed, repeated or concurrent call of the
\* same key never acts a second time.
OneEffectPerExecution ==
    [][\A x \in TaskId : tasks'[x] # tasks[x] =>
        \E k \in Key :
            /\ executions'[k].status = "executed" /\ executions'[k].task = x
            /\ executions[k].status \in {"none", "awaiting_confirmation"}
            /\ \A l \in Key \ {k} : executions'[l] = executions[l]
            /\ \A y \in TaskId \ {x} : tasks'[y] = tasks[y]]_vars

\* A user's call changes no other user's task and resolves no other user's
\* request, and no task is reopened or comes back after it was deleted.
OwnDataOnly ==
    [][/\ \A t \in Tx, x \in TaskId :
             tx[t] # tx'[t] /\ tasks'[x] # tasks[x]
                => tx[t].call.user = IF tasks[x].status = "free" THEN tasks'[x].owner
                                     ELSE tasks[x].owner
       /\ \A t \in Tx, k \in Key :
             tx[t] # tx'[t] /\ requests'[k] # requests[k]
                => tx[t].call.user = requests'[k].user
       /\ \A x \in TaskId :
             /\ tasks[x].status = "completed" => tasks'[x].status \in {"completed", "deleted"}
             /\ tasks[x].status = "deleted" => tasks'[x] = tasks[x]]_vars

\* Every call that is not interrupted comes to an answer: no two sessions wait
\* for each other's keys, requests or rows for ever.
EveryCallEnds == \A t \in Tx : tx[t].pc # "idle" ~> tx[t].pc = "idle"

\* Whom a session waits for: who holds the key, the request or the row that its
\* next statement needs.
WaitsFor(t, u) ==
    \/ tx[t].pc = "insert" /\ Inserted(tx[u]) /\ tx[u].call.key = tx[t].call.key
    \/ /\ tx[t].pc = "transition" /\ tx[u].verdict # "none"
       /\ tx[u].call.key = tx[t].call.key
    \/ tx[t].pc = "write" /\ tx[u].row = tx[t].task

\* Waits never close a circle, of any number of sessions: keys and requests are
\* taken before rows, and whom a waiting session waits for has only its COMMIT
\* left as soon as somebody waits for that session too.
NoDeadlock == \A t, u, v \in Tx : WaitsFor(t, u) /\ WaitsFor(u, v) => tx[v].pc = "commit"

\* How many statements a call has left at most.
StatementsLeft(pc) ==
    CASE pc = "idle" -> 0
      [] pc \in {"commit", "replay"} -> 1
      [] pc \in {"write", "create"} -> 2
      [] pc \in {"reselect", "delete"} -> 3
      [] pc \in {"select", "transition"} -> 4
      [] pc \in {"search", "execution"} -> 5
      [] pc \in {"insert", "request"} -> 6
      [] pc = "lookup" -> 7

\* No call goes round in circles, whatever the others commit in between: each
\* statement brings it nearer to its end.  With NoDeadlock this is what makes
\* EveryCallEnds true for any number of sessions.
EveryStatementAdvances ==
    [][\A t \in Tx : tx'[t] # tx[t] /\ tx[t].pc # "idle"
          => StatementsLeft(tx'[t].pc) < StatementsLeft(tx[t].pc)]_vars

\* The deletion promises, over the committed rows.
Protocol == INSTANCE DeletionProtocol WITH
    Request <- Key, NoTask <- None,
    present <- {x \in TaskId : Live(x)},
    gone <- {x \in TaskId : tasks[x].status = "deleted"},
    status <- [k \in Key |-> requests[k].status],
    target <- [k \in Key |-> requests[k].task]
ImplementsProtocol == Protocol!Spec

-----------------------------------------------------------------------------
(* The inductive invariant: what a session knows at each statement, and what
   its uncommitted writes keep the others from doing *)

\* Two sessions never hold the same row, key or request: the interleavings
\* are those PostgreSQL's locks allow.
LocksExclude ==
    \A t, u \in Tx : t # u =>
        /\ tx[t].row # None => tx[t].row # tx[u].row
        /\ Inserted(tx[t]) /\ Inserted(tx[u]) => tx[t].call.key # tx[u].call.key
        /\ tx[t].verdict # "none" /\ tx[u].verdict # "none"
              => tx[t].call.key # tx[u].call.key

\* A known request is about a task that was created, and belongs to an execution.
RequestsOK ==
    \A k \in Key :
        /\ executions[k].status = "none" => requests[k].status = "none"
        /\ requests[k].status # "none" => /\ requests[k].task \in TaskId
                                          /\ tasks[requests[k].task].status # "free"

\* Which statements a session of each operation can be at, on which task.
PlaceOK(s) ==
    /\ s.pc = "create" => s.call.op = "create"
    /\ s.pc \in {"search", "select"} => s.call.op \in {"update", "complete", "delete"}
    /\ s.pc = "reselect" => s.call.op = "update"
    /\ s.pc \in {"lookup", "replay", "insert"} => s.call.op # "resolve"
    /\ s.pc \in {"request", "execution", "transition", "delete"} => s.call.op = "resolve"
    /\ s.pc = "write" => s.call.op \in {"update", "complete", "resolve"}
    /\ s.pc \in {"select", "reselect", "write", "delete"} => s.task \in TaskId

\* A session past its INSERT owns an unused key.
KeyOK(s) == Inserted(s) => executions[s.call.key].status = "none"

\* A session that resolves a request has read its task; once its UPDATE won,
\* the request stays pending until it commits, and was decided in time.
VerdictOK(s) ==
    LET r == requests[s.call.key] IN
    /\ s.verdict # "none" <=> s.call.op = "resolve" /\ s.pc \in {"delete", "write", "commit"}
    /\ s.verdict # "none" => r.status = "pending"
    /\ s.call.op = "resolve" /\ s.pc # "request"
          => r.status # "none" /\ s.task = r.task /\ s.call.user = r.user
    /\ s.verdict \in {"confirmed", "cancelled"} => s.now < r.expires
    /\ s.verdict = "expired" => s.now >= r.expires
    /\ s.verdict # "none" /\ s.pc # "commit" => s.verdict = "confirmed"

\* A written row is the one the execution names, and is still what the session
\* found: free for a creation, live for the others.
RowOK(s) ==
    s.row # None =>
        /\ s.pc = "commit" /\ s.row = s.task /\ s.row \in TaskId
        /\ s.outcome.status = "executed"
        /\ IF s.call.op = "create" THEN tasks[s.row].status = "free" ELSE Live(s.row)

\* What a session is about to record in its execution.
DecisionOutcome(s) ==
    \/ /\ s.verdict = "confirmed"
       /\ s.outcome = Outcome("executed", "task_deleted", "none", s.task)
       /\ s.row = s.task \/ tasks[s.task].status = "deleted"
    \/ /\ s.verdict = "confirmed" /\ s.row = None
       /\ s.outcome = Outcome("failed", "task_delete_failed", "TASK_NOT_FOUND", s.task)
    \/ /\ s.verdict = "cancelled" /\ s.row = None
       /\ s.outcome = Outcome("rejected", "task_delete_cancelled", "none", None)
    \/ /\ s.verdict = "expired" /\ s.row = None
       /\ s.outcome = Outcome("failed", "task_delete_failed", "CONFIRMATION_EXPIRED", None)

WriteOutcome(s) ==
    s.outcome = Outcome("executed", CASE s.call.op = "update"   -> "task_updated"
                                      [] s.call.op = "complete" -> "task_completed"
                                      [] OTHER                  -> "task_deleted",
                        "none", s.task)

CommandOutcome(s) ==
    \/ /\ s.outcome.status \in {"failed", "awaiting_selection"} /\ s.row = None
       /\ s.outcome.effect \in {"not_found", "ambiguous", "delete_ambiguous", "failed",
                               "task_delete_failed"}
       /\ s.outcome.error \in {"none", "TASK_REFERENCE_NOT_FOUND", "TASK_NOT_FOUND"}
    \/ /\ s.call.op = "create" /\ s.row = s.task /\ s.task \in TaskId
       /\ s.outcome = Outcome("executed", "task_created", "none", s.task)
    \/ /\ s.call.op = "update" /\ s.task \in TaskId /\ tasks[s.task].status # "free"
       /\ \E e \in {"task_updated", "task_unchanged"} :
            s.outcome = Outcome("executed", e, "none", s.task)
    \/ /\ s.call.op = "complete" /\ s.row = s.task /\ s.task \in TaskId
       /\ s.outcome = Outcome("executed", "task_completed", "none", s.task)
    \/ /\ s.call.op = "delete" /\ s.row = None
       /\ s.task \in TaskId /\ tasks[s.task].status # "free"
       /\ s.outcome = Outcome("awaiting_confirmation", "task_delete_pending", "none", s.task)

OutcomeOK(s) ==
    /\ s.pc = "write" => WriteOutcome(s)
    /\ s.pc = "commit" => IF s.call.op = "resolve" THEN DecisionOutcome(s)
                          ELSE CommandOutcome(s)

SessionOK(s) == /\ PlaceOK(s) /\ KeyOK(s) /\ VerdictOK(s) /\ RowOK(s) /\ OutcomeOK(s)

\* A session between calls holds nothing.
IdleOK(s) == s.row = None /\ s.verdict = "none"

Inv ==
    /\ TypeOK
    /\ LocksExclude
    /\ RequestsOK
    /\ RequestAndExecutionAgree
    /\ DecidedInTime
    /\ EffectsAreTrue
    /\ EveryDeletionWasConfirmed
    /\ \A t \in Tx : IF tx[t].pc = "idle" THEN IdleOK(tx[t]) ELSE SessionOK(tx[t])

-----------------------------------------------------------------------------
(* What the user is told: ResponseAgent's sentences, by what they claim *)

ToldOfFailure(op, error) ==
    LET deletion == op \in {"delete", "resolve"} IN
    CASE deletion /\ error = "CONFIRMATION_EXPIRED"          -> "expired"
      [] deletion /\ error = "CONFIRMATION_NOT_FOUND"        -> "unavailable"
      [] deletion /\ error = "CONFIRMATION_ALREADY_RESOLVED" -> "resolved"
      [] op # "create" /\ error \in {"TASK_NOT_FOUND", "TASK_REFERENCE_NOT_FOUND"} -> "not found"
      [] OTHER -> "failed"

\* The tense depends on the status, the verb on the command, and a deletion
\* whose effect names no task is still told as done.
ToldOfSuccess(op, effect, again) ==
    CASE op = "update" /\ effect = "task_unchanged" -> "unchanged"
      [] op = "update" /\ effect = "task_updated" -> IF again THEN "already updated" ELSE "updated"
      [] op = "update" /\ effect \notin {"task_unchanged", "task_updated"} -> "not confirmed"
      [] op \in {"delete", "resolve"} ->
            IF again /\ effect \in TaskEffect THEN "already deleted" ELSE "deleted"
      [] op = "create" /\ effect \in TaskEffect -> IF again THEN "already created" ELSE "created"
      [] op = "complete" /\ effect \in TaskEffect ->
            IF again THEN "already completed" ELSE "completed"
      [] OTHER -> "done"

Told(r) ==
    CASE r.status \in {"none", "raised"}      -> "nothing"
      [] r.status = "awaiting_selection"      -> "which one"
      [] r.status = "awaiting_confirmation"   -> "confirm?"
      [] r.status = "rejected" -> IF /\ r.call.op \in {"delete", "resolve"}
                                    /\ r.error = "CONFIRMATION_CANCELLED"
                                 THEN "cancelled" ELSE "refused"
      [] r.status = "failed"   -> ToldOfFailure(r.call.op, r.error)
      [] r.status = "executed"  -> ToldOfSuccess(r.call.op, r.effect, FALSE)
      [] r.status = "duplicate" -> ToldOfSuccess(r.call.op, r.effect, TRUE)

\* What the answer r of a decision claims, of its request q and execution e.
AnswerTrue(r, q, e) ==
    /\ Told(r) = "already deleted" \/ (Told(r) = "deleted" /\ r.status = "executed")
          => q.status = "consumed" /\ e = Outcome("executed", "task_deleted", "none", q.task)
    /\ Told(r) = "deleted" => q.status = "consumed"
    /\ Told(r) = "cancelled" => q.status = "cancelled" /\ e.effect = "task_delete_cancelled"
    /\ Told(r) = "not found" => q.status = "consumed" /\ e.effect = "task_delete_failed"
    /\ Told(r) \in {"expired", "resolved"} => q.status \notin {"none", "pending"}

\* What a user who decided on a request is told stays true, whatever other
\* sessions did to that request meanwhile and do to it later: a deletion told
\* again, or told of the user's own confirmation, is one; a cancelled request
\* deleted nothing; a task that was not found was not deleted under this
\* request; and no decision is told to be too late that could still be made.
AnswersAreTrue ==
    \A t \in Tx :
        LET r == reply[t]
            k == r.call.key IN
        r.call.op = "resolve" =>
            /\ AnswerTrue(r, requests[k], executions[k])
            /\ Told(r) = "already deleted" => tasks[requests[k].task].status = "deleted"

\* The effects that an executed command of an operation records.
EffectsOf(op) ==
    CASE op = "create"   -> {"task_created"}
      [] op = "update"   -> {"task_updated", "task_unchanged"}
      [] op = "complete" -> {"task_completed"}
      [] op = "delete"   -> {"task_deleted"}
      [] OTHER           -> {}

\* What the answer r of a command claims, of the execution e and the request q
\* of its key.  Who is told that something is done, or was already, has an
\* executed execution of the task that is named; when the command executed it, or
\* repeats one of its own kind, the effect is the one that is told.  What failed,
\* was refused or was ambiguous has not acted; a task is told as not found only by
\* an execution that failed for that; who is asked to confirm has a request about
\* the task that is named.
CommandAnswerTrue(r, q, e) ==
    /\ r.status \in {"executed", "duplicate"} =>
          /\ e.status = "executed" /\ e.task = r.task
          /\ r.status = "executed" \/ e.effect \in EffectsOf(r.call.op) => e.effect = r.effect
    /\ r.status \in {"failed", "rejected", "awaiting_selection"}
          => e.status \in {"failed", "rejected", "awaiting_selection"}
    /\ Told(r) = "not found" =>
          /\ e.status = "failed"
          /\ e.error \in {"none", "TASK_NOT_FOUND", "TASK_REFERENCE_NOT_FOUND"}
    /\ r.status = "awaiting_confirmation" => q.status # "none" /\ q.task = r.task

\* What is told of the row itself: it was created, is completed or gone since, or
\* is deleted.
DoneTo(op, row) ==
    /\ row.status # "free"
    /\ op = "complete" => row.status \in {"completed", "deleted"}
    /\ op = "delete" => row.status = "deleted"

\* What a user is told of a command stays true, also when the answer is that of a
\* repeated key, and whatever is done under other keys: a command told as failed
\* never acts later; one told as done was done to the task that is named, is not
\* undone, and is not taken over by a second use of its key; and no deletion is
\* executed by the command that asks for it.
\*
\* Two answers of a repeated key claim less, and the code means no more by them.  A
\* key of another kind of command (a deletion under the key of an executed update
\* is told "already deleted") is held to an execution of the named task only: the
\* stored command type is not compared with the command's.  And the original
\* answer, which docs/ARCHITECTURE.md:278 promises, is not always given again: a
\* creation, update or completion whose task is gone raises, and a search that
\* found nothing is repeated with another error code, though in the same words.
CommandAnswersAreTrue ==
    \A t \in Tx :
        LET r == reply[t]
            k == r.call.key IN
        r.call.op \in Op \ {"resolve"} =>
            /\ CommandAnswerTrue(r, requests[k], executions[k])
            /\ /\ r.status \in {"executed", "duplicate"}
               /\ executions[k].effect \in EffectsOf(r.call.op)
               => DoneTo(r.call.op, tasks[r.task])
            /\ r.call.op = "delete" => r.status # "executed"

\* A request that waits is about the task that its execution names.
PendingOK ==
    \A k \in Key : requests[k].status = "pending" =>
        executions[k] = Outcome("awaiting_confirmation", "task_delete_pending", "none",
                                requests[k].task)

\* A key that a session is about to replay has been executed.
ReplayOK == \A t \in Tx : tx[t].pc = "replay" => executions[tx[t].call.key].status = "executed"

CommandsInv == ReplayOK /\ PendingOK /\ CommandAnswersAreTrue

\* How a request ended is what its execution says, of the same task.
EndingsOK ==
    \A k \in Key :
        LET q == requests[k]
            e == executions[k] IN
        /\ q.status = "consumed" =>
              e \in {Outcome("executed", "task_deleted", "none", q.task),
                     Outcome("failed", "task_delete_failed", "TASK_NOT_FOUND", q.task)}
        /\ q.status = "cancelled" =>
              e = Outcome("rejected", "task_delete_cancelled", "none", None)
        /\ q.status \in {"pending", "expired"} => e.status # "executed"

\* A resolved request that a session has read is still what it has read.
SeenOK ==
    \A t \in Tx : tx[t].pc = "execution" =>
        tx[t].seen \in {"pending", requests[tx[t].call.key].status}

AnswersInv == EndingsOK /\ SeenOK /\ AnswersAreTrue

-----------------------------------------------------------------------------
(* What the documentation says and the code does not do *)

\* A failed deletion is not reported as a success: whoever is told that the
\* task is deleted, or was already, asked about an executed deletion.
OnlyDeletionsAreClaimed ==
    \A t \in Tx : Told(reply[t]) \in {"deleted", "already deleted"}
                    => executions[reply[t].call.key].status = "executed"

\* The target of a deletion is still in the state it was confirmed for.
OnlyActiveTasksAreDeleted ==
    [][\A x \in TaskId : tasks'[x].status = "deleted" /\ tasks[x].status # "deleted"
            => tasks[x].status = "active"]_vars
=============================================================================
