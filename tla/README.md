# SARA 2.0 in TLA+

SARA is a personal assistant for tasks: messages come from Telegram or a terminal, a
LangGraph turn lets an LLM agent propose one structured command, a deterministic Harness
executes it, and PostgreSQL keeps tasks, command executions, confirmations, conversation
checkpoints and outgoing messages. Nothing is locked in memory: all coordination between
concurrent requests is done by rows, unique keys and conditional updates. This directory
models that coordination, checks it with TLC and proves the core of it with TLAPS.

## Inventory

| Component (src/app/...) | State | Operations | Interacts with |
|---|---|---|---|
| TaskService (services/tasks.py) with the task, execution and confirmation repositories | tables tasks, command_executions, confirmation_requests | create, update, complete, request deletion (by query or id), resolve a confirmation; list and search only read | called by the Harness handlers; one transaction per call, PostgreSQL at READ COMMITTED |
| Harness (harness/) | none | handle, resolve_confirmation, handlers, policy that a deletion never comes back executed | called by graph nodes, calls TaskService |
| Graph runner (graph/checkpoint.py, repositories/graph_checkpoint_repository.py) | table graph_checkpoints: continuation and version per thread | get_continuation, ainvoke: read, run, save with the version that was read | called by webhook and CLI |
| Graph nodes (graph/nodes.py, builder.py, agents/supervisor.py) | continuation: active flow, pending confirmation, pending candidates, pending update/deletion | one turn: route, agent, execute, store candidates, resolve choice, resolve confirmation, render | Harness, agents |
| Telegram ingress (integrations/telegram/ingress.py, updates.py) | table processed_updates | parse, authorise, record once | Telegram calls the webhook at least once per update |
| Telegram delivery (integrations/telegram/delivery.py, gateway.py) | table telegram_deliveries | deliver, retry, attempt | webhook; Telegram's sendMessage |
| Webhook (api/routers/telegram.py) | none | one request: parse, acknowledge the button, ingest, turn, deliver | all of the above |
| CLI (cli.py) | thread id | process a line: read the continuation, decide message or confirmation, run a turn | Graph runner |
| Agents (agents/task.py, agents/response.py) | none | ask the LLM for a decision; render a result | LLM adapter |
| Planning, reminders, review, scheduler, observability | none yet | stubs | - |

What is hard in this code:

* **Transactions interleave.** At READ COMMITTED each statement sees the rows committed
  before it. A call reads a row without a lock, decides, and writes later. The service is
  kept correct by three things only: the unique key of an execution, the conditional
  `UPDATE ... WHERE status = 'pending'` of a request, and the locks that uncommitted writes hold.
* **Calls are repeated.** Telegram redelivers, users press a button twice, and a replayed
  key must act once and give the same answer.
* **Steps fail in between.** A request of the webhook is five transactions and two calls of
  Telegram. A crash between two of them leaves what was committed.
* **Turns overlap.** Two updates of one user run two turns on one thread; a turn commits its
  command before it tries to save the continuation.
* **Questions outlive turns.** What a thread waits for is read by one turn and answered in
  another, by typed text or by a button that may be old; a turn whose continuation is lost
  has left a request in the database that nobody was asked about.
* **Clocks.** A request expires at an instant; the check reads the clock before the write.

What makes each component correct:

* *TaskService*: nothing is deleted without a valid confirmation; a request is resolved
  once, by its user, in time; a request and its execution tell one story; a key has at
  most one effect; what an execution reports has happened; other users' rows are untouched;
  no circle of waiting sessions; every call ends.
* *Graph runner*: overlapping turns act as turns taken one after the other; a thread keeps
  its user; a turn sees only its own user's continuation.
* *Responses*: what a user is told of a decision or of a command, a repeated one too, is
  true, and no later call makes it false.
* *Telegram webhook*: an update runs at most one turn; a response is sent only after it was
  stored; a stored response is delivered in the end, and before Telegram stops posting; a
  delivered response stays delivered; an update is lost only by a
  fault, an exception of its own turn or an overlapping turn.
* *Graph nodes*: a thread asks one question at a time, which no other question replaces; a
  request is put to the user once, and only then can be decided, by an answer that names
  it; an announced request keeps its button; every question that can be answered can be left.

## Modules

| Module | What it is | Code |
|---|---|---|
| `TaskService` | the transactions of the task service, interleaved statement by statement | `services/tasks.py`, the task, execution and confirmation repositories |
| `DeletionProtocol` | what the service promises of deletions, without transactions | refined by `TaskService`, used by `Conversation` |
| `GraphCheckpoint` | overlapping turns over the checkpoint table | `graph/checkpoint.py`, `graph_checkpoint_repository.py` |
| `SerialTurns` | turns taken one after the other | refined by `GraphCheckpoint` |
| `TelegramWebhook` | overlapping webhook requests: ingress, turn, delivery | `api/routers/telegram.py`, `ingress.py`, `delivery.py`, `gateway.py` |
| `TelegramOutbox` | the stages of an update, without requests | refined by `TelegramWebhook` |
| `Conversation` | overlapping turns of a user's threads: the Graph's nodes and routing, the terminal, messages and buttons | `graph/nodes.py`, `builder.py`, `state.py`, `cli.py`, `agents/supervisor.py`, `updates.py`, `messages.py` |
| `Dialogue` | the questions put to a user, without turns | refined by `Conversation` |
| `MC...` | the instances TLC checks: sets of calls, seeds, continuations, chats | - |
| `TaskServiceProofs`, `TaskAnswersProofs`, `TaskCommandProofs`, `TaskProgressProofs`, `GraphCheckpointProofs`, `TelegramWebhookProofs`, `ConversationProofs` | the theorems and their TLAPS proofs | - |

The modules are composed by abstraction. A turn of `GraphCheckpoint` is any pair of the
constant relation `Turn`. The turn inside `TelegramWebhook` is the read, run and save of
`GraphCheckpoint` reduced to the version, and its command is one that `TaskService`
answers once per key. The calls of `TaskService` are all a Harness handler can make.
`Conversation` takes its deletion requests from `DeletionProtocol` (INSTANCE), which
`TaskService` is proved to implement, and its save from what `GraphCheckpoint` is proved to
guarantee: it is accepted exactly when no turn of the thread was saved since the load.

### TaskService

A session `tx[t]` runs one call as one transaction. Its `pc` names the next SQL statement:

| Steps | Code in `services/tasks.py` |
|---|---|
| `Lookup`, `Replay`, `DuplicateDeletion`, `DuplicateCommand` | `get_by_idempotency_key` and the `_duplicate_*` helpers |
| `CreateReceived` | `create_received`, the INSERT with the unique key |
| `CreateTask`, `Search`, `SelectTo...`, `ReselectToUpdate` | the command bodies, by query and by id |
| `WriteTask` | the flush of an UPDATE or DELETE by primary key, which waits for the row's lock |
| `ReadRequest`, `ReadExecution`, `TransitionPending`, `SelectConfirmed` | `resolve_task_deletion_confirmation` |
| `CommitCommand`, `CommitDecision` | the end of `session.begin()` |
| `Rollback` | any exception, lost connection or crash before the commit |

Committed rows are `tasks`, `executions` and `requests`. What a transaction wrote and did
not commit stays in its record, which is also what holds its locks: `row` locks a task,
`verdict` a request, a `pc` past the INSERT a key. `clock` moves at any time.

The abstractions: the text match of `search_for_user` is equality with the title, and no
query matches all titles; a request has the key of the execution that creates it, because
one execution creates at most one; a row has the columns the properties tell apart;
`ensure_exists` is not a step, and the failure of its race is a `Rollback`. `CreateTask`
takes a free id. When the bound `TaskId` is used up, a creation can only roll back.

`Told` is `DeterministicResponseAgent.respond`: which of its sentences an answer becomes,
in the order of its conditions. Titles, lists and changed fields are left out, so a sentence
is known by what it claims. `AnswersAreTrue` relates the sentence a user has got on a decision
to the rows, as long as the session has no new call; `CommandAnswersAreTrue` does so for the
answers of the commands, the replayed ones too. What is told as done is an executed execution
with the effect that is told (`CommandAnswerTrue`), of the task the answer names, and the row of
that task is in the state that is told (`DoneTo`). Two answers to a repeated key claim less:
the one to a key of another kind of command, and the one that replaces an original answer the
code does not give again; both are described under Findings.

`WaitsFor` says which session holds the lock that another one's next statement needs, and
`StatementsLeft` how many statements a call has left at most.

### GraphCheckpoint

A turn reads its checkpoint in one transaction (`GetCheckpoint`), runs the Graph with no
transaction open (`RunGraph`), and saves in a second one: `SelectForUpdate` with its four
outcomes, then `InsertCheckpoint` in a savepoint or an update, then `CommitSave`. The
INSERT fails on the primary key when another turn was first, and on the foreign key when
the user has no row. The code takes either for a conflict, and so does the model.
`Abandon` is an exception or a crash anywhere. `MaxVersion` bounds where turns may begin.

### TelegramWebhook

A request is five transactions and up to two calls of Telegram in sequence; each is one
action, and `Crash` may come between any two. `SendMessage` may succeed, fail unseen, or
fail after the message was shown. Telegram posts an update until it has had a 2xx. The
updates in `Overlapped` may also be posted while an earlier post is being handled.
`MaxFaults` bounds crashes and external failures (`Fault`). The turn may also raise with
nothing failing around it (`Raise`): a command whose row another session has removed, a
replayed command whose task is gone (`services/tasks.py:998`), a continuation that the schema
of the stored one refuses (`graph_checkpoint_repository.py:80-92`, the finding of
`ConversationUpdate`), or a result of which no message can be built. The constant `Erring` is
the set of updates whose turn may do so, at any of these places and any number of times. The
403, 400 and 503 answers before the first effect change nothing and are left out.

Two history variables, which no action reads, say what became of a turn: `interrupted` holds the
updates whose own turn a fault ended, and `overtaken` those during whose turn, between its
reading of the thread and its save, another turn of their user was saved. `LossHasCause` says
that an update that was recorded, has no response and is in no turn is in one of these two
sets, or in `Erring`.

`TelegramOutbox` is the same promise without requests: an update goes from new to recorded,
executed, stored and delivered, each once and in this order; it is shown only when stored
and acknowledged only when recorded. `Stage` reads the stage of an update off the three
tables. The outbox has no fairness, and no step back: what was recorded and lost stays
recorded, which is the finding of `WebhookLostUpdate`.

### Conversation

A turn goes through four states, and any two turns of a thread may interleave between them:

| Step | Code |
|---|---|
| `Line`, `Post`, `Press` | a line at the terminal (`cli.py`, which reads the continuation first and takes a typed decision for an answer only when one is pending), a message to the chat, a button (`updates.py`, `ingress.py`) |
| `LoadCheckpoint` | `get_for_thread` in `PersistentGraphRunner.ainvoke` |
| `RunGraph` | one path of `build_graph`, chosen by `Route`: `ResolveConfirmation`, `PendingConfirmationPrompt`, `AskAgain`, `UpdateChosen`, `DeleteChosen`, `CompleteChosen`, `UnsupportedFlow`, and what the TaskAgent may decide: `AgentReplies`, `AgentCreates`, `AgentCompletes`, `AgentDeletes`, `AgentIsAmbiguous` |
| `SaveCheckpoint`, `RefuseCheckpoint` | `save`, accepted or raising |
| `Reply` | `build_outgoing_message` and its keyboard, or a line printed |
| `Abandon` | a crash, or an exception of the language model or the database, at any point |

A path of the Graph is one action because its only effect outside the turn is one Harness
command, which is one transaction. The abstractions:

* The version of a checkpoint is the flag `fresh`: another save on the thread clears it
  (`Overtaken`). That a save is accepted exactly then is what `BasisOK` of
  `GraphCheckpoint` says.
* The user has a row: `SaveCheckpoint` leaves out the refusal of a first turn whose user has
  none, which is `CheckpointFirstTurn` of `GraphCheckpoint`.
* A text is a record of all the Graph can tell of it: what `normalize_confirmation` makes
  of it, the flow `select_flow` chooses, its ordinal or number, and the titles in it. The
  agent's reading of a text is unconstrained.
* A pending update is its three fields, each left out, new or null, because storing the
  continuation turns "left out" into "null" (`Reloaded`).
* The clock of a request is `Expire` of the protocol, at any time it is resolved.
* A confirmed deletion is one step, at the time the resolver reads the task. A completion
  that commits between this and the DELETE (`TaskStaleTarget`) is taken as coming after it: the
  task is gone and the request consumed either way.
* `announced` and `buttons` are what the user's side has: the requests whose question was
  saved, and the keyboards the chat shows, which are never taken away.
* `AgentReplies` also stands for a list, for a command the Harness refuses, and for an update,
  whose effect on the fields of a task is in `TaskService`.
* `CutOff` is the bound on `Request`: when none is left, a chosen deletion ends the turn.

## Runs

Every property of a passing run is also tried against a changed model, in which one
definition has a plausible bug (a dropped `WHERE`, a missing lock, a forgotten write), and
is violated there. `TypeOK` is a property of `TaskDeletion`, and part of the `Inv` the other
runs check. The bodies of these changes are the definitions commented "mutant".

| Run | Instance | Shows |
|---|---|---|
| `TaskDeletion` | 2 sessions, 2 users, 1 task, 3 keys, clock 0..1; 538,510 states | two requests to delete one task, a completion racing them, every decision on a request before and at its expiry, and a stranger's: `Inv`, `EveryDeletionWasConfirmed`, `RequestAndExecutionAgree`, `DecidedInTime`, `AnswersAreTrue`, `ResolvedIsFinal`, `OwnDataOnly`, the refinement `ImplementsProtocol` |
| `TaskCommands` | 2 sessions, 2 users, 3 tasks, 4 keys; 235,060 states | every command by query and by id, keys shared by commands of different types: `Inv`, `EffectsAreTrue`, `OneEffectPerExecution`, `OwnDataOnly`; what a user is told of a command, also of a repeated one of its kind, stays true of the execution and of the task that is named (`CommandAnswersAreTrue`); no circle of waits (`NoDeadlock`), each statement brings a call nearer to its end (`EveryStatementAdvances`), and with fairness `EveryCallEnds` |
| `CheckpointTurns` | 3 turns, 2 users, 1 thread, version below 2 at the start of a turn; 86,104 states | no turn is lost or mixed (`ImplementsSerialTurns`), the thread keeps its user, nobody sees another user's continuation, a linked user's conflicts are real, every turn ends |
| `WebhookRequests` | 2 requests, 3 updates, one of which may raise, 2 faults; 314,556 states | a command at most once, sent only after it is stored, the delivery row is true and final, the stages of an update in order (`ImplementsOutbox`), every update is acknowledged, a stored response is delivered, and not left to be sent when the 2xx ends the posts (`AcknowledgedIsDelivered`); nothing is lost but by a fault in its own turn, an exception of its own, or another turn of its user that was saved while it ran (`LossHasCause`) |
| `ConversationTurns` | 1 chat, 2 overlapping turns, 2 tasks, 2 requests, 1 fault; 1,389,655 states up to symmetry | `Inv`, `OnlyAnnouncedRequestsAreDecided` (and nothing is deleted otherwise), `AnnouncedRequestsKeepTheirButtons`, each request decided by an answer that names it (`DecidedByItsOwnThread`), the refinement `ImplementsDialogue` |
| `ConversationAnswers` | a terminal and a chat, 1 turn at a time, 1 fault; 54,917 states | with fairness, every confirmation that can be answered and every choice is left |
| `TaskStaleTarget`, `TaskClaimedDeletion`, `CheckpointFirstTurn`, `WebhookLostUpdate`, `ConversationUpdate`, `ConversationUnsupported` | the smallest instance that shows it | a disagreement of the code with its documentation; see Findings |

Why the bounds are enough to be of use: every conflict in this code is about one row, one
key, one request, one thread or one update, so one of each is where sessions meet, and a
second one is there when an effect could go astray (`OwnDataOnly`, two requests for one
task, two questions in one chat). Two sessions give every order of two transactions; the
third in `CheckpointTurns` adds an observer between two others. The clock runs from before
the expiry to the instant itself. A continuation in `CheckpointTurns` is the set of messages
seen, so a lost turn shows. In `ConversationTurns` the texts are a decision, a word for
another flow and an ordinal: enough to take each route; turns and requests are
interchangeable (no liveness is checked there), so it runs with symmetry.
`ConversationAnswers` adds a number that is no position, a text with two titles, and an
update that cannot be stored. Two threads at once, and overlapping turns at a terminal, are
covered by the proofs. The safety properties are proved for every value of these bounds; the
runs are there to find mistakes early and to show that the interesting cases are reached.

`CHECK_DEADLOCK FALSE` is set where the environment may fall silent: users with nothing
more to say, Telegram after its last 2xx. The runs of `TaskService` and `Conversation` check
deadlock.

## Fairness

* `TaskService` and `GraphCheckpoint`: strong fairness of a session's `Step`. A session is
  blocked only by a lock (a key, a row, a request, a thread). PostgreSQL serves the waiters
  of a lock in order, so one whose statement is possible again and again is served.
  Nothing makes a client begin a call, and nothing makes the clock move. For `TaskService`
  the safety half of `EveryCallEnds` is a theorem for any number of sessions: nobody waits
  in a circle and no call goes round in circles (see Proofs), so all that is left to
  fairness is that whoever waits is served.
* `TelegramWebhook`: weak fairness of a request's `Step`, since a request that is not
  interrupted goes on (its calls have timeouts), and strong fairness of `Receive` for each
  update, since Telegram posts an update again until it has had a 2xx. Crashes are never
  fair and are bounded by `MaxFaults`: liveness is claimed once the faults end.
* `Conversation`: strong fairness of a turn's `Step`, which waits for nothing but a row lock,
  and, of the user, that who is asked answers in the end (`UserAnswers`: the typed decision at
  a terminal, the button in a chat, a text that selects a candidate). The properties are of a
  user who waits for each reply (`Alone`) and, for a confirmation, has a way to answer
  (`Answerable`). `TypingSpec`, for the violated `UnsupportedFlowIsLeft`, has the user type
  every text again and again.

## Proofs

All theorems hold for every value of the constants under the named assumptions of each
module (calls are well typed, seeds hold active or free rows, `None` is none of the users,
tasks and titles, a positive TTL; `Turn` is a relation on `State`). They need no fairness
and no bound on the number of sessions, turns, requests or updates, and every statement
is proved down to its leaves.

**TaskServiceProofs.** `Invariance` proves `Inv`, from which the invariants and action
properties of the service follow: `TypeCorrect`, `DeletionsConfirmed`, `Agreement`,
`Timeliness`, `Truthfulness`, `Finality`, `ExactlyOnce`, `Ownership`, and `Refinement` of
`DeletionProtocol`. None of them is inductive by itself. What is missing is what a session
may rely on at its next statement, so `Inv` adds:

* `LocksExclude`: no two sessions hold one row, key or request;
* `KeyOK`: past its INSERT, the session's key has no committed execution;
* `VerdictOK`: once its conditional UPDATE won, the request is still pending, its owner is
  the caller, and the clock value it read is on the right side of the expiry;
* `RowOK` and `OutcomeOK`: the row it holds is still what it found, and the execution it is
  about to commit says what its writes do.

The proof that a step keeps `Inv` has two kinds of lemmas. Steps before the commit touch
only one session (`SessionStep`, `PrivateStep`, `AnswerStep`). The two commits change tables, and need what the others
rely on to survive: `OthersRely` follows from `LocksExclude`, because a session that relies
on a row, key or request holds it. `Ownership` needs one more inductive invariant, `Owners`
(the task a session is about to write, and the row it has written, are of its own user). `Refinement` maps each commit to one
step of the protocol and every other step to a stutter.

**TaskAnswersProofs.** `TrueAnswers` proves `AnswersAreTrue`. It needs, beside `Inv`, that a
resolved request is still what a session has read of it (`SeenOK`), and that the execution of
a resolved request says how it ended, of the same task (`EndingsOK`). A true answer stays
true because all it claims is of a resolved request (`AnswerStays`, `ClosedStays`); a new
answer comes from one of five statements (`OnlyAnswers`), each with a lemma.

**TaskCommandProofs.** `TrueCommandAnswers` proves `CommandAnswersAreTrue`. Its invariant
`CommandsInv` adds that a key about to be replayed has been executed (`ReplayOK`), which is
needed because the replay is a statement after the lookup, and that a request that waits is of
the task its execution names (`PendingOK`), which a repeated question rests on. A true answer
stays true because a finished execution never changes (`FinishedStays`: a commit changes the
execution of its own key only, and that one was unfinished) and a request that was made stays
made, of the same task (`RequestStays`). What is told of the task's row follows from
`EffectsAreTrue`, since the execution and the answer name one task and one effect.

**TaskProgressProofs.** `DeadlockFreedom` proves `NoDeadlock`: a session that waits and is
waited for holds its key or its request and waits for a row (`WaitersWrite`), and who holds a
row has only its COMMIT left (`HoldersCommit`). So a chain of waits has at most two links and
never closes. `Advance` proves `EveryStatementAdvances` with `StatementsLeft` as the measure:
a call takes at most seven statements, its COMMIT included, whatever the others commit.

**GraphCheckpointProofs.** `Inv` adds `SavesExclude` and `BasisOK`: while a checkpoint has
the version a turn has read, it has the state and the user the turn has read. That is what
makes the comparison of versions enough, and what the refinement of `SerialTurns` uses.
Proved: `Isolation`, `RealConflicts`, `Ownership`, `Refinement`.

**TelegramWebhookProofs.** `Inv` adds `OneTurn` (the request that recorded an update is the
only one in its turn) and, for each step of a request, what the rows of its update are by
then (`PostOK`). Proved: `AtMostOnce`, `StoredBeforeSent`, `TrueDeliveries`, `Finality`,
with overlapping posts and any number of faults.
Two more inductive invariants rest on it. `PostingInv` is about the posts of an update that do
not overlap: there is one at a time, none after the 2xx, and who is about to give the 2xx has
left nothing pending; `DeliveredOnceAcknowledged` follows. `LossInv` is about versions: what a
turn expects is never ahead of its thread, and behind it only when another turn of the thread
was saved during this one (`ExpectedOK`), and the history tells of recorded updates only
(`HistoryOK`); so a refused save, the one way to lose an update without a fault or an exception
of its own, has a cause (`LossesHaveCauses`).
`Refinement` maps the ingress transaction, the commit of the command, `CreatePending`,
`SendMessage`, `MarkDelivered` and the 2xx to the steps of `TelegramOutbox`, and the rest to
stutters; an acknowledged duplicate was recorded before, which `PostOK` says.

**ConversationProofs.** `Inv` strengthens the two invariants by what a thread and a turn may
rely on. `ThreadOK`: one question at a time, announced when it was saved, with its buttons,
in one thread only. `TurnOK`: the request an answer names was announced in its thread; what a
fresh turn has loaded is still the thread's; what it is about to save is one of the moves from
there (`Moves`); the request it has made is known, unannounced, and no other turn's. The
lemma about what the other turns rely on is proved once for all steps; a save clears the
`fresh` of the turns it overtakes, which is what keeps `Moves` true of the others. Proved:
`TypeCorrect`, `OnlyAnnounced`, `ButtonsStay`, `OwnDecisions` (only `ResolveConfirmation`
decides, and what it decides is what the event names, announced in its thread by `TurnOK`), and
`Refinement` of `Dialogue`, in which only saves are steps.

Only model-checked: liveness (`EveryCallEnds`, `EveryTurnEnds`,
`EveryUpdateIsAcknowledged`, `EveryStoredResponseIsDelivered`, `ConfirmationIsLeft`,
`ChoiceIsLeft`), which is out of reach of the prover, and the violated properties.

## Findings

| Run | Code | What happens |
|---|---|---|
| `TaskStaleTarget` | `task_repository.py:143` | a completion between the SELECT and the DELETE: a completed task is deleted |
| `TaskClaimedDeletion` | `services/tasks.py:322` | a confirmed deletion failed; the second press of its button says the task was deleted |
| `CheckpointFirstTurn` | `graph_checkpoint_repository.py:69` | a terminal user's first turn has no command, so no users row: the foreign key is reported as a conflict |
| `WebhookLostUpdate` | `api/routers/telegram.py:94` | a request dies between its command and its stored response: the result is never told |
| `ConversationUpdate` | `graph_checkpoint_repository.py:80` | an ambiguous update of some fields cannot be stored while the user chooses: the left-out fields become nulls, which the validator refuses, or a cleared description |
| `ConversationUnsupported` | `graph/nodes.py:51` | a thread that opens with planning, review or a reminder refuses every later message |

Seen in the models and not filed as findings:

* Two quick messages of one user overlap; the slower turn commits its command, conflicts on
  the save, ends in a 500, and its repetition is a handled duplicate. This is
  `WebhookLostUpdate` without any fault (the `overtaken` of `LossHasCause`). A single message
  is lost the same way when its own turn raises (`Erring`): an ambiguous update of the
  priority alone, whose continuation cannot be stored.
* A post that overlaps the first one is accepted as a duplicate. If the first then fails to
  send, nobody posts again and no worker resends: the delivery stays pending. This is why
  `EveryStoredResponseIsDelivered` leaves out `Overlapped`.
* Two retries may send one stored response twice and count one attempt less than were
  made; `DeliveryIsTrue` states what remains true.
* A repeated key does not always get its original result, although `docs/ARCHITECTURE.md:278`
  ("Comandos com idempotency key retornam o resultado original quando reapresentados"),
  `docs/HARNESS.md:219` and `:259` and `docs/TESTING.md:65` promise it. The replay of an executed
  creation, update or completion raises when its task was deleted since
  (`services/tasks.py:998`, and 1032 and 1078 alike), and an update or a completion that matched
  nothing answers `TASK_REFERENCE_NOT_FOUND` first and `TASK_NOT_FOUND` when it is repeated
  (`services/tasks.py:1011`, 1059), which the ResponseAgent says in the same words. Both are
  deviations of the service. Nobody meets them today, because no channel repeats such a command
  with its key: the webhook runs an update at most once, and a line at the terminal gets a new
  key. `CommandAnswersAreTrue` therefore says what the repeated answer claims is true, and does
  not say that it is the first one.
* The stored command type is not compared with the command that repeats its key
  (`services/tasks.py:573`): a deletion under the key of an executed update is told that the task
  is "already deleted". Nothing is done twice (`OneEffectPerExecution`), but the answer is false.
  `CommandAnswersAreTrue` leaves it out, as no channel gives two commands one key.
* The loser of a race for a request that reads the clock at the expiry is told that the
  request expired although the other session confirmed or cancelled it, because its own
  statement has changed its copy of the row (`services/tasks.py:356-394`).
  `AnswersAreTrue` claims of that sentence only that the request was resolved.
* In a chat, a pending confirmation asks for a typed "sim" or "não" (`nodes.py:123`), and
  `docs/HARNESS.md:173` describes it, but a typed answer is a message there and gets the same
  question again; only the button counts. A chat whose turn died between its checkpoint and its
  stored response has the question and no button.
* The button of an old request takes a newer confirmation off its thread (`nodes.py:114`). The
  newer one's buttons stay, which is what `AnnouncedRequestsKeepTheirButtons` is for.
* Only the first five candidates are named (`response.py:63`), and any can be chosen by
  its number. A number in a text counts as a position also when it belongs to a title.

## Not modelled

The parsing of malformed Telegram payloads, which changes nothing; the wording of the
responses beyond what they claim; the rewriting of relative dates by the TaskAgent, a pure
function of a payload for which the repository states no expectation; the text match and order
of the task search, which run in SQL. The LLM is an external choice of commands. The insert race of
`ensure_exists` ends in an exception, which is a `Rollback`. Planning, reminders, reviews,
the scheduler and observability are stubs without behaviour. Composition, configuration,
migrations and diagrams have no behaviour of their own. `list_tasks` and `search_tasks`
change no task.

## Plan

Done: `TaskService` with `DeletionProtocol` and the answers made of it, `GraphCheckpoint`
with `SerialTurns`, `TelegramWebhook` with `TelegramOutbox`, `Conversation` with `Dialogue`,
and the proofs of the safety properties of all of them.

1. One theorem of the composition: `Conversation` takes its requests from `DeletionProtocol`,
   which `TaskService` implements; a module that instantiates both (tlapm can cite theorems
   through a named instance) would state that a conversation over the committed rows of the
   service deletes only what was announced.
2. The safety half of `EveryTurnEnds` and of `EveryUpdateIsAcknowledged`, as for
   `EveryCallEnds`: who a turn waits for, and a measure of the steps a request has left.
3. Pure algorithms against a reference definition: the relative dates of the TaskAgent and the
   parsing of an update, if the repository comes to say what they should give.
4. Planning, reminders and the scheduler once they exist: their idempotency key is there.
