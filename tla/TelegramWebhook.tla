-------------------------- MODULE TelegramWebhook --------------------------
(***************************************************************************)
(* app/api/routers/telegram.py with the ingress and the delivery service.  *)
(* Telegram posts an update again and again until it gets a 2xx, possibly  *)
(* while an earlier post of it is still being handled.  A request is five  *)
(* transactions and two calls of Telegram's API, one after the other; it   *)
(* may die between any two of them, and other requests go on in between.   *)
(*                                                                         *)
(* A turn of the Graph is as GraphCheckpoint has it: it commits its        *)
(* command, and then saves the thread if nobody else did since it began.   *)
(***************************************************************************)
EXTENDS Naturals

CONSTANTS
    Update, User,
    Sender,       \* the user of each update; None when its chat is not linked
    Buttons,      \* the updates that are confirmation callbacks
    Request,      \* webhook requests that may run at the same time
    Overlapped,   \* the updates Telegram may post while they are still being handled
    Erring,       \* the updates whose turn may raise though nothing outside it fails
    MaxFaults,    \* bound on the crashes and the failures of Telegram and the LLM
    None

ASSUME SenderAssumption == Sender \in [Update -> User \cup {None}] /\ None \notin User
ASSUME ButtonsAssumption == Buttons \subseteq Update
ASSUME OverlappedAssumption == Overlapped \subseteq Update
ASSUME ErringAssumption == Erring \subseteq Update
ASSUME BoundsAssumption == MaxFaults \in Nat

PC == {"idle", "callback", "ingest", "duplicate", "turn", "graph", "save", "create",
       "retry", "attempt", "send", "failed", "delivered", "accept"}

\* A telegram_deliveries row; "none" when there is none.
Delivery == [status : {"none", "pending", "delivered"}, attempts : Nat, error : BOOLEAN]

VARIABLES
    posts,         \* of each request: where it is, its update, the version its turn read
    acknowledged,  \* the updates Telegram has seen a 2xx for
    processed,     \* processed_updates
    deliveries,    \* telegram_deliveries
    versions,      \* of each user's thread
    commands,      \* how often the turn of an update ran, and committed its command if it has one
    sent,          \* how often the response to an update was shown to its user
    faults,
    interrupted,   \* history: the updates whose turn a fault ended
    overtaken      \* history: those during whose turn another turn of their user was saved

vars == <<posts, acknowledged, processed, deliveries, versions, commands, sent, faults,
          interrupted, overtaken>>

NoPost == [pc |-> "idle"]
Post == [pc : PC, update : Update, expected : Nat]
NoDelivery == [status |-> "none", attempts |-> 0, error |-> FALSE]

Init ==
    /\ posts = [r \in Request |-> NoPost]
    /\ acknowledged = {}
    /\ processed = {}
    /\ deliveries = [u \in Update |-> NoDelivery]
    /\ versions = [user \in User |-> 0]
    /\ commands = [u \in Update |-> 0]
    /\ sent = [u \in Update |-> 0]
    /\ faults = 0
    /\ interrupted = {}
    /\ overtaken = {}

-----------------------------------------------------------------------------

At(r, pc) == posts[r].pc = pc
Handled(u) == \E r \in Request : posts[r].pc # "idle" /\ posts[r].update = u
Goto(r, pc) == posts' = [posts EXCEPT ![r].pc = pc]
Thread(r) == Sender[posts[r].update]

\* The request that recorded an update is the only one that runs its turn.
Turning(r) == posts[r].pc \in {"turn", "graph", "save", "create"}

\* The request ends without a 2xx: an exception or a controlled 500.
Fail(r) == posts' = [posts EXCEPT ![r] = NoPost]

\* Something outside the request fails: Telegram, the LLM, the database, the process.
Fault(r) ==
    /\ faults < MaxFaults /\ faults' = faults + 1
    /\ interrupted' = IF Turning(r) THEN interrupted \cup {posts[r].update} ELSE interrupted

\* The turn raises by itself, and what it had not committed is rolled back: its
\* command (the row of a task is gone), the save (the continuation is refused by
\* its own schema), or the message that cannot be built from the result.
Raise(r) == posts[r].update \in Erring /\ Fail(r)

history == <<interrupted, overtaken>>
tables == <<processed, deliveries, versions, commands>>

\* Telegram posts an update it has had no 2xx for.
Receive(r, u) ==
    /\ At(r, "idle")
    /\ u \notin acknowledged
    /\ u \in Overlapped \/ ~Handled(u)
    /\ posts' = [posts EXCEPT ![r] =
          [pc |-> IF u \in Buttons THEN "callback" ELSE "ingest", update |-> u, expected |-> 0]]
    /\ UNCHANGED <<acknowledged, tables, sent, faults, history>>

\* answerCallbackQuery, before anything is known of the update.
AnswerCallback(r) ==
    /\ At(r, "callback")
    /\ \/ Goto(r, "ingest") /\ UNCHANGED <<faults, interrupted>>
       \/ Fail(r) /\ Fault(r)
    /\ UNCHANGED <<acknowledged, tables, sent, overtaken>>

AlwaysNew(u) == TRUE  \* mutant: the duplicate is not noticed
IsNew(u) == u \notin processed

\* Mutant: the record is left to the end of the turn.
IngestUnrecorded(r) ==
    /\ At(r, "ingest")
    /\ Goto(r, IF Sender[posts[r].update] = None THEN "accept"
               ELSE IF IsNew(posts[r].update) THEN "turn" ELSE "duplicate")
    /\ UNCHANGED <<acknowledged, tables, sent, faults, history>>

\* The transaction of ingest: an unknown chat is not recorded, a new update is.
Ingest(r) ==
    LET u == posts[r].update IN
    /\ At(r, "ingest")
    /\ \/ /\ Sender[u] = None
          /\ Goto(r, "accept") /\ UNCHANGED processed
       \/ /\ Sender[u] # None /\ IsNew(u)
          /\ processed' = processed \cup {u} /\ Goto(r, "turn")
       \/ /\ Sender[u] # None /\ ~IsNew(u)
          /\ Goto(r, "duplicate") /\ UNCHANGED processed
    /\ UNCHANGED <<acknowledged, deliveries, versions, commands, sent, faults, history>>

\* Mutants: a repeated update is refused, or taken as done, without a look.
RefuseDuplicate(r) ==
    /\ At(r, "duplicate") /\ Fail(r)
    /\ UNCHANGED <<acknowledged, tables, sent, faults, history>>
AcceptDuplicate(r) ==
    /\ At(r, "duplicate") /\ Goto(r, "accept")
    /\ UNCHANGED <<acknowledged, tables, sent, faults, history>>

\* A repeated update is answered with its stored response, if that is pending.
\* The row is read by ingest and once more by retry.
FindPending(r) ==
    /\ posts[r].pc \in {"duplicate", "retry"}
    /\ Goto(r, IF deliveries[posts[r].update].status # "pending" THEN "accept"
               ELSE IF At(r, "duplicate") THEN "retry" ELSE "attempt")
    /\ UNCHANGED <<acknowledged, tables, sent, faults, history>>

-----------------------------------------------------------------------------
(* The turn *)

GetCheckpoint(r) ==
    /\ At(r, "turn")
    /\ posts' = [posts EXCEPT ![r].pc = "graph", ![r].expected = versions[Thread(r)]]
    /\ UNCHANGED <<acknowledged, tables, sent, faults, history>>

\* The agent and the Harness: the command commits on its own, or the turn raises,
\* or the LLM fails.
RunGraph(r) ==
    LET u == posts[r].update IN
    /\ At(r, "graph")
    /\ \/ /\ commands' = [commands EXCEPT ![u] = @ + 1]
          /\ Goto(r, "save") /\ UNCHANGED <<faults, interrupted>>
       \/ Raise(r) /\ UNCHANGED <<commands, faults, interrupted>>
       \/ Fail(r) /\ Fault(r) /\ UNCHANGED commands
    /\ UNCHANGED <<acknowledged, processed, deliveries, versions, sent, overtaken>>

\* Mutant: the save expects the version that it is about to write.
SaveExpectingNext(r) ==
    /\ At(r, "save")
    /\ IF versions[Thread(r)] = posts[r].expected + 1
       THEN versions' = [versions EXCEPT ![Thread(r)] = @ + 1] /\ Goto(r, "create")
       ELSE Fail(r) /\ UNCHANGED versions
    /\ UNCHANGED <<acknowledged, processed, deliveries, commands, sent, faults, history>>

\* The turns that have read the thread of r, and not yet written it.
Beside(r) == {q \in Request \ {r} : posts[q].pc \in {"graph", "save"} /\ Thread(q) = Thread(r)}

\* The version is compared and raised in one transaction; a conflict raises, and so
\* does a continuation that the schema of the stored one refuses.
SaveCheckpoint(r) ==
    LET current == versions[Thread(r)] = posts[r].expected IN
    /\ At(r, "save")
    /\ \/ /\ current /\ Goto(r, "create")
          /\ versions' = [versions EXCEPT ![Thread(r)] = @ + 1]
          /\ overtaken' = overtaken \cup {posts[q].update : q \in Beside(r)}
       \/ ~current /\ Fail(r) /\ UNCHANGED <<versions, overtaken>>
       \/ Raise(r) /\ UNCHANGED <<versions, overtaken>>
    /\ UNCHANGED <<acknowledged, processed, deliveries, commands, sent, faults, interrupted>>

-----------------------------------------------------------------------------
(* TelegramDeliveryService *)

\* Mutant: the response is sent and not stored.
SendUnstored(r) ==
    /\ At(r, "create")
    /\ sent' = [sent EXCEPT ![posts[r].update] = @ + 1]
    /\ Goto(r, "accept")
    /\ UNCHANGED <<acknowledged, tables, faults, history>>

\* The message is built, then stored to be sent.
CreatePending(r) ==
    /\ At(r, "create")
    /\ \/ /\ deliveries' = [deliveries EXCEPT ![posts[r].update] =
                                [NoDelivery EXCEPT !.status = "pending"]]
          /\ Goto(r, "attempt")
       \/ Raise(r) /\ UNCHANGED deliveries
    /\ UNCHANGED <<acknowledged, processed, versions, commands, sent, faults, history>>

\* UPDATE telegram_deliveries ... WHERE status = 'pending'.
AnyDelivery(u, row) == deliveries' = [deliveries EXCEPT ![u] = row]  \* mutant: no WHERE
UpdatePending(u, row) ==
    deliveries' = IF deliveries[u].status = "pending"
                  THEN [deliveries EXCEPT ![u] = row] ELSE deliveries

\* Mutant: the delivery is recorded before the message is sent.
DeliverFirst(r) ==
    LET u == posts[r].update
        row == deliveries[u] IN
    /\ At(r, "attempt")
    /\ UpdatePending(u, [status |-> "delivered", attempts |-> row.attempts + 1, error |-> FALSE])
    /\ Goto(r, "send")
    /\ UNCHANGED <<acknowledged, processed, versions, commands, sent, faults, history>>

MarkAttempt(r) ==
    LET u == posts[r].update
        row == deliveries[u] IN
    /\ At(r, "attempt")
    /\ UpdatePending(u, [row EXCEPT !.attempts = @ + 1, !.error = FALSE])
    /\ Goto(r, "send")
    /\ UNCHANGED <<acknowledged, processed, versions, commands, sent, faults, history>>

\* sendMessage: it may fail, also after Telegram has shown the message.
SendMessage(r) ==
    LET u == posts[r].update
        shown == [sent EXCEPT ![u] = @ + 1] IN
    /\ At(r, "send")
    /\ \/ sent' = shown /\ Goto(r, "delivered") /\ UNCHANGED <<faults, interrupted>>
       \/ sent' \in {sent, shown} /\ Goto(r, "failed") /\ Fault(r)
    /\ UNCHANGED <<acknowledged, tables, overtaken>>

MarkFailed(r) ==
    LET u == posts[r].update IN
    /\ At(r, "failed")
    /\ UpdatePending(u, [deliveries[u] EXCEPT !.error = TRUE])
    /\ Fail(r)
    /\ UNCHANGED <<acknowledged, processed, versions, commands, sent, faults, history>>

MarkDelivered(r) ==
    LET u == posts[r].update IN
    /\ At(r, "delivered")
    /\ UpdatePending(u, [deliveries[u] EXCEPT !.status = "delivered", !.error = FALSE])
    /\ Goto(r, "accept")
    /\ UNCHANGED <<acknowledged, processed, versions, commands, sent, faults, history>>

\* The 202 reaches Telegram.
Accept(r) ==
    /\ At(r, "accept")
    /\ acknowledged' = acknowledged \cup {posts[r].update}
    /\ posts' = [posts EXCEPT ![r] = NoPost]
    /\ UNCHANGED <<tables, sent, faults, history>>

\* The process dies, or the connection to the database or to Telegram does.
Crash(r) ==
    /\ posts[r].pc # "idle"
    /\ Fault(r)
    /\ Fail(r)
    /\ UNCHANGED <<acknowledged, tables, sent, overtaken>>

Step(r) ==
    \/ AnswerCallback(r) \/ Ingest(r) \/ FindPending(r)
    \/ GetCheckpoint(r) \/ RunGraph(r) \/ SaveCheckpoint(r)
    \/ CreatePending(r) \/ MarkAttempt(r) \/ SendMessage(r) \/ MarkFailed(r)
    \/ MarkDelivered(r) \/ Accept(r)

Next ==
    \E r \in Request : Step(r) \/ Crash(r) \/ \E u \in Update : Receive(r, u)

Spec == Init /\ [][Next]_vars

\* A request that nothing interrupts goes on, and Telegram keeps posting what
\* it has no 2xx for.
FairSpec ==
    /\ Spec
    /\ \A r \in Request : WF_vars(Step(r))
    /\ \A u \in Update : SF_vars(\E r \in Request : Receive(r, u))

-----------------------------------------------------------------------------
(* Properties *)

\* Every variable of the system holds what the tables and the requests can hold
\* (for the two of the history, see HistoryOK).
TypeOK ==
    /\ posts \in [Request -> Post \cup {NoPost}]
    /\ acknowledged \subseteq Update
    /\ processed \subseteq Update
    /\ deliveries \in [Update -> Delivery]
    /\ versions \in [User -> Nat]
    /\ commands \in [Update -> Nat]
    /\ sent \in [Update -> Nat]
    /\ faults \in 0 .. MaxFaults
    /\ \A r \in Request : posts[r] # NoPost => posts[r].pc # "idle"

\* However often Telegram posts an update, and wherever its requests die, its
\* command is executed at most once (TESTING.md: a retry of the sending does
\* not repeat the command).
CommandAtMostOnce == \A u \in Update : commands[u] <= 1

\* A user sees a response only after its command was committed and the
\* response stored, and only when the update came from a linked chat.
SentAfterCommit ==
    \A u \in Update : sent[u] > 0 =>
        /\ Sender[u] # None /\ u \in processed
        /\ commands[u] = 1
        /\ deliveries[u].status # "none"

\* What the delivery row says of Telegram is true: a delivered response was
\* shown, and has no error left; no response was shown without an attempt.
DeliveryIsTrue ==
    \A u \in Update :
        /\ deliveries[u].status = "delivered" => sent[u] > 0 /\ ~deliveries[u].error
        /\ sent[u] > 0 => deliveries[u].attempts > 0

\* A late request for a delivered response does not change its row any more.
DeliveredIsFinal ==
    [][\A u \in Update : deliveries[u].status = "delivered"
          => deliveries'[u] = deliveries[u]]_vars

\* Telegram is rid of every update after finitely many faults: no update makes
\* the webhook fail for ever.
EveryUpdateIsAcknowledged == \A u \in Update : <>(u \in acknowledged)

\* A stored response reaches its user, whatever died on the way, as long as
\* Telegram waits for one post of an update before it makes the next.
EveryStoredResponseIsDelivered ==
    \A u \in Update \ Overlapped :
        deliveries[u].status = "pending" ~> deliveries[u].status = "delivered"

\* An update goes through the webhook's stages once and in order, whatever dies
\* and whatever overlaps, and is acknowledged only once it is recorded.
Stage(u) ==
    IF u \notin processed THEN "new"
    ELSE IF commands[u] = 0 THEN "recorded"
    ELSE IF deliveries[u].status = "none" THEN "executed"
    ELSE IF deliveries[u].status = "pending" THEN "stored" ELSE "delivered"
Outbox == INSTANCE TelegramOutbox WITH
    Linked <- {u \in Update : Sender[u] # None},
    stage <- [u \in Update |-> Stage(u)],
    shown <- sent
ImplementsOutbox == Outbox!Spec

\* The 2xx that ends Telegram's posting of an update is not given too early: once
\* an update is acknowledged no response to it is waiting to be sent, unless posts
\* of it overlapped.  What is still pending would never be tried again.
AcknowledgedIsDelivered ==
    \A u \in acknowledged \ Overlapped : deliveries[u].status # "pending"

\* An update that was recorded and has neither a response nor a turn: every later
\* post of it is taken for a handled duplicate.
Lost(u) ==
    /\ u \in processed /\ deliveries[u].status = "none"
    /\ \A r \in Request : Turning(r) => posts[r].update # u

\* Only three things lose an update: a fault in its own turn, a turn that raises by
\* itself, and another turn of the same user that was saved between this one's
\* reading of the thread and its save.
LossHasCause == \A u \in Update : Lost(u) => u \in interrupted \cup Erring \cup overtaken

\* The documentation: a failure after the commit leaves a pending delivery or
\* is tried again, so the result of a committed command is told in the end.
EveryCommandIsReported ==
    \A u \in Update : commands[u] > 0 ~> sent[u] > 0

-----------------------------------------------------------------------------
(* The inductive invariant *)

OneTurn == \A r, q \in Request :
    Turning(r) /\ Turning(q) /\ posts[r].update = posts[q].update => r = q

\* What the tables say of one update fits together.
UpdateOK(u) ==
    /\ commands[u] > 0 => commands[u] = 1 /\ u \in processed
    /\ u \in processed => Sender[u] # None
    /\ deliveries[u].status = "none" <=> deliveries[u] = NoDelivery
    /\ deliveries[u].status = "none" => sent[u] = 0
    /\ deliveries[u].status # "none" => commands[u] = 1
    /\ deliveries[u].status = "delivered" => sent[u] > 0 /\ ~deliveries[u].error
    /\ sent[u] > 0 => deliveries[u].attempts > 0

\* What a request knows of its update at each step.
PostOK(post) ==
    LET u == post.update IN
    /\ post.pc \in {"turn", "graph", "save", "create"} =>
          /\ u \in processed /\ deliveries[u].status = "none"
          /\ commands[u] = IF post.pc \in {"turn", "graph"} THEN 0 ELSE 1
    /\ post.pc \in {"retry", "attempt", "send", "failed", "delivered"}
          => deliveries[u].status # "none"
    /\ post.pc \in {"send", "failed", "delivered"} => deliveries[u].attempts > 0
    /\ post.pc = "delivered" => sent[u] > 0
    /\ post.pc = "duplicate" => u \in processed
    /\ post.pc = "accept" => u \in processed \/ Sender[u] = None

Inv ==
    /\ TypeOK
    /\ OneTurn
    /\ \A u \in Update : UpdateOK(u)
    /\ \A r \in Request : posts[r] # NoPost => PostOK(posts[r])

\* Telegram makes no second post of an update beside the first, unless it overlaps,
\* and none after the 2xx; a request that is about to give it has left nothing
\* pending.
OnePost ==
    \A r, q \in Request :
        /\ posts[r] # NoPost /\ posts[q] # NoPost /\ r # q
        /\ posts[r].update = posts[q].update
        => posts[r].update \in Overlapped
NoPostAfterwards == \A u \in acknowledged \ Overlapped : ~Handled(u)
AcceptedIsDelivered ==
    \A r \in Request :
        At(r, "accept") /\ posts[r].update \notin Overlapped
            => deliveries[posts[r].update].status # "pending"
PostingInv == OnePost /\ NoPostAfterwards /\ AcceptedIsDelivered /\ AcknowledgedIsDelivered

\* A thread's version never falls behind what a turn has read, and is ahead of it
\* only when another turn was saved meanwhile.
ExpectedOK ==
    \A r \in Request :
        posts[r].pc \in {"graph", "save"} =>
            /\ posts[r].expected <= versions[Thread(r)]
            /\ posts[r].expected < versions[Thread(r)] => posts[r].update \in overtaken
\* The history tells of recorded updates only.
HistoryOK == interrupted \cup overtaken \subseteq processed
LossInv == HistoryOK /\ ExpectedOK /\ LossHasCause
=============================================================================
