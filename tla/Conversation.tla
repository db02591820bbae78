---------------------------- MODULE Conversation ----------------------------
(***************************************************************************)
(* The turns of one user's conversations: app/graph/nodes.py and           *)
(* builder.py, run by the terminal (app/cli.py) and by the Telegram        *)
(* webhook over the durable runner (app/graph/checkpoint.py).  A turn      *)
(* makes an event of what the user does, loads the thread's continuation,  *)
(* runs one path of the Graph, whose command commits by itself, saves the  *)
(* continuation, and replies.  Turns of a thread may overlap.              *)
(*                                                                         *)
(* Deletion requests obey DeletionProtocol, which TaskService implements.  *)
(* The save obeys GraphCheckpoint: it is accepted when no other turn of    *)
(* the thread was saved since the continuation was loaded (BasisOK there), *)
(* so the version is abstracted to the flag fresh.                         *)
(***************************************************************************)
EXTENDS Naturals, Sequences, FiniteSets

CONSTANTS
    Thread, Channel,  \* the user's threads, and the channel of each
    Proc,             \* turns that may run at the same time
    TaskId, Seeded,   \* the tasks, and those that exist at the start
    Title, TitleOf,
    Request,          \* bound: deletion requests made in a run
    Text,             \* what the user may type, as far as the Graph can tell
    Listing,          \* the orders in which a search may list several tasks
    Changes,          \* the updates the agent may propose
    MaxFaults,        \* bound on crashes and raised exceptions
    None

Decision == {"confirm", "cancel"}
Topic == {"task", "planning", "review", "reminder"}
Flow == Topic \cup {"none", "confirmation"}
Field == {"title", "description", "priority"}

\* A text: what normalize_confirmation makes of it, the flow select_flow
\* chooses for it, its ordinal word or else its first number (0: neither),
\* and the normalised titles it contains.
TextType == [decision : Decision \cup {"none"}, topic : Topic, number : Nat,
             titles : SUBSET Title]

\* TaskUpdateChanges: a field is left out, given a value, or given as null.
\* The validator refuses a null title and a null priority.
Change == [Field -> {"keep", "new", "clear"}]
Acceptable(u) == /\ u["title"] # "clear" /\ u["priority"] # "clear"
                 /\ \E f \in Field : u[f] # "keep"

ASSUME ThreadAssumption == Channel \in [Thread -> {"cli", "telegram"}]
ASSUME TaskAssumption == Seeded \subseteq TaskId /\ TitleOf \in [TaskId -> Title]
ASSUME TextAssumption == Text \subseteq TextType
ASSUME ListingAssumption ==
    /\ Listing \subseteq Seq(TaskId)
    /\ \A s \in Listing : Len(s) > 1 /\ \A i, j \in 1..Len(s) : s[i] = s[j] => i = j
ASSUME ChangesAssumption == Changes \subseteq {u \in Change : Acceptable(u)}
ASSUME FaultsAssumption == MaxFaults \in Nat
ASSUME NoneAssumption == None \notin TaskId \cup Request \cup Change

VARIABLES
    present, gone, status, target,  \* of DeletionProtocol
    completed,     \* the tasks that are not active any more
    conversation,  \* the continuation saved for each thread
    announced,     \* history: the requests each thread has saved as pending
    buttons,       \* the confirmation keyboards the chat of each thread shows
    turns,
    faults
protocol == <<present, gone, status, target>>
tasks == <<protocol, completed>>
threads == <<conversation, announced, buttons>>
vars == <<tasks, threads, turns, faults>>

Requests == INSTANCE DeletionProtocol WITH NoTask <- None

\* GraphContinuationState.
Continuation == [flow : Flow, confirmation : Request \cup {None}, candidates : Seq(TaskId),
                 update : Change \cup {None}, delete : BOOLEAN]
Fresh == [flow |-> "none", confirmation |-> None, candidates |-> <<>>,
          update |-> None, delete |-> FALSE]

Event == [type : {"message"}, text : Text]
         \cup [type : {"confirmation"}, request : Request, decision : Decision]
Message(text) == [type |-> "message", text |-> text]
Answer(r, decision) == [type |-> "confirmation", request |-> r, decision |-> decision]

\* fresh: no other turn was saved on the thread since basis was loaded.
\* keyboard: the request this turn has made, whose buttons the reply shows.
Invocation ==
    [pc : {"load"}, thread : Thread, event : Event]
    \cup [pc : {"run"}, thread : Thread, event : Event, basis : Continuation, fresh : BOOLEAN]
    \cup [pc : {"save"}, thread : Thread, next : Continuation, keyboard : Request \cup {None},
          fresh : BOOLEAN]
    \cup [pc : {"reply"}, thread : Thread, keyboard : Request \cup {None}]
NoInvocation == [pc |-> "idle"]

Init ==
    /\ Requests!Init /\ present = Seeded
    /\ completed = {}
    /\ conversation = [th \in Thread |-> Fresh]
    /\ announced = [th \in Thread |-> {}]
    /\ buttons = [th \in Thread |-> {}]
    /\ turns = [p \in Proc |-> NoInvocation]
    /\ faults = 0

-----------------------------------------------------------------------------
(* Channels *)

Begin(p, th, event) ==
    /\ turns[p] = NoInvocation
    /\ turns' = [turns EXCEPT ![p] = [pc |-> "load", thread |-> th, event |-> event]]
    /\ UNCHANGED <<tasks, threads, faults>>

\* A line typed at a terminal is a decision only while the continuation, read
\* before the turn, has a pending confirmation; the decision names that one.
Line(p, th, text) ==
    LET r == conversation[th].confirmation IN
    /\ Channel[th] = "cli"
    /\ Begin(p, th, IF r # None /\ text.decision # "none"
                    THEN Answer(r, text.decision) ELSE Message(text))

\* A Telegram text is a message, whatever it says; a button names its request.
Post(p, th, text) == Channel[th] = "telegram" /\ Begin(p, th, Message(text))
Press(p, th, r, decision) == r \in buttons[th] /\ Begin(p, th, Answer(r, decision))

-----------------------------------------------------------------------------
(* The runner *)

LoadCheckpoint(p) ==
    /\ turns[p].pc = "load"
    /\ turns' = [turns EXCEPT ![p] =
          [pc |-> "run", thread |-> @.thread, event |-> @.event,
           basis |-> conversation[@.thread], fresh |-> TRUE]]
    /\ UNCHANGED <<tasks, threads, faults>>

\* The continuation is dumped with every field and validated again when it is
\* read: a field the update leaves out comes back as null.
Reloaded(c) ==
    IF c.update = None THEN c
    ELSE [c EXCEPT !.update = [f \in Field |-> IF c.update[f] = "keep" THEN "clear"
                                               ELSE c.update[f]]]
Storable(c) == c.update # None => Acceptable(Reloaded(c).update)

Overtaken(p) ==
    [q \in Proc |-> IF /\ q # p /\ turns[q].pc \in {"run", "save"}
                       /\ turns[q].thread = turns[p].thread
                    THEN [turns[q] EXCEPT !.fresh = FALSE] ELSE turns[q]]

SaveStale(p) ==  \* mutant: the version is not compared
    LET th == turns[p].thread  next == turns[p].next IN
    /\ turns[p].pc = "save" /\ Storable(next)
    /\ conversation' = [conversation EXCEPT ![th] = Reloaded(next)]
    /\ announced' = [announced EXCEPT ![th] = @ \cup ({next.confirmation} \ {None})]
    /\ turns' = [Overtaken(p) EXCEPT ![p] =
          [pc |-> "reply", thread |-> th, keyboard |-> turns[p].keyboard]]
    /\ UNCHANGED <<tasks, buttons, faults>>

\* The save is accepted when nobody saved since the load and the row validates.  The
\* user is taken to have a row; the refusal of a first turn whose user has none
\* is in GraphCheckpoint.
SaveCheckpoint(p) ==
    LET th == turns[p].thread  next == turns[p].next IN
    /\ turns[p].pc = "save"
    /\ turns[p].fresh /\ Storable(next)
    /\ conversation' = [conversation EXCEPT ![th] = Reloaded(next)]
    /\ announced' = [announced EXCEPT ![th] = @ \cup ({next.confirmation} \ {None})]
    /\ turns' = [Overtaken(p) EXCEPT ![p] =
          [pc |-> "reply", thread |-> th, keyboard |-> turns[p].keyboard]]
    /\ UNCHANGED <<tasks, buttons, faults>>

RefuseAndReply(p) ==  \* mutant: the error of the save is swallowed
    /\ turns[p].pc = "save"
    /\ ~(turns[p].fresh /\ Storable(turns[p].next))
    /\ turns' = [turns EXCEPT ![p] =
          [pc |-> "reply", thread |-> @.thread, keyboard |-> @.keyboard]]
    /\ UNCHANGED <<tasks, threads, faults>>

\* The version has moved on, or save validates what it has written and raises
\* with the transaction open.  The caller gets an exception and no reply.
RefuseCheckpoint(p) ==
    /\ turns[p].pc = "save"
    /\ ~(turns[p].fresh /\ Storable(turns[p].next))
    /\ turns' = [turns EXCEPT ![p] = NoInvocation]
    /\ UNCHANGED <<tasks, threads, faults>>

ReplyReplacing(p) ==  \* mutant: the old keyboard is taken away
    LET th == turns[p].thread IN
    /\ turns[p].pc = "reply"
    /\ buttons' = [buttons EXCEPT ![th] = {turns[p].keyboard} \ {None}]
    /\ turns' = [turns EXCEPT ![p] = NoInvocation]
    /\ UNCHANGED <<tasks, conversation, announced, faults>>

\* Only the reply of the turn that has made a request has its buttons.
Reply(p) ==
    LET th == turns[p].thread IN
    /\ turns[p].pc = "reply"
    /\ buttons' = IF Channel[th] = "telegram"
                  THEN [buttons EXCEPT ![th] = @ \cup ({turns[p].keyboard} \ {None})]
                  ELSE buttons
    /\ turns' = [turns EXCEPT ![p] = NoInvocation]
    /\ UNCHANGED <<tasks, conversation, announced, faults>>

\* The process dies, or the language model or the database raises.
Abandon(p) ==
    /\ turns[p] # NoInvocation
    /\ faults < MaxFaults /\ faults' = faults + 1
    /\ turns' = [turns EXCEPT ![p] = NoInvocation]
    /\ UNCHANGED <<tasks, threads>>

-----------------------------------------------------------------------------
(* The Graph *)

\* load_session.
Loaded(p) ==
    LET c == turns[p].basis  event == turns[p].event IN
    [c EXCEPT !.flow =
        IF event.type = "confirmation" \/ c.confirmation # None THEN "confirmation"
        ELSE IF c.flow = "none" THEN event.text.topic ELSE c.flow]

Route(p) ==
    LET c == Loaded(p) IN
    IF turns[p].event.type = "confirmation" THEN "confirmation"
    ELSE IF c.confirmation # None THEN "pending_confirmation"
    ELSE IF c.candidates # <<>> THEN "pending_choice"
    ELSE IF c.flow = "task" THEN "task"
    ELSE "unsupported"

At(p, route) == turns[p].pc = "run" /\ Route(p) = route

Leave(p, next) ==
    /\ turns' = [turns EXCEPT ![p] =
          [pc |-> "save", thread |-> @.thread, next |-> next, fresh |-> @.fresh,
           keyboard |-> IF @.basis.confirmation = None THEN next.confirmation ELSE None]]
    /\ UNCHANGED <<threads, faults>>

Active == present \ completed
Complete(x) == x \in Active /\ completed' = completed \cup {x} /\ UNCHANGED protocol

\* The resolver's transaction: what it finds decides; a request that is not
\* pending any more is refused, and only an active task is deleted.  It is taken
\* as made when it reads the task: a completion that commits before its DELETE
\* (TaskStaleTarget) comes after it, and finds nothing.
Resolve(r, decision) ==
    /\ \/ Requests!Expire(r)
       \/ decision = "cancel" /\ Requests!Cancel(r)
       \/ decision = "confirm" /\ target[r] \in Active /\ Requests!Execute(r)
       \/ decision = "confirm" /\ target[r] \notin Active /\ Requests!Fail(r)
       \/ status[r] # "pending" /\ UNCHANGED protocol
    /\ UNCHANGED completed

ResolveAndKeep(p) ==  \* mutant: pending_confirmation_id is not reset
    /\ At(p, "confirmation")
    /\ Resolve(turns[p].event.request, turns[p].event.decision)
    /\ Leave(p, [Loaded(p) EXCEPT !.flow = "task"])

ResolveThePending(p) ==  \* mutant: what the thread has pending is resolved
    /\ At(p, "confirmation")
    /\ Resolve(IF Loaded(p).confirmation # None THEN Loaded(p).confirmation
               ELSE turns[p].event.request, turns[p].event.decision)
    /\ Leave(p, [Loaded(p) EXCEPT !.flow = "task", !.confirmation = None])

\* The pending confirmation is cleared, whichever request was decided.
ResolveConfirmation(p) ==
    /\ At(p, "confirmation")
    /\ Resolve(turns[p].event.request, turns[p].event.decision)
    /\ Leave(p, [Loaded(p) EXCEPT !.flow = "task", !.confirmation = None])

PendingConfirmationPrompt(p) ==
    At(p, "pending_confirmation") /\ Leave(p, Loaded(p)) /\ UNCHANGED tasks

UnsupportedFlow(p) == At(p, "unsupported") /\ Leave(p, Loaded(p)) /\ UNCHANGED tasks

\* The candidate at the number, if there is one, or else the only one whose
\* title the text contains.
SelectTaskCandidate(text, candidates) ==
    LET named == {i \in 1..Len(candidates) : TitleOf[candidates[i]] \in text.titles} IN
    IF text.number \in 1..Len(candidates) THEN candidates[text.number]
    ELSE IF \E i \in named : named = {i} THEN candidates[CHOOSE i \in named : TRUE]
    ELSE None

Chosen(p) == SelectTaskCandidate(turns[p].event.text, Loaded(p).candidates)
SettledInPart(c) == [c EXCEPT !.candidates = <<>>]  \* mutant: the command is not reset
SettledButOffered(c) ==  \* mutant: the candidates are not reset
    [c EXCEPT !.update = None, !.delete = FALSE]
Settled(c) == [c EXCEPT !.candidates = <<>>, !.update = None, !.delete = FALSE]

AskAgain(p) ==
    /\ At(p, "pending_choice") /\ Chosen(p) = None
    /\ Leave(p, Loaded(p))
    /\ UNCHANGED tasks

\* tasks.update_by_id; what it does to the task's fields is left out.
UpdateChosen(p) ==
    /\ At(p, "pending_choice") /\ Chosen(p) # None
    /\ Loaded(p).update # None
    /\ Leave(p, Settled(Loaded(p)))
    /\ UNCHANGED tasks

\* tasks.delete_by_id asks for confirmation, or fails on a task that is not active.
DeleteChosen(p) ==
    /\ At(p, "pending_choice") /\ Chosen(p) # None
    /\ Loaded(p).update = None /\ Loaded(p).delete
    /\ \/ /\ Chosen(p) \notin Active /\ UNCHANGED protocol
          /\ Leave(p, [Settled(Loaded(p)) EXCEPT !.confirmation = None])
       \/ \E r \in Request :
             /\ Chosen(p) \in Active /\ Requests!Ask(r, Chosen(p))
             /\ Leave(p, [Settled(Loaded(p)) EXCEPT !.confirmation = r])
    /\ UNCHANGED completed

CompleteChosen(p) ==
    /\ At(p, "pending_choice") /\ Chosen(p) # None
    /\ Loaded(p).update = None /\ ~Loaded(p).delete
    /\ \/ Complete(Chosen(p))
       \/ Chosen(p) \notin Active /\ UNCHANGED tasks
    /\ Leave(p, Settled(Loaded(p)))

\* The agent's decision is the language model's: a message, also when its
\* output is invalid; a command the Harness refuses, or that fails or changes
\* nothing modelled here (list, update); or one of the commands below.
AgentReplies(p) == At(p, "task") /\ Leave(p, Loaded(p)) /\ UNCHANGED tasks

AgentCreates(p) ==
    /\ At(p, "task")
    /\ \E x \in TaskId : Requests!Add(x)
    /\ Leave(p, Loaded(p))
    /\ UNCHANGED completed

\* By a query that one active task matches, or by id.
AgentCompletes(p) ==
    At(p, "task") /\ Leave(p, Loaded(p)) /\ \E x \in TaskId : Complete(x)

AgentDeletes(p) ==
    /\ At(p, "task")
    /\ \E r \in Request, x \in Active :
          Requests!Ask(r, x) /\ Leave(p, [Loaded(p) EXCEPT !.confirmation = r])
    /\ UNCHANGED completed

\* The query matches several active tasks: store_task_reference_candidates.
AgentIsAmbiguous(p) ==
    /\ At(p, "task")
    /\ \E s \in Listing, update \in Changes \cup {None}, delete \in BOOLEAN :
          /\ \A i \in 1..Len(s) : s[i] \in Active
          /\ update = None \/ ~delete
          /\ Leave(p, [Loaded(p) EXCEPT !.candidates = s, !.update = update, !.delete = delete])
    /\ UNCHANGED tasks

\* Bound: with no request left, a chosen deletion ends like a raised exception.
Exhausted == \A r \in Request : status[r] # "none"
CutOff(p) ==
    /\ At(p, "pending_choice") /\ Exhausted /\ Chosen(p) \in Active
    /\ Loaded(p).update = None /\ Loaded(p).delete
    /\ turns' = [turns EXCEPT ![p] = NoInvocation]
    /\ UNCHANGED <<tasks, threads, faults>>

RunGraph(p) ==
    \/ ResolveConfirmation(p) \/ PendingConfirmationPrompt(p) \/ UnsupportedFlow(p)
    \/ AskAgain(p) \/ UpdateChosen(p) \/ DeleteChosen(p) \/ CompleteChosen(p)
    \/ AgentReplies(p) \/ AgentCreates(p) \/ AgentCompletes(p) \/ AgentDeletes(p)
    \/ AgentIsAmbiguous(p) \/ CutOff(p)

Step(p) == \/ LoadCheckpoint(p) \/ RunGraph(p)
           \/ SaveCheckpoint(p) \/ RefuseCheckpoint(p) \/ Reply(p)

UserActs(p) ==
    \E th \in Thread :
        \/ \E text \in Text : Line(p, th, text) \/ Post(p, th, text)
        \/ \E r \in Request, decision \in Decision : Press(p, th, r, decision)

Next == \E p \in Proc : Step(p) \/ Abandon(p) \/ UserActs(p)

Spec == Init /\ [][Next]_vars

\* The user answers what the thread has asked: the confirmation with a typed
\* decision at a terminal and with the button on Telegram, the choice with a
\* text that selects a candidate.
UserAnswers(p, th) ==
    LET c == conversation[th] IN
    \/ \E r \in Request, decision \in Decision : r = c.confirmation /\ Press(p, th, r, decision)
    \/ \E text \in Text :
          /\ Line(p, th, text) \/ Post(p, th, text)
          /\ \/ Channel[th] = "cli" /\ c.confirmation # None /\ text.decision # "none"
             \/ SelectTaskCandidate(text, c.candidates) # None

\* A running turn goes on, and a user who is asked answers in the end.
FairSpec == /\ Spec
            /\ \A p \in Proc : SF_vars(Step(p))
            /\ \A th \in Thread : SF_vars(\E p \in Proc : UserAnswers(p, th))

\* The user types everything there is to type, and presses no button.
TypingSpec == /\ Spec
              /\ \A p \in Proc : SF_vars(Step(p))
              /\ \A th \in Thread, text \in Text :
                    SF_vars(\E p \in Proc : Line(p, th, text) \/ Post(p, th, text))

-----------------------------------------------------------------------------
(* Properties *)

\* Every variable holds what the tables, the chat and the runner can hold.
TypeOK ==
    /\ present \subseteq TaskId /\ gone \subseteq TaskId /\ completed \subseteq TaskId
    /\ status \in [Request -> {"none", "pending", "cancelled", "expired", "consumed"}]
    /\ target \in [Request -> TaskId \cup {None}]
    /\ \A r \in Request : status[r] # "none" => target[r] \in TaskId
    /\ conversation \in [Thread -> Continuation]
    /\ announced \in [Thread -> SUBSET Request]
    /\ buttons \in [Thread -> SUBSET Request]
    /\ turns \in [Proc -> Invocation \cup {NoInvocation}]
    /\ faults \in 0..MaxFaults

\* One question at a time, never replaced by another, and a request put to the
\* user once: also when turns overlap, an old button is pressed, or a terminal
\* has read the continuation before another turn moved it on.
About(c) == IF c.update # None THEN "update" ELSE IF c.delete THEN "delete" ELSE "complete"
OfferedBy(c) == {c.candidates[i] : i \in 1..Len(c.candidates)}
QuestionOf(c) ==
    IF c.confirmation # None
    THEN [kind |-> "confirmation", request |-> c.confirmation, task |-> target[c.confirmation]]
    ELSE IF c.candidates # <<>>
    THEN [kind |-> "choice", about |-> About(c), offered |-> OfferedBy(c)]
    ELSE [kind |-> "none"]
Questions == INSTANCE Dialogue WITH
    question <- [th \in Thread |-> QuestionOf(conversation[th])],
    asked <- announced
ImplementsDialogue == Questions!Spec

\* A request whose turn was lost, by a crash or by another turn's save, is never
\* decided: only what a thread has saved as its question can be answered, and no
\* task is deleted for any other reason.
OnlyAnnouncedRequestsAreDecided ==
    /\ \A r \in Request :
          status[r] \notin {"none", "pending"} => \E th \in Thread : r \in announced[th]
    /\ \A x \in gone : \E r \in Request : status[r] = "consumed" /\ target[r] = x

\* A request is decided by the answer to it, confirmed or cancelled as that
\* answer says, in a turn of the thread that asked: also when the thread has
\* asked something else since, and an old button or a line read too early is
\* all that is left of the question.
DecidedBy(p, r) ==
    LET turn == turns[p] IN
    /\ turn.pc = "run" /\ turn.event.type = "confirmation" /\ turn.event.request = r
    /\ r \in announced[turn.thread]
    /\ \/ status'[r] = "consumed" /\ turn.event.decision = "confirm"
       \/ status'[r] = "cancelled" /\ turn.event.decision = "cancel"
       \/ status'[r] = "expired"
Decided(r) == status[r] # "none" /\ status'[r] # status[r]
DecidedByItsOwnThread ==
    [][\A r \in Request : Decided(r) => \E p \in Proc : DecidedBy(p, r)]_vars

\* An old button may take a newer confirmation off its thread; the newer one's
\* buttons stay, or are on their way, so it can still be answered.
AnnouncedRequestsKeepTheirButtons ==
    \A th \in Thread : \A r \in announced[th] :
        Channel[th] = "telegram" /\ faults = 0 =>
            \/ r \in buttons[th]
            \/ \E p \in Proc : turns[p] = [pc |-> "reply", thread |-> th, keyboard |-> r]

\* A continuation asks one thing, and names an update or a deletion only for the
\* candidates it goes with.
OneQuestion(c) ==
    /\ c.confirmation # None => c.candidates = <<>>
    /\ c.candidates = <<>> => c.update = None /\ ~c.delete
    /\ c.update # None => ~c.delete

Quiet(c) == c.confirmation = None /\ c.candidates = <<>>
SameQuestion(c, d) == /\ d.confirmation = c.confirmation /\ d.candidates = c.candidates
                      /\ d.update = c.update /\ d.delete = c.delete

\* What a turn makes of the continuation c that is still the thread's.
Moves(c, next, keyboard) ==
    /\ OneQuestion(next)
    /\ \/ /\ keyboard = None
          /\ SameQuestion(c, next) \/ Quiet(next)
             \/ /\ Quiet(c) /\ next.confirmation = None
                /\ \E x, y \in OfferedBy(next) : x # y
       \/ /\ keyboard # None /\ next.confirmation = keyboard
          /\ Quiet(c) \/ /\ c.confirmation = None /\ c.update = None /\ c.delete
                         /\ target[keyboard] \in OfferedBy(c)

Unannounced(r) == \A th \in Thread : r \notin announced[th]

ThreadOK(th) ==
    /\ OneQuestion(conversation[th])
    /\ conversation[th].confirmation \in announced[th] \cup {None}
    /\ buttons[th] \subseteq announced[th]
    /\ \A r \in announced[th] : status[r] # "none"
    /\ \A other \in Thread \ {th} : announced[th] \cap announced[other] = {}

\* What a turn may rely on: what it answers was asked in its thread; what it has
\* loaded is still there while it is fresh; what it asks was never asked before.
TurnOK(p) ==
    LET turn == turns[p] IN
    /\ turn.pc \in {"load", "run"} /\ turn.event.type = "confirmation"
          => turn.event.request \in announced[turn.thread]
    /\ turn.pc = "run" /\ turn.fresh => turn.basis = conversation[turn.thread]
    /\ turn.pc = "save" /\ turn.fresh
          => Moves(conversation[turn.thread], turn.next, turn.keyboard)
    /\ turn.pc = "save" /\ turn.keyboard # None
          => /\ status[turn.keyboard] # "none" /\ Unannounced(turn.keyboard)
             /\ \A q \in Proc \ {p} : turns[q].pc = "save" => turns[q].keyboard # turn.keyboard
    /\ turn.pc = "reply" => turn.keyboard \in announced[turn.thread] \cup {None}

Inv == /\ TypeOK
       /\ \A th \in Thread : ThreadOK(th)
       /\ \A p \in Proc : TurnOK(p)
       /\ OnlyAnnouncedRequestsAreDecided
       /\ AnnouncedRequestsKeepTheirButtons

\* A confirmation that can be answered is answered and leaves the thread, for a
\* user who waits for each reply.
Alone(th) == \A p, q \in Proc : /\ turns[p] # NoInvocation /\ turns[q] # NoInvocation
                                /\ turns[p].thread = th /\ turns[q].thread = th
                                => p = q
Answerable(th) == /\ conversation[th].confirmation # None
                  /\ Channel[th] = "cli" \/ conversation[th].confirmation \in buttons[th]
ConfirmationIsLeft ==
    \A th \in Thread : []Alone(th) => (Answerable(th) ~> conversation[th].confirmation = None)

\* A choice is left by choosing, unless the model has no request left to make.
ChoiceIsLeft ==
    \A th \in Thread :
        []Alone(th) => (conversation[th].candidates # <<>>
                        ~> \/ conversation[th].candidates = <<>>
                           \/ conversation[th].delete /\ Exhausted)

-----------------------------------------------------------------------------
(* What the documentation says and the code does not do *)

\* After a restart a thread goes on from the point it was left at: what a turn
\* leaves can be stored, and is what the next turn finds.
ContinuationIsKept ==
    \A p \in Proc : turns[p].pc = "save"
        => Storable(turns[p].next) /\ Reloaded(turns[p].next) = turns[p].next

\* Every message is routed by what it says: a user who types everything there is
\* to type does not stay in a flow that is not there.
Unsupported(th) == conversation[th].flow \in Topic \ {"task"}
UnsupportedFlowIsLeft == \A th \in Thread : Unsupported(th) ~> ~Unsupported(th)
=============================================================================
