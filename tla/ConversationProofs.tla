------------------------- MODULE ConversationProofs -------------------------
(***************************************************************************)
(* Proofs about Conversation for any threads on any channels, any number   *)
(* of overlapping turns, tasks and requests, and any texts and updates.    *)
(***************************************************************************)
EXTENDS Conversation, TLAPS

-----------------------------------------------------------------------------
(* What a turn holds *)

Loading == [pc : {"load"}, thread : Thread, event : Event]
Running == [pc : {"run"}, thread : Thread, event : Event, basis : Continuation, fresh : BOOLEAN]
Saving == [pc : {"save"}, thread : Thread, next : Continuation, keyboard : Request \cup {None},
           fresh : BOOLEAN]
Replying == [pc : {"reply"}, thread : Thread, keyboard : Request \cup {None}]

LEMMA TurnTypes ==
    ASSUME TypeOK, NEW p \in Proc
    PROVE  /\ turns[p].pc = "load" => turns[p] \in Loading
           /\ turns[p].pc = "run" => turns[p] \in Running
           /\ turns[p].pc = "save" => turns[p] \in Saving
           /\ turns[p].pc = "reply" => turns[p] \in Replying
           /\ turns[p].pc \in {"load", "run", "save", "reply", "idle"}
           /\ turns[p] # NoInvocation => turns[p].pc # "idle" /\ turns[p].thread \in Thread
  BY DEF TypeOK, Invocation, NoInvocation, Loading, Running, Saving, Replying

LEMMA EventTypes ==
    ASSUME NEW event \in Event
    PROVE  /\ event.type \in {"message", "confirmation"}
           /\ event.type = "message" => event.text \in Text
           /\ event.type = "confirmation"
                 => event.request \in Request /\ event.decision \in Decision
  BY DEF Event

LEMMA MessageType == ASSUME NEW text \in Text
                     PROVE  Message(text) \in Event /\ Message(text).type = "message"
  BY DEF Message, Event

LEMMA AnswerType == ASSUME NEW r \in Request, NEW decision \in Decision
                    PROVE  /\ Answer(r, decision) \in Event
                           /\ Answer(r, decision).type = "confirmation"
                           /\ Answer(r, decision).request = r
  BY DEF Answer, Event

LEMMA FreshType == Fresh \in Continuation /\ OneQuestion(Fresh) /\ Fresh.confirmation = None
  BY DEF Fresh, Continuation, Flow, OneQuestion

\* What is read back differs from what was written in the update's fields only.
LEMMA ReloadedType ==
    ASSUME NEW c \in Continuation
    PROVE  /\ Reloaded(c) \in Continuation
           /\ Reloaded(c).confirmation = c.confirmation
           /\ Reloaded(c).candidates = c.candidates
           /\ Reloaded(c).delete = c.delete
           /\ Reloaded(c).update = None <=> c.update = None
  <1>1. CASE c.update = None
    BY <1>1 DEF Reloaded
  <1>2. CASE c.update # None
    <2> DEFINE u == [f \in Field |-> IF c.update[f] = "keep" THEN "clear" ELSE c.update[f]]
    <2>1. c.update \in Change
      BY <1>2 DEF Continuation
    <2>2. u \in Change
      BY <2>1 DEF Change
    <2>3. u # None
      BY <2>2, NoneAssumption
    <2>4. Reloaded(c) = [c EXCEPT !.update = u]
      BY <1>2 DEF Reloaded
    <2> HIDE DEF u
    <2> QED
      BY <2>2, <2>3, <2>4, <1>2 DEF Continuation
  <1> QED
    BY <1>1, <1>2

\* load_session chooses a flow and keeps the question.
LEMMA LoadedType ==
    ASSUME TypeOK, NEW p \in Proc, turns[p].pc = "run"
    PROVE  Loaded(p) \in Continuation /\ SameQuestion(turns[p].basis, Loaded(p))
  <1>1. turns[p] \in Running
    BY TurnTypes
  <1> DEFINE event == turns[p].event  c == turns[p].basis
  <1>2. c \in Continuation /\ event \in Event
    BY <1>1 DEF Running
  <1>3. event.type = "confirmation" \/ event.text.topic \in Flow
    BY <1>2, EventTypes, TextAssumption DEF TextType, Flow
  <1> DEFINE flow == IF event.type = "confirmation" \/ c.confirmation # None THEN "confirmation"
                     ELSE IF c.flow = "none" THEN event.text.topic ELSE c.flow
  <1>4. flow \in Flow
    BY <1>2, <1>3 DEF Flow, Continuation
  <1>5. Loaded(p) = [c EXCEPT !.flow = flow]
    BY DEF Loaded
  <1> HIDE DEF flow
  <1> QED
    BY <1>2, <1>4, <1>5 DEF Continuation, SameQuestion

-----------------------------------------------------------------------------
(* What the other turns rely on *)

\* A request that was made stays made, about the same task.
Lasting == \A r \in Request : status[r] # "none" => status'[r] # "none" /\ target'[r] = target[r]
\* A step that decides a request decides one that was announced, a consumed one
\* stays consumed, and a step that deletes a task consumes a request for it.
Licensed ==
    /\ \A r \in Request :
          /\ \/ status'[r] \in {"none", "pending", status[r]}
             \/ \E th \in Thread : r \in announced[th]
          /\ status[r] = "consumed" => status'[r] = "consumed"
    /\ \A x \in gone' \ gone : \E r \in Request : status'[r] = "consumed" /\ target'[r] = x

\* A step of p that leaves the threads alone and asks nothing another turn asks
\* keeps what every other turn relies on.
LEMMA OthersKeep ==
    ASSUME Inv, NEW p \in Proc, UNCHANGED threads, Lasting,
           \A q \in Proc \ {p} : turns'[q] = turns[q], TurnOK(p)',
           NEW q \in Proc
    PROVE  TurnOK(q)'
  <1>1. CASE q = p
    BY <1>1
  <1> SUFFICES ASSUME q # p PROVE TurnOK(q)'
    BY <1>1
  <1>2. turns'[q] = turns[q] /\ TurnOK(q)
    BY DEF Inv
  <1>3. turns[q].pc = "save" => turns[q] \in Saving
    BY TurnTypes DEF Inv
  <1>4. ASSUME turns[q].pc = "save", turns[q].fresh
        PROVE  Moves(conversation[turns[q].thread], turns[q].next, turns[q].keyboard)'
    <2>1. Moves(conversation[turns[q].thread], turns[q].next, turns[q].keyboard)
      BY <1>2, <1>4 DEF TurnOK
    <2>2. CASE turns[q].keyboard = None
      BY <2>1, <2>2, <1>2 DEF Moves, threads
    <2>3. CASE turns[q].keyboard # None
      <3>1. target'[turns[q].keyboard] = target[turns[q].keyboard]
        BY <1>2, <1>3, <1>4, <2>3 DEF TurnOK, Saving, Lasting
      <3> QED
        BY <2>1, <2>3, <3>1, <1>2 DEF Moves, threads
    <2> QED
      BY <2>2, <2>3
  <1>5. ASSUME turns[q].pc = "save", turns[q].keyboard # None
        PROVE  /\ status'[turns[q].keyboard] # "none" /\ Unannounced(turns[q].keyboard)'
               /\ \A o \in Proc \ {q} : turns'[o].pc = "save"
                                           => turns'[o].keyboard # turns[q].keyboard
    <2>1. turns[q].keyboard \in Request
      BY <1>3, <1>5 DEF Saving
    <2>2. /\ status[turns[q].keyboard] # "none" /\ Unannounced(turns[q].keyboard)
          /\ \A o \in Proc \ {q} : turns[o].pc = "save" => turns[o].keyboard # turns[q].keyboard
      BY <1>2, <1>5 DEF TurnOK
    <2>3. turns'[p].pc = "save" => turns'[p].keyboard # turns[q].keyboard
      BY <1>2, <1>5 DEF TurnOK
    <2> QED
      BY <2>1, <2>2, <2>3 DEF Lasting, Unannounced, threads
  <1> QED
    BY <1>2, <1>4, <1>5 DEF TurnOK, threads

\* A step of p that leaves the threads alone keeps the invariant if it keeps it
\* for p, loses no keyboard that is due, and decides announced requests only.
LEMMA KeepsInv ==
    ASSUME Inv, NEW p \in Proc, UNCHANGED threads, Lasting, Licensed, TypeOK',
           NEW turn, turns' = [turns EXCEPT ![p] = turn], TurnOK(p)',
           faults' = 0 => faults = 0 /\ turns[p].pc # "reply"
    PROVE  Inv'
  <1>1. \A q \in Proc \ {p} : turns'[q] = turns[q]
    BY DEF Inv, TypeOK
  <1>2. \A q \in Proc : TurnOK(q)'
    BY <1>1, OthersKeep
  <1>3. ASSUME NEW th \in Thread PROVE ThreadOK(th)'
    <2>1. ThreadOK(th)
      BY DEF Inv
    <2>2. announced[th] \subseteq Request
      BY DEF Inv, TypeOK
    <2> QED
      BY <2>1, <2>2 DEF ThreadOK, Lasting, threads
  <1>4. OnlyAnnouncedRequestsAreDecided'
    <2>1. ASSUME NEW r \in Request, status'[r] \notin {"none", "pending"}
          PROVE  \E th \in Thread : r \in announced'[th]
      BY <2>1 DEF Inv, OnlyAnnouncedRequestsAreDecided, Licensed, threads
    <2>2. ASSUME NEW x \in gone
          PROVE  \E r \in Request : status'[r] = "consumed" /\ target'[r] = x
      <3>1. PICK r \in Request : status[r] = "consumed" /\ target[r] = x
        BY DEF Inv, OnlyAnnouncedRequestsAreDecided
      <3> QED
        BY <3>1 DEF Licensed, Lasting
    <2> QED
      BY <2>1, <2>2 DEF OnlyAnnouncedRequestsAreDecided, Licensed
  <1>5. AnnouncedRequestsKeepTheirButtons'
    <2> SUFFICES ASSUME NEW th \in Thread, NEW r \in announced[th],
                        Channel[th] = "telegram", faults' = 0, r \notin buttons[th]
                 PROVE  \E q \in Proc : turns'[q] = [pc |-> "reply", thread |-> th, keyboard |-> r]
      BY DEF AnnouncedRequestsKeepTheirButtons, threads
    <2>1. PICK q \in Proc : turns[q] = [pc |-> "reply", thread |-> th, keyboard |-> r]
      BY DEF Inv, AnnouncedRequestsKeepTheirButtons
    <2>2. turns[q].pc = "reply"
      BY <2>1
    <2>3. turns'[q] = turns[q]
      BY <1>1, <2>2
    <2> QED
      BY <2>1, <2>3
  <1> QED
    BY <1>2, <1>3, <1>4, <1>5 DEF Inv

\* Such a step that leaves the tasks alone as well.
LEMMA QuietInv ==
    ASSUME Inv, NEW p \in Proc, UNCHANGED <<tasks, threads>>,
           NEW turn \in Invocation \cup {NoInvocation},
           turns' = [turns EXCEPT ![p] = turn], TurnOK(p)',
           faults' \in 0..MaxFaults, faults' = 0 => faults = 0 /\ turns[p].pc # "reply"
    PROVE  Inv'
  <1>1. Lasting /\ Licensed
    BY DEF Lasting, Licensed, tasks, protocol
  <1>2. TypeOK'
    BY DEF Inv, TypeOK, tasks, protocol, threads
  <1> QED
    BY <1>1, <1>2, KeepsInv

-----------------------------------------------------------------------------
(* The steps that run no command *)

LEMMA InvInit == Init => Inv
  <1> SUFFICES ASSUME Init PROVE Inv
    OBVIOUS
  <1>1. TypeOK
    BY FreshType, TaskAssumption, FaultsAssumption DEF Init, TypeOK, Requests!Init
  <1>2. ASSUME NEW th \in Thread PROVE ThreadOK(th)
    BY FreshType DEF Init, ThreadOK
  <1>3. ASSUME NEW p \in Proc PROVE TurnOK(p)
    BY DEF Init, TurnOK, NoInvocation
  <1> QED
    BY <1>1, <1>2, <1>3
    DEF Init, Inv, OnlyAnnouncedRequestsAreDecided, AnnouncedRequestsKeepTheirButtons,
        Requests!Init

LEMMA IdleTurn == NoInvocation.pc = "idle"
  BY DEF NoInvocation

\* A turn that ends with no reply.
LEMMA EndInv ==
    ASSUME Inv, NEW p \in Proc, UNCHANGED <<tasks, threads>>,
           turns' = [turns EXCEPT ![p] = NoInvocation],
           faults' \in 0..MaxFaults, faults' = 0 => faults = 0 /\ turns[p].pc # "reply"
    PROVE  Inv'
  <1>1. turns'[p] = NoInvocation
    BY DEF Inv, TypeOK
  <1>2. TurnOK(p)'
    BY <1>1, IdleTurn DEF TurnOK
  <1> QED
    BY <1>2, QuietInv

LEMMA BeginInv ==
    ASSUME Inv, NEW p \in Proc, NEW th \in Thread, NEW event \in Event, Begin(p, th, event),
           event.type = "confirmation" => event.request \in announced[th]
    PROVE  Inv'
  <1> DEFINE turn == [pc |-> "load", thread |-> th, event |-> event]
  <1>1. turn \in Invocation
    BY DEF Invocation
  <1>2. turns' = [turns EXCEPT ![p] = turn] /\ UNCHANGED <<tasks, threads, faults>>
    BY DEF Begin
  <1>3. turns'[p] = turn
    BY <1>2 DEF Inv, TypeOK
  <1>4. TurnOK(p)'
    BY <1>2, <1>3 DEF TurnOK, threads
  <1>5. faults' \in 0..MaxFaults /\ turns[p].pc # "reply"
    BY <1>2, IdleTurn DEF Inv, TypeOK, Begin
  <1> HIDE DEF turn
  <1> QED
    BY <1>1, <1>2, <1>4, <1>5, QuietInv

LEMMA UserActsInv == ASSUME Inv, NEW p \in Proc, UserActs(p) PROVE Inv'
  <1>1. PICK th \in Thread :
           \/ \E text \in Text : Line(p, th, text) \/ Post(p, th, text)
           \/ \E r \in Request, decision \in Decision : Press(p, th, r, decision)
    BY DEF UserActs
  <1>2. /\ ThreadOK(th) /\ conversation[th] \in Continuation
        /\ announced[th] \subseteq Request /\ buttons[th] \subseteq Request
    BY DEF Inv, TypeOK
  <1>3. ASSUME NEW text \in Text, Begin(p, th, Message(text)) PROVE Inv'
    <2>1. Message(text) \in Event /\ Message(text).type # "confirmation"
      BY MessageType
    <2> QED
      BY <1>3, <2>1, BeginInv
  <1>4. ASSUME NEW r \in announced[th], NEW decision \in Decision, Begin(p, th, Answer(r, decision))
        PROVE  Inv'
    <2>1. r \in Request
      BY <1>2
    <2>2. Answer(r, decision) \in Event /\ Answer(r, decision).request = r
      BY <2>1, AnswerType
    <2> QED
      BY <1>4, <2>2, BeginInv
  <1>5. ASSUME NEW text \in Text, Line(p, th, text) PROVE Inv'
    <2> DEFINE r == conversation[th].confirmation
    <2>1. CASE r # None /\ text.decision # "none"
      <3>1. r \in announced[th]
        BY <1>2, <2>1 DEF ThreadOK
      <3>2. text.decision \in Decision
        BY <2>1, TextAssumption DEF TextType
      <3> QED
        BY <1>4, <1>5, <2>1, <3>1, <3>2 DEF Line
    <2>2. CASE ~(r # None /\ text.decision # "none")
      BY <1>3, <1>5, <2>2 DEF Line
    <2> QED
      BY <2>1, <2>2
  <1>6. ASSUME NEW text \in Text, Post(p, th, text) PROVE Inv'
    BY <1>3, <1>6 DEF Post
  <1>7. ASSUME NEW r \in Request, NEW decision \in Decision, Press(p, th, r, decision) PROVE Inv'
    <2>1. r \in announced[th]
      BY <1>2, <1>7 DEF Press, ThreadOK
    <2> QED
      BY <1>4, <1>7, <2>1 DEF Press
  <1> QED
    BY <1>1, <1>5, <1>6, <1>7

LEMMA LoadInv == ASSUME Inv, NEW p \in Proc, LoadCheckpoint(p) PROVE Inv'
  <1>1. /\ turns[p] \in Loading /\ turns[p].pc = "load"
        /\ UNCHANGED <<tasks, threads, faults>>
    BY TurnTypes DEF Inv, LoadCheckpoint
  <1> DEFINE th == turns[p].thread
             turn == [pc |-> "run", thread |-> th, event |-> turns[p].event,
                      basis |-> conversation[th], fresh |-> TRUE]
  <1>2. th \in Thread /\ turns[p].event \in Event /\ conversation[th] \in Continuation
    BY <1>1 DEF Loading, Inv, TypeOK
  <1>3. turn \in Invocation
    BY <1>2 DEF Invocation
  <1>4. turns' = [turns EXCEPT ![p] = turn] /\ turns'[p] = turn
    BY DEF Inv, TypeOK, LoadCheckpoint
  <1>5. turns[p].event.type = "confirmation" => turns[p].event.request \in announced[th]
    BY <1>1 DEF Inv, TurnOK
  <1>6. TurnOK(p)'
    BY <1>1, <1>4, <1>5 DEF TurnOK, threads
  <1>7. faults' \in 0..MaxFaults
    BY <1>1 DEF Inv, TypeOK
  <1> HIDE DEF turn
  <1> QED
    BY <1>1, <1>3, <1>4, <1>6, <1>7, QuietInv

LEMMA RefuseInv == ASSUME Inv, NEW p \in Proc, RefuseCheckpoint(p) PROVE Inv'
  BY EndInv DEF RefuseCheckpoint, Inv, TypeOK

LEMMA AbandonInv == ASSUME Inv, NEW p \in Proc, Abandon(p) PROVE Inv'
  <1>1. faults' \in 0..MaxFaults /\ faults' # 0
    BY FaultsAssumption DEF Abandon, Inv, TypeOK
  <1> QED
    BY <1>1, EndInv DEF Abandon

\* The keyboard that was due is shown.
LEMMA ReplyInv == ASSUME Inv, NEW p \in Proc, Reply(p) PROVE Inv'
  <1> DEFINE th == turns[p].thread  r == turns[p].keyboard
  <1>1. /\ turns[p] \in Replying /\ turns[p].pc = "reply"
        /\ th \in Thread /\ r \in announced[th] \cup {None}
    BY TurnTypes DEF Inv, TurnOK, Reply, Replying
  <1>2. /\ turns'[p] = NoInvocation /\ turns'[p].pc = "idle"
        /\ \A q \in Proc \ {p} : turns'[q] = turns[q]
    BY IdleTurn DEF Reply, Inv, TypeOK
  <1>3. \A other \in Thread :
           buttons'[other] = IF other = th /\ Channel[th] = "telegram"
                             THEN buttons[th] \cup ({r} \ {None}) ELSE buttons[other]
    BY <1>1 DEF Reply, Inv, TypeOK
  <1>4. TypeOK'
    <2>1. buttons' \in [Thread -> SUBSET Request]
      BY <1>1 DEF Reply, Inv, TypeOK
    <2>2. turns' \in [Proc -> Invocation \cup {NoInvocation}]
      BY DEF Reply, Inv, TypeOK
    <2> QED
      BY <2>1, <2>2 DEF Reply, Inv, TypeOK, tasks, protocol
  <1>5. ASSUME NEW other \in Thread PROVE ThreadOK(other)'
    <2>1. buttons'[other] \subseteq announced[other]
      BY <1>1, <1>3 DEF Inv, ThreadOK
    <2> QED
      BY <2>1 DEF Inv, ThreadOK, Reply, tasks, protocol
  <1>6. ASSUME NEW q \in Proc PROVE TurnOK(q)'
    <2>1. CASE q = p
      BY <1>2, <2>1 DEF TurnOK
    <2>2. CASE q # p
      <3>1. turns'[q] = turns[q] /\ TurnOK(q)
        BY <1>2, <2>2 DEF Inv
      <3>2. UNCHANGED <<status, target, conversation, announced>>
        BY DEF Reply, tasks, protocol
      <3>3. Moves(conversation[turns[q].thread], turns[q].next, turns[q].keyboard)
               => Moves(conversation[turns[q].thread], turns[q].next, turns[q].keyboard)'
        BY <3>1, <3>2 DEF Moves
      <3> QED
        BY <1>2, <3>1, <3>2, <3>3 DEF TurnOK, Unannounced
    <2> QED
      BY <2>1, <2>2
  <1>7. AnnouncedRequestsKeepTheirButtons'
    <2> SUFFICES ASSUME NEW other \in Thread, NEW o \in announced[other],
                        Channel[other] = "telegram", faults = 0, o \notin buttons'[other]
                 PROVE  \E q \in Proc :
                           turns'[q] = [pc |-> "reply", thread |-> other, keyboard |-> o]
      BY DEF AnnouncedRequestsKeepTheirButtons, Reply
    <2>1. o \notin buttons[other]
      BY <1>1, <1>3
    <2>2. PICK q \in Proc : turns[q] = [pc |-> "reply", thread |-> other, keyboard |-> o]
      BY <2>1 DEF Inv, AnnouncedRequestsKeepTheirButtons
    <2>3. o # None
      BY NoneAssumption DEF Inv, TypeOK
    <2>4. q # p
      BY <1>3, <2>2, <2>3
    <2> QED
      BY <1>2, <2>2, <2>4
  <1>8. OnlyAnnouncedRequestsAreDecided'
    BY DEF Inv, OnlyAnnouncedRequestsAreDecided, Reply, tasks, protocol
  <1> QED
    BY <1>4, <1>5, <1>6, <1>7, <1>8 DEF Inv

\* What is saved by a turn that is still fresh.
LEMMA Saved ==
    ASSUME Inv, NEW p \in Proc, SaveCheckpoint(p)
    PROVE  LET th == turns[p].thread
               next == turns[p].next
               keyboard == turns[p].keyboard
           IN  /\ turns[p] \in Saving /\ turns[p].pc = "save"
               /\ th \in Thread /\ next \in Continuation /\ keyboard \in Request \cup {None}
               /\ Moves(conversation[th], next, keyboard)
               /\ conversation' = [conversation EXCEPT ![th] = Reloaded(next)]
               /\ announced' = [announced EXCEPT ![th] = @ \cup ({next.confirmation} \ {None})]
               /\ UNCHANGED <<tasks, buttons, faults>>
               /\ next.confirmation \in announced[th] \cup {None, keyboard}
               /\ keyboard # None => /\ keyboard = next.confirmation
                                     /\ Unannounced(keyboard) /\ status[keyboard] # "none"
  <1> DEFINE th == turns[p].thread  next == turns[p].next  keyboard == turns[p].keyboard
  <1>1. turns[p].pc = "save" /\ turns[p].fresh
    BY DEF SaveCheckpoint
  <1>2. turns[p] \in Saving
    BY <1>1, TurnTypes DEF Inv
  <1>3. TurnOK(p)
    BY DEF Inv
  <1>4. /\ th \in Thread /\ next \in Continuation /\ keyboard \in Request \cup {None}
        /\ Moves(conversation[th], next, keyboard)
        /\ keyboard # None => Unannounced(keyboard) /\ status[keyboard] # "none"
    BY <1>1, <1>2, <1>3 DEF Saving, TurnOK
  <1>5. conversation[th].confirmation \in announced[th] \cup {None}
    BY <1>4 DEF Inv, ThreadOK
  <1>6. next.confirmation \in announced[th] \cup {None, keyboard}
    BY <1>4, <1>5 DEF Moves, SameQuestion, Quiet
  <1>7. keyboard # None => keyboard = next.confirmation
    BY <1>4 DEF Moves
  <1>8. /\ conversation' = [conversation EXCEPT ![th] = Reloaded(next)]
        /\ announced' = [announced EXCEPT ![th] = @ \cup ({next.confirmation} \ {None})]
        /\ UNCHANGED <<tasks, buttons, faults>>
    BY DEF SaveCheckpoint
  <1> QED
    BY <1>1, <1>2, <1>4, <1>6, <1>7, <1>8

LEMMA OvertakenType ==
    ASSUME TypeOK, NEW p \in Proc, NEW q \in Proc
    PROVE  /\ Overtaken(p)[q] \in Invocation \cup {NoInvocation}
           /\ Overtaken(p)[q].pc = turns[q].pc
           /\ turns[q].pc \notin {"run", "save"} => Overtaken(p)[q] = turns[q]
           /\ turns[q].pc = "run" => /\ Overtaken(p)[q] \in Running
                                     /\ Overtaken(p)[q].thread = turns[q].thread
                                     /\ Overtaken(p)[q].event = turns[q].event
           /\ turns[q].pc = "save" => /\ Overtaken(p)[q] \in Saving
                                      /\ Overtaken(p)[q].thread = turns[q].thread
                                      /\ Overtaken(p)[q].keyboard = turns[q].keyboard
           /\ \/ Overtaken(p)[q] = turns[q] /\ (q # p => turns[q].pc \notin {"run", "save"}
                                                         \/ turns[q].thread # turns[p].thread)
              \/ q # p /\ turns[q].pc \in {"run", "save"} /\ Overtaken(p)[q].fresh = FALSE
  <1> DEFINE other == q # p /\ turns[q].pc \in {"run", "save"} /\ turns[q].thread = turns[p].thread
  <1>1. Overtaken(p)[q] = IF other THEN [turns[q] EXCEPT !.fresh = FALSE] ELSE turns[q]
    BY DEF Overtaken
  <1>2. CASE ~other
    BY <1>1, <1>2, TurnTypes DEF TypeOK
  <1>3. CASE other /\ turns[q].pc = "run"
    <2>1. turns[q] \in Running
      BY <1>3, TurnTypes
    <2>2. Overtaken(p)[q] = [turns[q] EXCEPT !.fresh = FALSE]
      BY <1>1, <1>3
    <2>3. [turns[q] EXCEPT !.fresh = FALSE] \in Running
      BY <2>1 DEF Running
    <2>4. Running \subseteq Invocation
      BY DEF Running, Invocation
    <2> QED
      BY <1>3, <2>1, <2>2, <2>3, <2>4 DEF Running
  <1>4. CASE other /\ turns[q].pc = "save"
    <2>1. turns[q] \in Saving
      BY <1>4, TurnTypes
    <2>2. Overtaken(p)[q] = [turns[q] EXCEPT !.fresh = FALSE]
      BY <1>1, <1>4
    <2>3. [turns[q] EXCEPT !.fresh = FALSE] \in Saving
      BY <2>1 DEF Saving
    <2>4. Saving \subseteq Invocation
      BY DEF Saving, Invocation
    <2> QED
      BY <1>4, <2>1, <2>2, <2>3, <2>4 DEF Saving
  <1> QED
    BY <1>2, <1>3, <1>4

\* The turns of the thread that are still to save are overtaken.
LEMMA SavedTurns ==
    ASSUME Inv, NEW p \in Proc, SaveCheckpoint(p)
    PROVE  /\ turns'[p] = [pc |-> "reply", thread |-> turns[p].thread,
                           keyboard |-> turns[p].keyboard]
           /\ turns'[p].pc = "reply"
           /\ \A q \in Proc \ {p} : turns'[q] = Overtaken(p)[q]
           /\ turns' \in [Proc -> Invocation \cup {NoInvocation}]
  <1> DEFINE turn == [pc |-> "reply", thread |-> turns[p].thread, keyboard |-> turns[p].keyboard]
  <1>1. turns' = [Overtaken(p) EXCEPT ![p] = turn]
    BY DEF SaveCheckpoint
  <1>2. turn \in Invocation
    BY Saved DEF Saving, Invocation
  <1>3. DOMAIN Overtaken(p) = Proc
    BY DEF Overtaken
  <1>4. Overtaken(p) \in [Proc -> Invocation \cup {NoInvocation}]
    <2>1. \A q \in Proc : Overtaken(p)[q] \in Invocation \cup {NoInvocation}
      BY OvertakenType DEF Inv
    <2> QED
      BY <2>1 DEF Overtaken
  <1> HIDE DEF turn
  <1>5. turns'[p] = turn /\ \A q \in Proc \ {p} : turns'[q] = Overtaken(p)[q]
    BY <1>1, <1>4
  <1>6. turns' \in [Proc -> Invocation \cup {NoInvocation}]
    BY <1>1, <1>2, <1>4
  <1>7. turn.pc = "reply"
    BY DEF turn
  <1> QED
    BY <1>5, <1>6, <1>7 DEF turn

LEMMA SavedOthers ==
    ASSUME Inv, NEW p \in Proc, SaveCheckpoint(p), NEW q \in Proc \ {p}
    PROVE  /\ turns'[q].pc = turns[q].pc
           /\ turns[q].pc \notin {"run", "save"} => turns'[q] = turns[q]
           /\ turns[q].pc = "run" => /\ turns'[q].thread = turns[q].thread
                                     /\ turns'[q].event = turns[q].event
           /\ turns[q].pc = "save" => /\ turns'[q].thread = turns[q].thread
                                      /\ turns'[q].keyboard = turns[q].keyboard
           /\ turns[q].pc \in {"run", "save"} /\ turns'[q].fresh
                 => turns'[q] = turns[q] /\ turns[q].thread # turns[p].thread
  <1>1. turns'[q] = Overtaken(p)[q]
    BY SavedTurns
  <1>2. TypeOK /\ q \in Proc /\ q # p
    BY DEF Inv
  <1> DEFINE turn == Overtaken(p)[q]
  <1>3. /\ turn.pc = turns[q].pc
        /\ turns[q].pc \notin {"run", "save"} => turn = turns[q]
        /\ turns[q].pc = "run" => turn.thread = turns[q].thread /\ turn.event = turns[q].event
        /\ turns[q].pc = "save" => turn.thread = turns[q].thread /\ turn.keyboard = turns[q].keyboard
        /\ \/ turn = turns[q] /\ (turns[q].pc \notin {"run", "save"}
                                   \/ turns[q].thread # turns[p].thread)
           \/ turn.fresh = FALSE
    BY <1>2, OvertakenType
  <1> HIDE DEF turn
  <1>4. turns'[q] = turn
    BY <1>1 DEF turn
  <1> QED
    BY <1>3, <1>4

LEMMA SavedThread ==
    ASSUME Inv, NEW p \in Proc, SaveCheckpoint(p), NEW th \in Thread
    PROVE  ThreadOK(th)'
  <1> DEFINE here == turns[p].thread  next == turns[p].next  keyboard == turns[p].keyboard
  <1>0. /\ here \in Thread /\ next \in Continuation /\ keyboard \in Request \cup {None}
        /\ Moves(conversation[here], next, keyboard)
        /\ conversation' = [conversation EXCEPT ![here] = Reloaded(next)]
        /\ announced' = [announced EXCEPT ![here] = @ \cup ({next.confirmation} \ {None})]
        /\ UNCHANGED <<tasks, buttons, faults>>
        /\ next.confirmation \in announced[here] \cup {None, keyboard}
        /\ keyboard # None => /\ keyboard = next.confirmation
                              /\ Unannounced(keyboard) /\ status[keyboard] # "none"
    BY Saved
  <1> HIDE DEF next, keyboard, here
  <1>1. OneQuestion(Reloaded(next))
    BY <1>0, ReloadedType DEF Moves, OneQuestion
  <1>2. Reloaded(next).confirmation = next.confirmation
    BY <1>0, ReloadedType
  <1>3. \A o \in Thread :
           /\ conversation'[o] = IF o = here THEN Reloaded(next) ELSE conversation[o]
           /\ announced'[o] = IF o = here THEN announced[o] \cup ({next.confirmation} \ {None})
                              ELSE announced[o]
    BY <1>0 DEF Inv, TypeOK
  <1>4. \A o \in Thread : ThreadOK(o)
    BY DEF Inv
  <1>5. OneQuestion(conversation'[th])
    BY <1>1, <1>3, <1>4 DEF ThreadOK
  <1>6. conversation'[th].confirmation \in announced'[th] \cup {None}
    <2>1. CASE th = here
      BY <1>2, <1>3, <2>1
    <2>2. CASE th # here
      BY <1>3, <1>4, <2>2 DEF ThreadOK
    <2> QED
      BY <2>1, <2>2
  <1>7. buttons'[th] \subseteq announced'[th]
    BY <1>0, <1>3, <1>4 DEF ThreadOK
  <1>8. \A r \in announced'[th] : status'[r] # "none"
    BY <1>0, <1>3, <1>4 DEF ThreadOK, tasks, protocol
  <1>9. \A other \in Thread \ {th} : announced'[th] \cap announced'[other] = {}
    BY <1>0, <1>3, <1>4 DEF ThreadOK, Unannounced
  <1> QED
    BY <1>5, <1>6, <1>7, <1>8, <1>9 DEF ThreadOK, OneQuestion

LEMMA SavedTurn ==
    ASSUME Inv, NEW p \in Proc, SaveCheckpoint(p), NEW q \in Proc \ {p}
    PROVE  TurnOK(q)'
  <1> DEFINE here == turns[p].thread  next == turns[p].next  keyboard == turns[p].keyboard
  <1>0. /\ here \in Thread /\ next \in Continuation /\ keyboard \in Request \cup {None}
        /\ turns[p].pc = "save"
        /\ conversation' = [conversation EXCEPT ![here] = Reloaded(next)]
        /\ announced' = [announced EXCEPT ![here] = @ \cup ({next.confirmation} \ {None})]
        /\ UNCHANGED <<tasks, buttons, faults>>
        /\ next.confirmation \in announced[here] \cup {None, keyboard}
    BY Saved
  <1>1. /\ turns'[q].pc = turns[q].pc
        /\ turns[q].pc \notin {"run", "save"} => turns'[q] = turns[q]
        /\ turns[q].pc = "run" => /\ turns'[q].thread = turns[q].thread
                                  /\ turns'[q].event = turns[q].event
        /\ turns[q].pc = "save" => /\ turns'[q].thread = turns[q].thread
                                   /\ turns'[q].keyboard = turns[q].keyboard
        /\ turns[q].pc \in {"run", "save"} /\ turns'[q].fresh
              => turns'[q] = turns[q] /\ turns[q].thread # turns[p].thread
    BY SavedOthers
  <1> HIDE DEF next, keyboard
  <1>2. \A o \in Thread :
           /\ o # here => conversation'[o] = conversation[o]
           /\ announced'[o] = IF o = here THEN announced[o] \cup ({next.confirmation} \ {None})
                              ELSE announced[o]
    BY <1>0 DEF Inv, TypeOK
  <1>3. TurnOK(q) /\ TypeOK /\ UNCHANGED <<status, target>>
    BY <1>0 DEF Inv, tasks, protocol
  <1>4. turns[q].pc = "run" => turns[q] \in Running
    BY <1>3, TurnTypes
  <1>5. turns[q].pc = "save" => turns[q] \in Saving
    BY <1>3, TurnTypes
  <1>7. CASE turns[q].pc \notin {"run", "save"}
    <2>1. turns'[q] = turns[q]
      BY <1>1, <1>7
    <2>2. turns[q].pc \in {"load", "reply"} => turns[q].thread \in Thread
      BY <1>3, TurnTypes DEF Loading, Replying
    <2> QED
      BY <1>2, <1>3, <1>7, <2>1, <2>2 DEF TurnOK
  <1>8. CASE turns[q].pc = "run"
    <2>1. turns[q].thread \in Thread
      BY <1>4, <1>8 DEF Running
    <2>2. turns'[q].event = turns[q].event /\ turns'[q].thread = turns[q].thread
      BY <1>1, <1>8
    <2>3. turns'[q].fresh => turns'[q].basis = conversation'[turns[q].thread]
      BY <1>1, <1>2, <1>3, <1>8, <2>1 DEF TurnOK
    <2> QED
      BY <1>1, <1>2, <1>3, <1>8, <2>1, <2>2, <2>3 DEF TurnOK
  <1>9. CASE turns[q].pc = "save"
    <2>1. turns[q].thread \in Thread /\ turns[q].keyboard \in Request \cup {None}
      BY <1>5, <1>9 DEF Saving
    <2>2. turns'[q].thread = turns[q].thread /\ turns'[q].keyboard = turns[q].keyboard
      BY <1>1, <1>9
    <2>3. turns'[q].fresh
             => Moves(conversation[turns[q].thread], turns[q].next, turns[q].keyboard)'
      <3> SUFFICES ASSUME turns'[q].fresh
                   PROVE  Moves(conversation[turns[q].thread], turns[q].next, turns[q].keyboard)'
        OBVIOUS
      <3>1. turns'[q] = turns[q] /\ turns[q].thread # here
        BY <1>1, <1>9
      <3>2. Moves(conversation[turns[q].thread], turns[q].next, turns[q].keyboard)
        BY <1>3, <1>9, <3>1 DEF TurnOK
      <3>3. conversation'[turns[q].thread] = conversation[turns[q].thread]
        BY <1>2, <2>1, <3>1
      <3> QED
        BY <1>3, <3>1, <3>2, <3>3 DEF Moves
    <2>4. ASSUME turns[q].keyboard # None
          PROVE  /\ status[turns[q].keyboard] # "none"
                 /\ Unannounced(turns[q].keyboard)'
                 /\ \A o \in Proc \ {q} : turns'[o].pc = "save"
                                             => turns'[o].keyboard # turns[q].keyboard
      <3>1. /\ status[turns[q].keyboard] # "none" /\ Unannounced(turns[q].keyboard)
            /\ \A o \in Proc \ {q} : turns[o].pc = "save" => turns[o].keyboard # turns[q].keyboard
        BY <1>3, <1>9, <2>4 DEF TurnOK
      <3>2. turns[q].keyboard # keyboard
        BY <1>0, <3>1 DEF keyboard
      <3>3. turns[q].keyboard # next.confirmation
        BY <1>0, <2>4, <3>1, <3>2 DEF Unannounced
      <3>4. \A o \in Thread : turns[q].keyboard \notin announced'[o]
        BY <1>2, <3>1, <3>3 DEF Unannounced
      <3>5. ASSUME NEW o \in Proc \ {q}, turns'[o].pc = "save"
            PROVE  turns'[o].keyboard # turns[q].keyboard
        <4>1. turns'[p].pc = "reply"
          BY SavedTurns
        <4>2. o \in Proc \ {p}
          BY <3>5, <4>1
        <4>3. turns[o].pc = "save" /\ turns'[o].keyboard = turns[o].keyboard
          BY <3>5, <4>2, SavedOthers
        <4> QED
          BY <3>1, <4>3
      <3>6. Unannounced(turns[q].keyboard)'
        BY <3>4, <2>2 DEF Unannounced
      <3> QED
        BY <3>1, <3>5, <3>6
    <2> QED
      BY <1>1, <1>3, <1>9, <2>2, <2>3, <2>4 DEF TurnOK
  <1> QED
    BY <1>7, <1>8, <1>9

LEMMA SaveInv == ASSUME Inv, NEW p \in Proc, SaveCheckpoint(p) PROVE Inv'
  <1> DEFINE th == turns[p].thread  next == turns[p].next  keyboard == turns[p].keyboard
  <1>0. /\ th \in Thread /\ next \in Continuation /\ keyboard \in Request \cup {None}
        /\ turns[p].pc = "save"
        /\ conversation' = [conversation EXCEPT ![th] = Reloaded(next)]
        /\ announced' = [announced EXCEPT ![th] = @ \cup ({next.confirmation} \ {None})]
        /\ UNCHANGED <<tasks, buttons, faults>>
        /\ next.confirmation \in announced[th] \cup {None, keyboard}
        /\ keyboard # None => keyboard = next.confirmation
    BY Saved
  <1>1. /\ turns'[p] = [pc |-> "reply", thread |-> th, keyboard |-> keyboard]
        /\ \A q \in Proc \ {p} : turns'[q] = Overtaken(p)[q]
        /\ turns' \in [Proc -> Invocation \cup {NoInvocation}]
    BY SavedTurns
  <1> HIDE DEF next, keyboard, th
  <1>2. next.confirmation \in Request \cup {None} /\ Reloaded(next) \in Continuation
    BY <1>0, ReloadedType DEF Continuation
  <1>3. announced'[th] = announced[th] \cup ({next.confirmation} \ {None})
        /\ \A o \in Thread \ {th} : announced'[o] = announced[o]
    BY <1>0 DEF Inv, TypeOK
  <1>4. TypeOK'
    BY <1>0, <1>1, <1>2 DEF Inv, TypeOK, tasks, protocol
  <1>5. TurnOK(p)'
    BY <1>0, <1>1, <1>3 DEF TurnOK
  <1>6. OnlyAnnouncedRequestsAreDecided'
    BY <1>0, <1>3 DEF Inv, OnlyAnnouncedRequestsAreDecided, tasks, protocol
  <1>7. AnnouncedRequestsKeepTheirButtons'
    <2> SUFFICES ASSUME NEW o \in Thread, NEW r \in announced'[o],
                        Channel[o] = "telegram", faults = 0, r \notin buttons[o]
                 PROVE  \E q \in Proc : turns'[q] = [pc |-> "reply", thread |-> o, keyboard |-> r]
      BY <1>0 DEF AnnouncedRequestsKeepTheirButtons
    <2>1. CASE r \in announced[o]
      <3>1. PICK q \in Proc : turns[q] = [pc |-> "reply", thread |-> o, keyboard |-> r]
        BY <2>1 DEF Inv, AnnouncedRequestsKeepTheirButtons
      <3>2. turns[q].pc = "reply"
        BY <3>1
      <3>3. q # p /\ turns'[q] = turns[q]
        <4>1. q # p
          BY <1>0, <3>2
        <4> QED
          BY <3>2, <4>1, SavedOthers
      <3> QED
        BY <3>1, <3>3
    <2>2. CASE r \notin announced[o]
      <3>1. o = th /\ r = keyboard
        BY <1>0, <1>3, <2>2
      <3> QED
        BY <1>1, <3>1
    <2> QED
      BY <2>1, <2>2
  <1> QED
    BY <1>4, <1>5, <1>6, <1>7, SavedThread, SavedTurn DEF Inv

-----------------------------------------------------------------------------
(* What the commands do to the tasks and the requests *)

Tables == /\ present \subseteq TaskId /\ gone \subseteq TaskId /\ completed \subseteq TaskId
          /\ status \in [Request -> {"none", "pending", "cancelled", "expired", "consumed"}]
          /\ target \in [Request -> TaskId \cup {None}]
          /\ \A r \in Request : status[r] # "none" => target[r] \in TaskId

\* A command that makes no request.
Settles == Tables' /\ Lasting /\ Licensed

LEMMA UntouchedSettles == ASSUME Inv, UNCHANGED tasks PROVE Settles
  BY DEF Inv, TypeOK, Settles, Tables, Lasting, Licensed, tasks, protocol

LEMMA CompleteSettles == ASSUME Inv, NEW x, Complete(x) PROVE Settles
  BY DEF Inv, TypeOK, Complete, Active, Settles, Tables, Lasting, Licensed, protocol

LEMMA AddSettles ==
    ASSUME Inv, NEW x \in TaskId, Requests!Add(x), UNCHANGED completed PROVE Settles
  BY DEF Inv, TypeOK, Requests!Add, Settles, Tables, Lasting, Licensed

LEMMA ResolveSettles ==
    ASSUME Inv, NEW r \in Request, NEW decision, Resolve(r, decision),
           \E th \in Thread : r \in announced[th]
    PROVE  Settles
  <1>1. Tables
    BY DEF Inv, TypeOK, Tables
  <1>2. CASE status[r] # "pending" /\ UNCHANGED protocol
    BY <1>1, <1>2 DEF Resolve, Settles, Tables, Lasting, Licensed, protocol
  <1>3. ASSUME NEW how \in {"cancelled", "expired", "consumed"}, Requests!Resolve(r, how),
               \/ UNCHANGED <<present, gone>>
               \/ /\ how = "consumed" /\ target[r] \in TaskId
                  /\ present' = present \ {target[r]} /\ gone' = gone \cup {target[r]}
        PROVE  Settles
    <2>1. /\ status[r] = "pending" /\ status' = [status EXCEPT ![r] = how]
          /\ target' = target /\ completed' = completed
      BY <1>3 DEF Requests!Resolve, Resolve
    <2> QED
      BY <1>1, <1>3, <2>1 DEF Settles, Tables, Lasting, Licensed
  <1>4. CASE Requests!Expire(r)
    BY <1>3, <1>4 DEF Requests!Expire
  <1>5. CASE Requests!Cancel(r)
    BY <1>3, <1>5 DEF Requests!Cancel
  <1>6. CASE target[r] \in Active /\ Requests!Execute(r)
    BY <1>1, <1>3, <1>6 DEF Requests!Execute, Active, Tables
  <1>7. CASE Requests!Fail(r)
    BY <1>3, <1>7 DEF Requests!Fail
  <1> QED
    BY <1>2, <1>4, <1>5, <1>6, <1>7 DEF Resolve

LEMMA AskMakes ==
    ASSUME Inv, NEW r \in Request, NEW x \in TaskId, Requests!Ask(r, x), UNCHANGED completed
    PROVE  /\ Settles
           /\ status[r] = "none" /\ status'[r] # "none" /\ target'[r] = x
  BY DEF Inv, TypeOK, Requests!Ask, Settles, Tables, Lasting, Licensed

-----------------------------------------------------------------------------
(* The steps of the Graph *)

\* What a turn that runs leaves for the save.
LEMMA LeaveType ==
    ASSUME Inv, Tables', NEW p \in Proc, turns[p].pc = "run",
           NEW next \in Continuation, Leave(p, next)
    PROVE  LET turn == [pc |-> "save", thread |-> turns[p].thread, next |-> next,
                        fresh |-> turns[p].fresh,
                        keyboard |-> IF turns[p].basis.confirmation = None
                                     THEN next.confirmation ELSE None]
           IN  /\ turns' = [turns EXCEPT ![p] = turn] /\ turns'[p] = turn /\ turn.pc = "save"
               /\ TypeOK' /\ UNCHANGED <<threads, faults>>
  <1>1. turns[p] \in Running
    BY TurnTypes DEF Inv
  <1> DEFINE turn == [pc |-> "save", thread |-> turns[p].thread, next |-> next,
                      fresh |-> turns[p].fresh,
                      keyboard |-> IF turns[p].basis.confirmation = None
                                   THEN next.confirmation ELSE None]
  <1>2. turn \in Invocation /\ turn.pc = "save"
    BY <1>1 DEF Running, Invocation, Continuation
  <1>3. turns' = [turns EXCEPT ![p] = turn] /\ UNCHANGED <<threads, faults>>
    BY DEF Leave
  <1> HIDE DEF turn
  <1>4. TypeOK' /\ turns'[p] = turn
    BY <1>2, <1>3 DEF Inv, TypeOK, Tables, threads
  <1> QED
    BY <1>2, <1>3, <1>4 DEF turn

\* A fresh turn knows what its thread asks.
LEMMA FreshBasis ==
    ASSUME Inv, NEW p \in Proc, turns[p].pc = "run"
    PROVE  /\ turns[p] \in Running /\ turns[p].thread \in Thread
           /\ turns[p].basis \in Continuation /\ turns[p].event \in Event
           /\ turns[p].fresh => /\ turns[p].basis = conversation[turns[p].thread]
                                /\ OneQuestion(turns[p].basis)
  <1>1. turns[p] \in Running
    BY TurnTypes DEF Inv
  <1>2. turns[p].thread \in Thread
    BY <1>1 DEF Running
  <1>3. ThreadOK(turns[p].thread) /\ TurnOK(p)
    BY <1>2 DEF Inv
  <1>4. turns[p].fresh => OneQuestion(turns[p].basis)
    BY <1>3 DEF ThreadOK, TurnOK
  <1> QED
    BY <1>1, <1>3, <1>4 DEF Running, TurnOK

\* The turn makes no request.
LEMMA LeaveInv ==
    ASSUME Inv, Settles, NEW p \in Proc, turns[p].pc = "run",
           NEW next \in Continuation, Leave(p, next),
           turns[p].basis.confirmation # None \/ next.confirmation = None,
           \/ SameQuestion(turns[p].basis, next)
           \/ OneQuestion(turns[p].basis) => OneQuestion(next) /\ Quiet(next)
           \/ /\ Quiet(turns[p].basis) /\ OneQuestion(next) /\ next.confirmation = None
              /\ \E x, y \in OfferedBy(next) : x # y
    PROVE  Inv'
  <1> DEFINE th == turns[p].thread  c == turns[p].basis
             turn == [pc |-> "save", thread |-> turns[p].thread, next |-> next,
                      fresh |-> turns[p].fresh,
                      keyboard |-> IF turns[p].basis.confirmation = None
                                   THEN next.confirmation ELSE None]
  <1>1. /\ turns' = [turns EXCEPT ![p] = turn] /\ turns'[p] = turn /\ turn.pc = "save"
        /\ TypeOK' /\ UNCHANGED <<threads, faults>>
    BY LeaveType DEF Settles
  <1>2. turn.thread = th /\ turn.next = next /\ turn.fresh = turns[p].fresh /\ turn.keyboard = None
    OBVIOUS
  <1>3. turns[p].fresh => /\ c = conversation[th] /\ OneQuestion(c)
    BY FreshBasis
  <1>4. turns[p].fresh => OneQuestion(next)
    BY <1>3 DEF SameQuestion, OneQuestion
  <1>5. turns[p].fresh => Moves(c, next, None)
    BY <1>3, <1>4 DEF Moves
  <1> HIDE DEF turn
  <1>6. TurnOK(p)'
    <2>1. /\ turns'[p].thread = th /\ turns'[p].next = next /\ turns'[p].keyboard = None
          /\ turns'[p].fresh = turns[p].fresh /\ turns'[p].pc = "save"
      BY <1>1, <1>2
    <2>2. ASSUME turns'[p].fresh
          PROVE  Moves(conversation[turns[p].thread], turns[p].next, turns[p].keyboard)'
      <3>1. Moves(c, next, None) /\ conversation'[turns'[p].thread] = c
        BY <1>1, <1>3, <1>5, <2>1, <2>2 DEF threads
      <3> QED
        BY <2>1, <3>1 DEF Moves
    <2> QED
      BY <2>1, <2>2 DEF TurnOK
  <1> QED
    BY <1>1, <1>6, KeepsInv DEF Settles

\* The turn makes the request r.
LEMMA LeaveAskingInv ==
    ASSUME Inv, NEW p \in Proc, turns[p].pc = "run",
           NEW next \in Continuation, Leave(p, next),
           NEW r \in Request, NEW x \in TaskId, Requests!Ask(r, x), UNCHANGED completed,
           turns[p].basis.confirmation = None, next.confirmation = r,
           turns[p].fresh => OneQuestion(next),
           \/ Quiet(turns[p].basis)
           \/ turns[p].basis.update = None /\ turns[p].basis.delete /\ x \in OfferedBy(turns[p].basis)
    PROVE  Inv'
  <1> DEFINE th == turns[p].thread  c == turns[p].basis
             turn == [pc |-> "save", thread |-> turns[p].thread, next |-> next,
                      fresh |-> turns[p].fresh,
                      keyboard |-> IF turns[p].basis.confirmation = None
                                   THEN next.confirmation ELSE None]
  <1>1. Settles /\ status[r] = "none" /\ status'[r] # "none" /\ target'[r] = x
    BY AskMakes
  <1>2. /\ turns' = [turns EXCEPT ![p] = turn] /\ turns'[p] = turn /\ turn.pc = "save"
        /\ TypeOK' /\ UNCHANGED <<threads, faults>>
    BY <1>1, LeaveType DEF Settles
  <1>3. turn.thread = th /\ turn.next = next /\ turn.fresh = turns[p].fresh /\ turn.keyboard = r
    OBVIOUS
  <1>4. r # None
    BY NoneAssumption
  <1>5. Unannounced(r)
    BY <1>1 DEF Inv, ThreadOK, Unannounced
  <1> HIDE DEF turn
  <1>6. /\ turns'[p].thread = th /\ turns'[p].next = next /\ turns'[p].keyboard = r
        /\ turns'[p].fresh = turns[p].fresh /\ turns'[p].pc = "save"
    BY <1>2, <1>3
  <1>7. ASSUME turns'[p].fresh
        PROVE  Moves(conversation[turns[p].thread], turns[p].next, turns[p].keyboard)'
    <2>1. conversation'[turns'[p].thread] = c /\ OneQuestion(next)
      BY <1>2, <1>6, <1>7, FreshBasis DEF threads
    <2> QED
      BY <1>1, <1>4, <1>6, <2>1 DEF Moves
  <1>8. ASSUME NEW q \in Proc \ {p}, turns'[q].pc = "save"
        PROVE  turns'[q].keyboard # r
    <2>1. turns'[q] = turns[q] /\ TurnOK(q)
      BY <1>2 DEF Inv, TypeOK
    <2> QED
      BY <1>1, <1>4, <1>8, <2>1 DEF TurnOK
  <1>9. TurnOK(p)'
    <2>1. status'[turns'[p].keyboard] # "none" /\ Unannounced(turns[p].keyboard)'
      BY <1>1, <1>2, <1>5, <1>6 DEF Unannounced, threads
    <2> QED
      BY <1>6, <1>7, <1>8, <2>1 DEF TurnOK
  <1> QED
    BY <1>1, <1>2, <1>9, KeepsInv DEF Settles

LEMMA Routed ==
    ASSUME Inv, NEW p \in Proc, turns[p].pc = "run"
    PROVE  /\ Route(p) = "confirmation" => turns[p].event.type = "confirmation"
           /\ Route(p) \in {"pending_choice", "task"} => /\ turns[p].event.type = "message"
                                                        /\ turns[p].basis.confirmation = None
           /\ Route(p) = "task" => turns[p].basis.candidates = <<>>
  <1>1. SameQuestion(turns[p].basis, Loaded(p))
    BY LoadedType DEF Inv
  <1>2. turns[p].event.type \in {"message", "confirmation"}
    BY FreshBasis, EventTypes
  <1> QED
    BY <1>1, <1>2 DEF Route, SameQuestion

\* The turn leaves the thread's question as it was.
LEMMA SameInv ==
    ASSUME Inv, Settles, NEW p \in Proc, turns[p].pc = "run", Leave(p, Loaded(p))
    PROVE  Inv'
  <1>1. Loaded(p) \in Continuation /\ SameQuestion(turns[p].basis, Loaded(p))
    BY LoadedType DEF Inv
  <1>2. turns[p].basis.confirmation # None \/ Loaded(p).confirmation = None
    BY <1>1 DEF SameQuestion
  <1> QED
    BY <1>1, <1>2, LeaveInv

LEMMA ResolveConfirmationInv ==
    ASSUME Inv, NEW p \in Proc, ResolveConfirmation(p) PROVE Inv'
  <1> DEFINE c == turns[p].basis  r == turns[p].event.request
             next == [Loaded(p) EXCEPT !.flow = "task", !.confirmation = None]
  <1>1. turns[p].pc = "run" /\ Route(p) = "confirmation" /\ Leave(p, next)
        /\ Resolve(r, turns[p].event.decision)
    BY DEF ResolveConfirmation, At
  <1>2. /\ turns[p].event.type = "confirmation" /\ turns[p].event \in Event
        /\ turns[p].thread \in Thread
    BY <1>1, Routed, FreshBasis
  <1>3. r \in announced[turns[p].thread] /\ r \in Request
    BY <1>1, <1>2, EventTypes DEF Inv, TurnOK
  <1>4. Settles
    BY <1>1, <1>2, <1>3, ResolveSettles
  <1>5. Loaded(p) \in Continuation /\ SameQuestion(c, Loaded(p))
    BY <1>1, LoadedType DEF Inv
  <1>6. /\ next \in Continuation /\ next.confirmation = None
        /\ next.candidates = c.candidates /\ next.update = c.update /\ next.delete = c.delete
    BY <1>5 DEF Continuation, Flow, Topic, SameQuestion
  <1> HIDE DEF next
  <1>7. CASE c.confirmation = None
    <2>1. SameQuestion(c, next)
      BY <1>6, <1>7 DEF SameQuestion
    <2> QED
      BY <1>1, <1>4, <1>6, <2>1, LeaveInv
  <1>8. CASE c.confirmation # None
    <2>1. OneQuestion(c) => OneQuestion(next) /\ Quiet(next)
      BY <1>6, <1>8 DEF OneQuestion, Quiet
    <2> QED
      BY <1>1, <1>4, <1>6, <2>1, LeaveInv
  <1> QED
    BY <1>7, <1>8

\* What is left when the choice is made.
LEMMA SettledType ==
    ASSUME NEW c \in Continuation
    PROVE  /\ Settled(c) \in Continuation
           /\ Settled(c).confirmation = c.confirmation
           /\ Settled(c).candidates = <<>> /\ Settled(c).update = None /\ ~Settled(c).delete
  <1>1. <<>> \in Seq(TaskId)
    OBVIOUS
  <1> QED
    BY <1>1 DEF Settled, Continuation

LEMMA SettledInv ==
    ASSUME Inv, Settles, NEW p \in Proc, At(p, "pending_choice"), Leave(p, Settled(Loaded(p)))
    PROVE  Inv'
  <1>1. turns[p].pc = "run" /\ turns[p].basis.confirmation = None
    BY Routed DEF At
  <1>2. Loaded(p) \in Continuation /\ Loaded(p).confirmation = None
    BY <1>1, LoadedType DEF Inv, SameQuestion
  <1>3. /\ Settled(Loaded(p)) \in Continuation
        /\ OneQuestion(Settled(Loaded(p))) /\ Quiet(Settled(Loaded(p)))
    BY <1>2, SettledType DEF OneQuestion, Quiet
  <1>4. Settled(Loaded(p)).confirmation = None
    BY <1>3 DEF Quiet
  <1> QED
    BY <1>1, <1>3, <1>4, LeaveInv

\* A number or a title selects one of the candidates.
LEMMA SelectedIsOffered ==
    ASSUME NEW text, NEW candidates \in Seq(TaskId), SelectTaskCandidate(text, candidates) # None
    PROVE  SelectTaskCandidate(text, candidates) \in {candidates[i] : i \in 1..Len(candidates)}
  <1> DEFINE named == {i \in 1..Len(candidates) : TitleOf[candidates[i]] \in text.titles}
  <1>1. (\E i \in named : named = {i}) => (CHOOSE i \in named : TRUE) \in 1..Len(candidates)
    OBVIOUS
  <1> QED
    BY <1>1 DEF SelectTaskCandidate

LEMMA DeleteChosenInv == ASSUME Inv, NEW p \in Proc, DeleteChosen(p) PROVE Inv'
  <1> DEFINE c == turns[p].basis
  <1>1. /\ turns[p].pc = "run" /\ At(p, "pending_choice") /\ UNCHANGED completed
        /\ Chosen(p) # None /\ Loaded(p).update = None /\ Loaded(p).delete
    BY DEF DeleteChosen, At
  <1>2. c.confirmation = None /\ c \in Continuation
    BY <1>1, Routed, FreshBasis DEF At
  <1>3. Loaded(p) \in Continuation /\ SameQuestion(c, Loaded(p))
    BY <1>1, LoadedType DEF Inv
  <1>4. /\ Settled(Loaded(p)) \in Continuation /\ Settled(Loaded(p)).confirmation = None
        /\ Settled(Loaded(p)).candidates = <<>> /\ Settled(Loaded(p)).update = None
        /\ ~Settled(Loaded(p)).delete
    BY <1>2, <1>3, SettledType DEF SameQuestion
  <1>5. CASE /\ Chosen(p) \notin Active /\ UNCHANGED protocol
             /\ Leave(p, [Settled(Loaded(p)) EXCEPT !.confirmation = None])
    <2>1. [Settled(Loaded(p)) EXCEPT !.confirmation = None] = Settled(Loaded(p))
      BY <1>4 DEF Continuation
    <2>2. Settles
      BY <1>1, <1>5, UntouchedSettles DEF tasks
    <2> QED
      BY <1>1, <1>5, <2>1, <2>2, SettledInv
  <1>6. ASSUME NEW r \in Request, Chosen(p) \in Active, Requests!Ask(r, Chosen(p)),
               Leave(p, [Settled(Loaded(p)) EXCEPT !.confirmation = r])
        PROVE  Inv'
    <2> DEFINE next == [Settled(Loaded(p)) EXCEPT !.confirmation = r]
    <2>1. /\ next \in Continuation /\ next.confirmation = r /\ next.candidates = <<>>
          /\ next.update = None /\ ~next.delete
      BY <1>4 DEF Continuation
    <2>2. Chosen(p) \in TaskId
      BY <1>6 DEF Active, Inv, TypeOK
    <2>3. Chosen(p) \in OfferedBy(c)
      <3>1. Loaded(p).candidates = c.candidates /\ c.candidates \in Seq(TaskId)
        BY <1>2, <1>3 DEF SameQuestion, Continuation
      <3> QED
        BY <1>1, <3>1, SelectedIsOffered DEF Chosen, OfferedBy
    <2>4. c.update = None /\ c.delete
      BY <1>1, <1>3 DEF SameQuestion
    <2> HIDE DEF next
    <2>5. Leave(p, next)
      BY <1>6 DEF next
    <2>6. OneQuestion(next)
      BY <2>1 DEF OneQuestion
    <2> QED
      BY <1>1, <1>2, <1>6, <2>1, <2>2, <2>3, <2>4, <2>5, <2>6, LeaveAskingInv
  <1> QED
    BY <1>5, <1>6 DEF DeleteChosen

LEMMA CompleteChosenInv == ASSUME Inv, NEW p \in Proc, CompleteChosen(p) PROVE Inv'
  <1>1. Settles
    BY CompleteSettles, UntouchedSettles DEF CompleteChosen
  <1> QED
    BY <1>1, SettledInv DEF CompleteChosen

LEMMA AgentDeletesInv == ASSUME Inv, NEW p \in Proc, AgentDeletes(p) PROVE Inv'
  <1>1. PICK r \in Request, x \in Active :
           Requests!Ask(r, x) /\ Leave(p, [Loaded(p) EXCEPT !.confirmation = r])
    BY DEF AgentDeletes
  <1> DEFINE c == turns[p].basis  next == [Loaded(p) EXCEPT !.confirmation = r]
  <1>2. turns[p].pc = "run" /\ Route(p) = "task" /\ UNCHANGED completed
    BY DEF AgentDeletes, At
  <1>3. c.confirmation = None /\ c.candidates = <<>> /\ x \in TaskId
    BY <1>2, Routed DEF Active, Inv, TypeOK
  <1>4. Loaded(p) \in Continuation /\ SameQuestion(c, Loaded(p))
    BY <1>2, LoadedType DEF Inv
  <1>5. /\ next \in Continuation /\ next.confirmation = r /\ next.candidates = <<>>
        /\ next.update = c.update /\ next.delete = c.delete
    BY <1>3, <1>4 DEF Continuation, SameQuestion
  <1>6. Leave(p, next)
    BY <1>1
  <1> HIDE DEF next
  <1>7. turns[p].fresh => OneQuestion(next)
    BY <1>2, <1>3, <1>5, FreshBasis DEF OneQuestion
  <1>8. Quiet(c)
    BY <1>3 DEF Quiet
  <1> QED
    BY <1>1, <1>2, <1>3, <1>5, <1>6, <1>7, <1>8, LeaveAskingInv

LEMMA AgentIsAmbiguousInv == ASSUME Inv, NEW p \in Proc, AgentIsAmbiguous(p) PROVE Inv'
  <1>1. PICK s \in Listing, update \in Changes \cup {None}, delete \in BOOLEAN :
           /\ update = None \/ ~delete
           /\ Leave(p, [Loaded(p) EXCEPT !.candidates = s, !.update = update, !.delete = delete])
    BY DEF AgentIsAmbiguous
  <1> DEFINE c == turns[p].basis
             next == [Loaded(p) EXCEPT !.candidates = s, !.update = update, !.delete = delete]
  <1>2. turns[p].pc = "run" /\ Route(p) = "task" /\ UNCHANGED tasks
    BY DEF AgentIsAmbiguous, At
  <1>3. c.confirmation = None /\ c.candidates = <<>>
    BY <1>2, Routed
  <1>4. Loaded(p) \in Continuation /\ SameQuestion(c, Loaded(p))
    BY <1>2, LoadedType DEF Inv
  <1>5. s \in Seq(TaskId) /\ update \in Change \cup {None}
    BY ListingAssumption, ChangesAssumption
  <1>6. /\ next \in Continuation /\ next.confirmation = None
        /\ next.candidates = s /\ next.update = update /\ next.delete = delete
    BY <1>3, <1>4, <1>5 DEF Continuation, SameQuestion
  <1>7. Leave(p, next)
    BY <1>1
  <1> HIDE DEF next
  <1>8. 1 \in 1..Len(s) /\ 2 \in 1..Len(s) /\ s[1] # s[2] /\ s # <<>>
    BY <1>5, ListingAssumption
  <1>9. OneQuestion(next) /\ Quiet(c)
    BY <1>1, <1>3, <1>6, <1>8 DEF OneQuestion, Quiet
  <1>10. \E x, y \in OfferedBy(next) : x # y
    BY <1>6, <1>8 DEF OfferedBy
  <1>11. Settles
    BY <1>2, UntouchedSettles
  <1> QED
    BY <1>2, <1>6, <1>7, <1>9, <1>10, <1>11, LeaveInv

LEMMA RunGraphInv == ASSUME Inv, NEW p \in Proc, RunGraph(p) PROVE Inv'
  <1>1. ASSUME turns[p].pc = "run", Leave(p, Loaded(p)), UNCHANGED tasks PROVE Inv'
    BY <1>1, UntouchedSettles, SameInv
  <1>2. CASE ResolveConfirmation(p)
    BY <1>2, ResolveConfirmationInv
  <1>3. CASE PendingConfirmationPrompt(p) \/ UnsupportedFlow(p) \/ AskAgain(p) \/ AgentReplies(p)
    BY <1>1, <1>3 DEF PendingConfirmationPrompt, UnsupportedFlow, AskAgain, AgentReplies, At
  <1>4. CASE UpdateChosen(p)
    BY <1>4, UntouchedSettles, SettledInv DEF UpdateChosen
  <1>5. CASE DeleteChosen(p)
    BY <1>5, DeleteChosenInv
  <1>6. CASE CompleteChosen(p)
    BY <1>6, CompleteChosenInv
  <1>7. CASE AgentCreates(p)
    <2>1. Settles
      BY <1>7, AddSettles DEF AgentCreates
    <2> QED
      BY <1>7, <2>1, SameInv DEF AgentCreates, At
  <1>8. CASE AgentCompletes(p)
    <2>1. Settles
      BY <1>8, CompleteSettles DEF AgentCompletes
    <2> QED
      BY <1>8, <2>1, SameInv DEF AgentCompletes, At
  <1>9. CASE AgentDeletes(p)
    BY <1>9, AgentDeletesInv
  <1>10. CASE AgentIsAmbiguous(p)
    BY <1>10, AgentIsAmbiguousInv
  <1>11. CASE CutOff(p)
    <2>1. faults' \in 0..MaxFaults /\ faults' = faults /\ turns[p].pc # "reply"
      BY <1>11 DEF CutOff, At, Inv, TypeOK
    <2> QED
      BY <1>11, <2>1, EndInv DEF CutOff
  <1> QED
    BY <1>2, <1>3, <1>4, <1>5, <1>6, <1>7, <1>8, <1>9, <1>10, <1>11 DEF RunGraph

LEMMA StutterInv == ASSUME Inv, UNCHANGED vars PROVE Inv'
  <1>1. UNCHANGED <<present, gone, status, target, completed, conversation, announced, buttons,
                    turns, faults>>
    BY DEF vars, tasks, protocol, threads
  <1>2. TypeOK'
    BY <1>1 DEF Inv, TypeOK
  <1>3. ASSUME NEW th \in Thread PROVE ThreadOK(th)'
    BY <1>1 DEF Inv, ThreadOK
  <1>4. ASSUME NEW p \in Proc PROVE TurnOK(p)'
    <2>1. TurnOK(p)
      BY DEF Inv
    <2>2. Moves(conversation[turns[p].thread], turns[p].next, turns[p].keyboard)
             => Moves(conversation[turns[p].thread], turns[p].next, turns[p].keyboard)'
      BY <1>1 DEF Moves
    <2> QED
      BY <1>1, <2>1, <2>2 DEF TurnOK, Unannounced
  <1>5. OnlyAnnouncedRequestsAreDecided'
    BY <1>1 DEF Inv, OnlyAnnouncedRequestsAreDecided
  <1>6. AnnouncedRequestsKeepTheirButtons'
    BY <1>1 DEF Inv, AnnouncedRequestsKeepTheirButtons
  <1> QED
    BY <1>2, <1>3, <1>4, <1>5, <1>6 DEF Inv

LEMMA NextInv == Inv /\ [Next]_vars => Inv'
  <1> SUFFICES ASSUME Inv, [Next]_vars PROVE Inv'
    OBVIOUS
  <1>1. ASSUME NEW p \in Proc, Step(p) PROVE Inv'
    BY <1>1, LoadInv, RunGraphInv, SaveInv, RefuseInv, ReplyInv DEF Step
  <1>2. ASSUME NEW p \in Proc, Abandon(p) PROVE Inv'
    BY <1>2, AbandonInv
  <1>3. ASSUME NEW p \in Proc, UserActs(p) PROVE Inv'
    BY <1>3, UserActsInv
  <1> QED
    BY <1>1, <1>2, <1>3, StutterInv DEF Next

\* The invariant holds for turns of any threads that overlap in any way.
THEOREM Invariance == Spec => []Inv
  BY InvInit, NextInv, PTL DEF Spec

\* Every variable always holds what the tables, the chat and the runner can hold.
THEOREM TypeCorrect == Spec => []TypeOK
  <1>1. Inv => TypeOK
    BY DEF Inv
  <1> QED
    BY <1>1, Invariance, PTL

\* A request whose turn was lost before the save is never confirmed or cancelled,
\* and every deletion was confirmed by a request that was put to the user.
THEOREM OnlyAnnounced == Spec => []OnlyAnnouncedRequestsAreDecided
  <1>1. Inv => OnlyAnnouncedRequestsAreDecided
    BY DEF Inv
  <1> QED
    BY <1>1, Invariance, PTL

\* While nothing has failed, a request put to a chat has its buttons there, or a
\* reply that brings them.
THEOREM ButtonsStay == Spec => []AnnouncedRequestsKeepTheirButtons
  <1>1. Inv => AnnouncedRequestsKeepTheirButtons
    BY DEF Inv
  <1> QED
    BY <1>1, Invariance, PTL

-----------------------------------------------------------------------------
(* Who decides a request *)

\* Requests that exist stay as they are, until they are decided.
Undecided == \A r \in Request : ~Decided(r)

LEMMA UntouchedUndecided == ASSUME UNCHANGED status PROVE Undecided
  BY DEF Undecided, Decided

LEMMA AskUndecided ==
    ASSUME Inv, NEW r \in Request, NEW x, Requests!Ask(r, x) PROVE Undecided
  BY DEF Inv, TypeOK, Requests!Ask, Undecided, Decided

\* The resolver decides the request it is given, as it is told.
LEMMA ResolveDecides ==
    ASSUME Inv, NEW r \in Request, NEW decision, Resolve(r, decision),
           NEW other \in Request, Decided(other)
    PROVE  /\ other = r
           /\ \/ status'[r] = "consumed" /\ decision = "confirm"
              \/ status'[r] = "cancelled" /\ decision = "cancel"
              \/ status'[r] = "expired"
  <1>1. ASSUME NEW how, Requests!Resolve(r, how) PROVE other = r /\ status'[r] = how
    BY <1>1 DEF Requests!Resolve, Inv, TypeOK, Decided
  <1>2. ~UNCHANGED protocol
    BY DEF Decided, protocol
  <1> QED
    BY <1>1, <1>2
    DEF Resolve, Requests!Expire, Requests!Cancel, Requests!Execute, Requests!Fail

LEMMA ResolveConfirmationDecides ==
    ASSUME Inv, NEW p \in Proc, ResolveConfirmation(p), NEW r \in Request, Decided(r)
    PROVE  DecidedBy(p, r)
  <1>1. /\ turns[p].pc = "run" /\ Route(p) = "confirmation"
        /\ Resolve(turns[p].event.request, turns[p].event.decision)
    BY DEF ResolveConfirmation, At
  <1>2. turns[p].event.type = "confirmation" /\ turns[p].event \in Event
    BY <1>1, Routed, FreshBasis
  <1>3. turns[p].event.request \in Request
    BY <1>2, EventTypes
  <1>4. turns[p].event.request \in announced[turns[p].thread]
    BY <1>1, <1>2 DEF Inv, TurnOK
  <1> QED
    BY <1>1, <1>2, <1>3, <1>4, ResolveDecides DEF DecidedBy

\* No other step decides a request.
LEMMA RunGraphDecides ==
    ASSUME Inv, NEW p \in Proc, RunGraph(p)
    PROVE  Undecided \/ \A r \in Request : Decided(r) => DecidedBy(p, r)
  <1>1. CASE ResolveConfirmation(p)
    BY <1>1, ResolveConfirmationDecides
  <1>2. CASE \/ PendingConfirmationPrompt(p) \/ UnsupportedFlow(p) \/ AskAgain(p)
             \/ UpdateChosen(p) \/ AgentReplies(p) \/ AgentIsAmbiguous(p) \/ CutOff(p)
    <2>1. UNCHANGED status
      BY <1>2 DEF PendingConfirmationPrompt, UnsupportedFlow, AskAgain, UpdateChosen,
                  AgentReplies, AgentIsAmbiguous, CutOff, tasks, protocol
    <2> QED
      BY <2>1, UntouchedUndecided
  <1>3. CASE DeleteChosen(p)
    <2>1. UNCHANGED protocol \/ \E r \in Request : Requests!Ask(r, Chosen(p))
      BY <1>3 DEF DeleteChosen
    <2> QED
      BY <2>1, UntouchedUndecided, AskUndecided DEF protocol
  <1>4. CASE CompleteChosen(p) \/ AgentCompletes(p)
    <2>1. UNCHANGED status
      BY <1>4 DEF CompleteChosen, AgentCompletes, Complete, tasks, protocol
    <2> QED
      BY <2>1, UntouchedUndecided
  <1>5. CASE AgentCreates(p)
    <2>1. UNCHANGED status
      BY <1>5 DEF AgentCreates, Requests!Add
    <2> QED
      BY <2>1, UntouchedUndecided
  <1>6. CASE AgentDeletes(p)
    <2>1. \E r \in Request, x \in Active : Requests!Ask(r, x)
      BY <1>6 DEF AgentDeletes
    <2> QED
      BY <2>1, AskUndecided
  <1> QED
    BY <1>1, <1>2, <1>3, <1>4, <1>5, <1>6 DEF RunGraph

LEMMA NextDecides ==
    Inv /\ [Next]_vars
        => \A r \in Request : Decided(r) => \E p \in Proc : DecidedBy(p, r)
  <1> SUFFICES ASSUME Inv, [Next]_vars
               PROVE  Undecided \/ \E p \in Proc : \A r \in Request : Decided(r) => DecidedBy(p, r)
    BY DEF Undecided
  <1>1. CASE UNCHANGED vars
    BY <1>1, UntouchedUndecided DEF vars, tasks, protocol
  <1>2. ASSUME NEW p \in Proc, RunGraph(p)
        PROVE  Undecided \/ \A r \in Request : Decided(r) => DecidedBy(p, r)
    BY <1>2, RunGraphDecides
  <1>3. ASSUME NEW p \in Proc,
               \/ LoadCheckpoint(p) \/ SaveCheckpoint(p) \/ RefuseCheckpoint(p) \/ Reply(p)
               \/ Abandon(p) \/ UserActs(p)
        PROVE  Undecided
    <2>1. UNCHANGED status
      BY <1>3 DEF LoadCheckpoint, SaveCheckpoint, RefuseCheckpoint, Reply, Abandon,
                  UserActs, Line, Post, Press, Begin, tasks, protocol
    <2> QED
      BY <2>1, UntouchedUndecided
  <1> QED
    BY <1>1, <1>2, <1>3 DEF Next, Step

\* DecidedByItsOwnThread: a request is decided by an answer that names it, as
\* that answer says, in a turn of the thread that asked (resolve_confirmation
\* and TaskConfirmationResolver), however turns overlap and buttons age.
THEOREM OwnDecisions == Spec => DecidedByItsOwnThread
  <1>1. Inv /\ [Next]_vars
           => [\A r \in Request : Decided(r) => \E p \in Proc : DecidedBy(p, r)]_vars
    BY NextDecides
  <1> QED
    BY <1>1, Invariance, PTL DEF Spec, DecidedByItsOwnThread

-----------------------------------------------------------------------------
(* Conversation implements Dialogue *)

\* A step that saves nothing leaves what was asked, and what it was about.
LEMMA UnsavedKeeps ==
    ASSUME Inv, Lasting, UNCHANGED <<conversation, announced>>
    PROVE  UNCHANGED Questions!dvars
  <1>1. ASSUME NEW th \in Thread
        PROVE  QuestionOf(conversation[th])' = QuestionOf(conversation[th])
    <2>1. ThreadOK(th) /\ conversation[th] \in Continuation
      BY DEF Inv, TypeOK
    <2>2. CASE conversation[th].confirmation # None
      <3>1. target'[conversation[th].confirmation] = target[conversation[th].confirmation]
        BY <2>1, <2>2 DEF ThreadOK, Lasting, Continuation
      <3> QED
        BY <3>1 DEF QuestionOf
    <2>3. CASE conversation[th].confirmation = None
      BY <2>3 DEF QuestionOf
    <2> QED
      BY <2>2, <2>3
  <1> QED
    BY <1>1 DEF Questions!dvars

LEMMA RunGraphKeeps ==
    ASSUME Inv, NEW p \in Proc, RunGraph(p)
    PROVE  Lasting /\ UNCHANGED <<conversation, announced>>
  <1>1. UNCHANGED threads
    BY DEF RunGraph, ResolveConfirmation, PendingConfirmationPrompt, UnsupportedFlow, AskAgain,
           UpdateChosen, DeleteChosen, CompleteChosen, AgentReplies, AgentCreates, AgentCompletes,
           AgentDeletes, AgentIsAmbiguous, CutOff, Leave
  <1>2. Lasting
    <2>1. CASE UNCHANGED tasks
      BY <2>1, UntouchedSettles DEF Settles
    <2>2. CASE \E x \in TaskId : Complete(x)
      BY <2>2, CompleteSettles DEF Settles
    <2>3. CASE \E x \in TaskId : Requests!Add(x) /\ UNCHANGED completed
      BY <2>3, AddSettles DEF Settles
    <2>4. CASE \E r \in Request, x \in Active : Requests!Ask(r, x) /\ UNCHANGED completed
      BY <2>4, AskMakes DEF Settles, Active, Inv, TypeOK
    <2>5. CASE ResolveConfirmation(p)
      <3>1. turns[p].pc = "run" /\ Route(p) = "confirmation"
        BY <2>5 DEF ResolveConfirmation, At
      <3>2. /\ turns[p].event.type = "confirmation" /\ turns[p].event \in Event
            /\ turns[p].thread \in Thread
        BY <3>1, Routed, FreshBasis
      <3>3. /\ turns[p].event.request \in announced[turns[p].thread]
            /\ turns[p].event.request \in Request
        BY <3>1, <3>2, EventTypes DEF Inv, TurnOK
      <3> QED
        BY <2>5, <3>2, <3>3, ResolveSettles DEF ResolveConfirmation, Settles
    <2>6. CASE DeleteChosen(p)
      BY <2>1, <2>4, <2>6 DEF DeleteChosen, tasks
    <2>7. CASE CompleteChosen(p)
      <3>1. Settles
        BY <2>7, CompleteSettles, UntouchedSettles DEF CompleteChosen
      <3> QED
        BY <3>1 DEF Settles
    <2>8. CASE AgentCreates(p)
      BY <2>3, <2>8 DEF AgentCreates
    <2>9. CASE AgentCompletes(p)
      BY <2>2, <2>9 DEF AgentCompletes
    <2>10. CASE AgentDeletes(p)
      BY <2>4, <2>10 DEF AgentDeletes
    <2> QED
      BY <2>1, <2>5, <2>6, <2>7, <2>8, <2>9, <2>10
      DEF RunGraph, PendingConfirmationPrompt, UnsupportedFlow, AskAgain, UpdateChosen,
          AgentReplies, AgentIsAmbiguous, CutOff
  <1> QED
    BY <1>1, <1>2 DEF threads

\* What a save makes of the questions of all threads.
LEMMA SavedQuestions ==
    ASSUME Inv, NEW p \in Proc, SaveCheckpoint(p), NEW th \in Thread, th = turns[p].thread,
           NEW next \in Continuation, next = turns[p].next
    PROVE  /\ QuestionOf(conversation[th])' = QuestionOf(next)
           /\ \A o \in Thread \ {th} : QuestionOf(conversation[o])' = QuestionOf(conversation[o])
           /\ announced' = [announced EXCEPT ![th] = @ \cup ({next.confirmation} \ {None})]
  <1>1. /\ conversation' = [conversation EXCEPT ![th] = Reloaded(next)] /\ target' = target
        /\ announced' = [announced EXCEPT ![th] = @ \cup ({next.confirmation} \ {None})]
    BY Saved DEF tasks, protocol
  <1>2. /\ conversation'[th] = Reloaded(next)
        /\ \A o \in Thread \ {th} : conversation'[o] = conversation[o]
    BY <1>1 DEF Inv, TypeOK
  <1>3. /\ Reloaded(next).confirmation = next.confirmation
        /\ Reloaded(next).candidates = next.candidates
        /\ Reloaded(next).delete = next.delete
        /\ Reloaded(next).update = None <=> next.update = None
    BY ReloadedType
  <1> DEFINE c == Reloaded(next)
  <1> HIDE DEF c
  <1>4. /\ c.confirmation = next.confirmation /\ c.candidates = next.candidates
        /\ About(c) = About(next) /\ OfferedBy(c) = OfferedBy(next) /\ conversation'[th] = c
    BY <1>2, <1>3 DEF c, About, OfferedBy
  <1>5. QuestionOf(conversation[th])' = QuestionOf(next)
    BY <1>1, <1>4 DEF QuestionOf
  <1>6. \A o \in Thread \ {th} : QuestionOf(conversation[o])' = QuestionOf(conversation[o])
    BY <1>1, <1>2 DEF QuestionOf
  <1> QED
    BY <1>1, <1>5, <1>6

LEMMA SaveMaps == ASSUME Inv, NEW p \in Proc, SaveCheckpoint(p) PROVE [Questions!Next]_(Questions!dvars)
  <1>1. PICK th \in Thread, next \in Continuation, keyboard \in Request \cup {None} :
           th = turns[p].thread /\ next = turns[p].next /\ keyboard = turns[p].keyboard
    BY Saved
  <1> DEFINE c == conversation[th]
             Question == [o \in Thread |-> QuestionOf(conversation[o])]
             q == QuestionOf(next)
             same == keyboard = None /\ SameQuestion(c, next)
             ended == keyboard = None /\ Quiet(next)
             choice == /\ keyboard = None /\ Quiet(c) /\ next.confirmation = None
                       /\ \E x, y \in OfferedBy(next) : x # y
             chosen == /\ c.confirmation = None /\ c.update = None /\ c.delete
                       /\ target[keyboard] \in OfferedBy(c)
             request == keyboard # None /\ (Quiet(c) \/ chosen)
  <1>2. /\ Moves(c, next, keyboard)
        /\ keyboard # None => /\ keyboard = next.confirmation
                              /\ Unannounced(keyboard) /\ status[keyboard] # "none"
    BY <1>1, Saved
  <1>3. /\ QuestionOf(conversation[th])' = q
        /\ \A o \in Thread \ {th} : QuestionOf(conversation[o])' = QuestionOf(conversation[o])
        /\ announced' = [announced EXCEPT ![th] = @ \cup ({next.confirmation} \ {None})]
    BY <1>1, SavedQuestions
  <1>4. [o \in Thread |-> QuestionOf(conversation[o])']
           = [[o \in Thread |-> QuestionOf(conversation[o])] EXCEPT ![th] = q]
    BY <1>3
  <1>5. ThreadOK(th) /\ c \in Continuation /\ announced \in [Thread -> SUBSET Request]
    BY DEF Inv, TypeOK
  <1>6. next.confirmation \in announced[th] \cup {None} => announced' = announced
    BY <1>3, <1>5
  <1>7. CASE same
    <2>1. q = QuestionOf(c)
      BY <1>7 DEF SameQuestion, QuestionOf, About, OfferedBy
    <2>2. announced' = announced
      BY <1>5, <1>6, <1>7 DEF SameQuestion, ThreadOK
    <2>3. \A o \in Thread : QuestionOf(conversation[o])' = QuestionOf(conversation[o])
      BY <1>3, <2>1
    <2> QED
      BY <2>2, <2>3 DEF Questions!dvars
  <1>8. CASE ended
    <2>1. q = [kind |-> "none"] /\ announced' = announced
      BY <1>6, <1>8 DEF Quiet, QuestionOf
    <2>2. CASE QuestionOf(c) = [kind |-> "none"]
      <3>1. \A o \in Thread : QuestionOf(conversation[o])' = QuestionOf(conversation[o])
        BY <1>3, <2>1, <2>2
      <3> QED
        BY <2>1, <3>1 DEF Questions!dvars
    <2>3. CASE QuestionOf(c) # [kind |-> "none"]
      <3>1. Questions!Settle(th)
        BY <1>4, <2>1, <2>3 DEF Questions!Settle, Questions!NoQuestion
      <3> QED
        BY <3>1 DEF Questions!Next
    <2> QED
      BY <2>2, <2>3
  <1>9. CASE choice
    <2>1. QuestionOf(c) = [kind |-> "none"]
      BY <1>9 DEF Quiet, QuestionOf
    <2>2. next.candidates # <<>> /\ OfferedBy(next) \in SUBSET TaskId
      <3>1. next.candidates \in Seq(TaskId)
        BY DEF Continuation
      <3> QED
        BY <1>9, <3>1 DEF OfferedBy
    <2>3. q = Questions!Choice(About(next), OfferedBy(next))
      BY <1>9, <2>2 DEF QuestionOf, Questions!Choice
    <2>4. About(next) \in {"complete", "update", "delete"}
      BY DEF About
    <2>5. Questions!AskChoice(th, About(next), OfferedBy(next))
      BY <1>4, <1>6, <1>9, <2>1, <2>3 DEF Questions!AskChoice, Questions!NoQuestion
    <2> QED
      BY <2>2, <2>4, <2>5 DEF Questions!Next
  <1>10. CASE request
    <2>1. /\ keyboard \in Request /\ target[keyboard] \in TaskId
          /\ next.confirmation = keyboard
      BY <1>2, <1>10 DEF Inv, TypeOK
    <2>2. q = Questions!Confirmation(keyboard, target[keyboard])
      BY <1>10, <2>1 DEF QuestionOf, Questions!Confirmation
    <2>3. announced' = [announced EXCEPT ![th] = @ \cup {keyboard}]
      BY <1>3, <1>10, <2>1
    <2>4. \/ QuestionOf(c) = [kind |-> "none"]
          \/ \E offered \in SUBSET TaskId :
                QuestionOf(c) = Questions!Choice("delete", offered) /\ target[keyboard] \in offered
      <3>1. CASE Quiet(c)
        BY <3>1 DEF Quiet, QuestionOf
      <3>2. CASE chosen
        <4>1. c.candidates # <<>> /\ OfferedBy(c) \in SUBSET TaskId
          <5>1. c.candidates \in Seq(TaskId)
            BY <1>5 DEF Continuation
          <5> QED
            BY <3>2, <5>1 DEF OfferedBy
        <4>2. QuestionOf(c) = Questions!Choice("delete", OfferedBy(c))
          BY <3>2, <4>1 DEF QuestionOf, About, Questions!Choice
        <4> QED
          BY <3>2, <4>1, <4>2
      <3> QED
        BY <1>10, <3>1, <3>2
    <2>5. Questions!AskConfirmation(th, keyboard, target[keyboard])
      BY <1>2, <1>4, <1>10, <2>2, <2>3, <2>4
      DEF Questions!AskConfirmation, Questions!NoQuestion, Unannounced
    <2> QED
      BY <2>1, <2>5 DEF Questions!Next
  <1>11. same \/ ended \/ choice \/ request
    BY <1>2 DEF Moves
  <1> HIDE DEF same, ended, choice, request
  <1> QED
    BY <1>7, <1>8, <1>9, <1>10, <1>11

LEMMA InitMaps == Init => Questions!Init
  BY DEF Init, Questions!Init, Questions!NoQuestion, QuestionOf, Fresh

LEMMA NextMaps == Inv /\ [Next]_vars => [Questions!Next]_(Questions!dvars)
  <1> SUFFICES ASSUME Inv, [Next]_vars PROVE [Questions!Next]_(Questions!dvars)
    OBVIOUS
  <1>1. ASSUME UNCHANGED <<tasks, conversation, announced>>
        PROVE  [Questions!Next]_(Questions!dvars)
    <2>1. Lasting
      BY <1>1, UntouchedSettles DEF Settles
    <2> QED
      BY <1>1, <2>1, UnsavedKeeps
  <1>2. ASSUME NEW p \in Proc, Step(p) PROVE [Questions!Next]_(Questions!dvars)
    <2>1. CASE LoadCheckpoint(p) \/ RefuseCheckpoint(p) \/ Reply(p)
      BY <1>1, <2>1 DEF LoadCheckpoint, RefuseCheckpoint, Reply, threads
    <2>2. CASE RunGraph(p)
      BY <2>2, RunGraphKeeps, UnsavedKeeps
    <2>3. CASE SaveCheckpoint(p)
      BY <2>3, SaveMaps
    <2> QED
      BY <1>2, <2>1, <2>2, <2>3 DEF Step
  <1>3. ASSUME NEW p \in Proc, Abandon(p) PROVE [Questions!Next]_(Questions!dvars)
    BY <1>1, <1>3 DEF Abandon, threads
  <1>4. ASSUME NEW p \in Proc, UserActs(p) PROVE [Questions!Next]_(Questions!dvars)
    BY <1>1, <1>4 DEF UserActs, Line, Post, Press, Begin, threads
  <1>5. CASE UNCHANGED vars
    BY <1>1, <1>5 DEF vars, threads
  <1> QED
    BY <1>2, <1>3, <1>4, <1>5 DEF Next

\* Whatever overlaps, a thread asks one question at a time, never replaces it by
\* another, and no request is put to the user twice.
THEOREM Refinement == Spec => ImplementsDialogue
  BY InitMaps, NextMaps, Invariance, PTL DEF Spec, ImplementsDialogue, Questions!Spec
=============================================================================
