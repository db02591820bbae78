------------------------------ MODULE Dialogue ------------------------------
(***************************************************************************)
(* What the Graph promises of the questions it puts to a user, whatever    *)
(* runs at the same time: a thread asks one question at a time and never   *)
(* replaces it by another, except the choice of a task to delete by the    *)
(* confirmation of the task chosen; and a deletion request is put to the   *)
(* user once, in one thread.  Conversation implements this specification.  *)
(***************************************************************************)
CONSTANTS Thread, Request, TaskId

VARIABLES
    question,  \* what each thread waits for
    asked      \* the requests each thread has put to its user

dvars == <<question, asked>>

NoQuestion == [kind |-> "none"]
Choice(about, offered) == [kind |-> "choice", about |-> about, offered |-> offered]
Confirmation(r, x) == [kind |-> "confirmation", request |-> r, task |-> x]

Init ==
    /\ question = [th \in Thread |-> NoQuestion]
    /\ asked = [th \in Thread |-> {}]

AskChoice(th, about, offered) ==
    /\ question[th] = NoQuestion
    /\ \E x, y \in offered : x # y
    /\ question' = [question EXCEPT ![th] = Choice(about, offered)]
    /\ UNCHANGED asked

\* Of a task that was named, or that is among those offered for deletion.
AskConfirmation(th, r, x) ==
    /\ \A other \in Thread : r \notin asked[other]
    /\ \/ question[th] = NoQuestion
       \/ \E offered \in SUBSET TaskId :
             question[th] = Choice("delete", offered) /\ x \in offered
    /\ question' = [question EXCEPT ![th] = Confirmation(r, x)]
    /\ asked' = [asked EXCEPT ![th] = @ \cup {r}]

Settle(th) ==
    /\ question[th] # NoQuestion
    /\ question' = [question EXCEPT ![th] = NoQuestion]
    /\ UNCHANGED asked

Next ==
    \E th \in Thread :
        \/ \E about \in {"complete", "update", "delete"}, offered \in SUBSET TaskId :
              AskChoice(th, about, offered)
        \/ \E r \in Request, x \in TaskId : AskConfirmation(th, r, x)
        \/ Settle(th)

Spec == Init /\ [][Next]_dvars
=============================================================================
