--------------------------- MODULE TelegramOutbox ---------------------------
(***************************************************************************)
(* What the webhook promises of the updates Telegram posts, without        *)
(* requests: an update from a linked chat is recorded, its command         *)
(* commits, its response is stored, and the stored response is delivered,  *)
(* in this order and never back; a response is shown only once it is       *)
(* stored; and Telegram is told to stop posting an update only once it is  *)
(* recorded.  What was recorded may stay where it is: nothing takes it up  *)
(* again.  TelegramWebhook implements this specification.                  *)
(***************************************************************************)
EXTENDS Naturals

CONSTANTS Update, Linked  \* the updates, and those that come from a linked chat

VARIABLES
    stage,        \* how far each update has come
    shown,        \* how often its response was shown
    acknowledged  \* the updates Telegram does not post any more

ovars == <<stage, shown, acknowledged>>

Init ==
    /\ stage = [u \in Update |-> "new"]
    /\ shown = [u \in Update |-> 0]
    /\ acknowledged = {}

Advance(u, from, to) ==
    /\ stage[u] = from
    /\ stage' = [stage EXCEPT ![u] = to]
    /\ UNCHANGED <<shown, acknowledged>>

Record(u) == u \in Linked /\ Advance(u, "new", "recorded")
Execute(u) == Advance(u, "recorded", "executed")
Store(u) == Advance(u, "executed", "stored")
Deliver(u) == shown[u] > 0 /\ Advance(u, "stored", "delivered")

\* Also a response that was shown already: its delivery may not be known.
Show(u) ==
    /\ stage[u] \in {"stored", "delivered"}
    /\ shown' = [shown EXCEPT ![u] = @ + 1]
    /\ UNCHANGED <<stage, acknowledged>>

Acknowledge(u) ==
    /\ u \in Linked => stage[u] # "new"
    /\ acknowledged' = acknowledged \cup {u}
    /\ UNCHANGED <<stage, shown>>

Next == \E u \in Update :
    Record(u) \/ Execute(u) \/ Store(u) \/ Deliver(u) \/ Show(u) \/ Acknowledge(u)

Spec == Init /\ [][Next]_ovars
=============================================================================
