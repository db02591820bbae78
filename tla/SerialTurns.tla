---------------------------- MODULE SerialTurns ----------------------------
(***************************************************************************)
(* What the durable Graph promises of a conversation thread, whatever runs *)
(* at the same time: it belongs to the first user who speaks in it, and    *)
(* its turns happen one after the other, each taking the continuation the  *)
(* one before it left.  GraphCheckpoint implements this specification.     *)
(***************************************************************************)
EXTENDS Naturals

CONSTANTS Thread, User, Fresh, Turn, None

VARIABLES owner, continuation, turnsTaken

svars == <<owner, continuation, turnsTaken>>

Init ==
    /\ owner = [th \in Thread |-> None]
    /\ continuation = [th \in Thread |-> Fresh]
    /\ turnsTaken = [th \in Thread |-> 0]

Take(th, u, next) ==
    /\ owner[th] \in {None, u}
    /\ <<continuation[th], next>> \in Turn
    /\ owner' = [owner EXCEPT ![th] = u]
    /\ continuation' = [continuation EXCEPT ![th] = next]
    /\ turnsTaken' = [turnsTaken EXCEPT ![th] = @ + 1]

Next == \E th \in Thread, u \in User, turn \in Turn : Take(th, u, turn[2])

Spec == Init /\ [][Next]_svars
=============================================================================
