------------------------- MODULE MCGraphCheckpoint -------------------------
(***************************************************************************)
(* Small instances of GraphCheckpoint.  A continuation is the set of the   *)
(* messages a thread has seen, so a turn that is lost is seen to be lost.  *)
(***************************************************************************)
EXTENDS GraphCheckpoint, FiniteSets

CONSTANTS Message

Continuations == SUBSET Message
Turns == {turn \in Continuations \X Continuations :
             \E m \in Message : turn[2] = turn[1] \cup {m}}
Nothing == {}
=============================================================================
