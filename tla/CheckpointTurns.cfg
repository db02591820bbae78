\* Three overlapping turns of two users in one thread.
SPECIFICATION FairSpec
\* Users may have nothing more to say: the bound on versions makes them stop.
CHECK_DEADLOCK FALSE
CONSTANTS
    None = None
    Message = {m1, m2}
    Thread = {th}
    User = {ana, bia}
    Linked = {ana}
    Proc = {p1, p2, p3}
    State <- Continuations
    Fresh <- Nothing
    Turn <- Turns
    MaxVersion = 2
INVARIANT Inv
INVARIANT LinkedConflictsAreReal
INVARIANT OnlyOwnContinuation
PROPERTY ThreadKeepsItsUser
PROPERTY ImplementsSerialTurns
PROPERTY EveryTurnEnds
