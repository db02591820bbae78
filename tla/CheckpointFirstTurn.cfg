\* The first turn of a terminal user, whom the database does not know.
SPECIFICATION Spec
\* Users may have nothing more to say: the bound on versions makes them stop.
CHECK_DEADLOCK FALSE
CONSTANTS
    None = None
    Message = {m1}
    Thread = {th}
    User = {bia}
    Linked = {}
    Proc = {p1}
    State <- Continuations
    Fresh <- Nothing
    Turn <- Turns
    MaxVersion = 2
INVARIANT ConflictsAreReal
