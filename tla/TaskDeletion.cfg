\* Two sessions, one task, two deletion requests, a completion, and every decision
\* on a request around its expiry; a stranger knows its id.
SPECIFICATION Spec
CONSTANTS
    None = None
    ana = ana  bia = bia
    x1 = x1  x2 = x2  x3 = x3
    a = a  b = b
    k1 = k1  k2 = k2  k3 = k3  k4 = k4
    User = {ana, bia}
    TaskId = {x1}
    Title = {a}
    Key = {k1, k2, k3}
    Tx = {t1, t2}
    Call <- DecisionCalls
    Seeded <- DeletionSeed
    TTL = 1
    MaxClock = 1
INVARIANT TypeOK
INVARIANT Inv
INVARIANT EveryDeletionWasConfirmed
INVARIANT RequestAndExecutionAgree
INVARIANT DecidedInTime
INVARIANT AnswersAreTrue
PROPERTY ImplementsProtocol
PROPERTY ResolvedIsFinal
PROPERTY OwnDataOnly
