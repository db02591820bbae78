\* Two users, every command of the service, by query and by id, and a confirmed
\* deletion, under fair lock queues.
SPECIFICATION FairSpec
CONSTANTS
    None = None
    ana = ana  bia = bia
    x1 = x1  x2 = x2  x3 = x3
    a = a  b = b
    k1 = k1  k2 = k2  k3 = k3  k4 = k4
    User = {ana, bia}
    TaskId = {x1, x2, x3}
    Title = {a, b}
    Key = {k1, k2, k3, k4}
    Tx = {t1, t2}
    Call <- CommandCalls
    Seeded <- CommandSeed
    TTL = 1
    MaxClock = 0
INVARIANT Inv
INVARIANT EffectsAreTrue
INVARIANT NoDeadlock
INVARIANT CommandAnswersAreTrue
PROPERTY OneEffectPerExecution
PROPERTY OwnDataOnly
PROPERTY EveryStatementAdvances
PROPERTY EveryCallEnds
