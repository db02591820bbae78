\* A confirmed deletion finds the task completed and its button is pressed again.
SPECIFICATION Spec
CONSTANTS
    None = None
    ana = ana  bia = bia
    x1 = x1  x2 = x2  x3 = x3
    a = a  b = b
    k1 = k1  k2 = k2  k3 = k3  k4 = k4
    User = {ana}
    TaskId = {x1}
    Title = {a}
    Key = {k1, k2, k3}
    Tx = {t1, t2}
    Call <- DeletionCalls
    Seeded <- DeletionSeed
    TTL = 1
    MaxClock = 1
INVARIANT OnlyDeletionsAreClaimed
