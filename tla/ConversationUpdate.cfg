\* One turn at a time at a terminal; the agent may propose an update.
SPECIFICATION Spec
CONSTANTS
    None = None
    terminal = terminal  chat = chat
    x1 = x1  x2 = x2  a = a  b = b
    Thread = {terminal}
    Channel <- Channels
    Proc = {p1}
    TaskId = {x1, x2}
    Seeded = {x1, x2}
    Title = {a, b}
    TitleOf <- Titles
    Request = {r1}
    Text <- Texts
    Listing <- Listings
    Changes <- Updates
    MaxFaults = 0
INVARIANT ContinuationIsKept
