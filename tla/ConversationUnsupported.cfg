\* One chat, one turn at a time, and no fault; the user types every text.
SPECIFICATION TypingSpec
CONSTANTS
    None = None
    terminal = terminal  chat = chat
    x1 = x1  x2 = x2  a = a  b = b
    Thread = {chat}
    Channel <- Channels
    Proc = {p1}
    TaskId = {x1, x2}
    Seeded = {x1, x2}
    Title = {a, b}
    TitleOf <- Titles
    Request = {r1}
    Text <- FewTexts
    Listing <- Listings
    Changes <- FewUpdates
    MaxFaults = 0
PROPERTY UnsupportedFlowIsLeft
