\* Two overlapping turns of one chat, and one fault; turns and requests are alike.
SPECIFICATION Spec
SYMMETRY Alike
CONSTANTS
    None = None
    terminal = terminal  chat = chat
    x1 = x1  x2 = x2  a = a  b = b
    Thread = {chat}
    Channel <- Channels
    Proc = {p1, p2}
    TaskId = {x1, x2}
    Seeded = {x1, x2}
    Title = {a, b}
    TitleOf <- Titles
    Request = {r1, r2}
    Text <- FewTexts
    Listing <- Listings
    Changes <- FewUpdates
    MaxFaults = 1
INVARIANT Inv
INVARIANT OnlyAnnouncedRequestsAreDecided
INVARIANT AnnouncedRequestsKeepTheirButtons
PROPERTY ImplementsDialogue
PROPERTY DecidedByItsOwnThread
