\* One user at a terminal and on Telegram, one turn at a time, with one fault.
SPECIFICATION FairSpec
CONSTANTS
    None = None
    terminal = terminal  chat = chat
    x1 = x1  x2 = x2  a = a  b = b
    Thread = {terminal, chat}
    Channel <- Channels
    Proc = {p1}
    TaskId = {x1, x2}
    Seeded = {x1}
    Title = {a, b}
    TitleOf <- Titles
    Request = {r1}
    Text <- Texts
    Listing <- Listings
    Changes <- Updates
    MaxFaults = 1
PROPERTY ConfirmationIsLeft
PROPERTY ChoiceIsLeft
