\* A request dies between its command and its delivery.
SPECIFICATION FairSpec
\* Telegram has nothing more to post once everything is acknowledged.
CHECK_DEADLOCK FALSE
CONSTANTS
    None = None
    message = message  button = button  stranger = stranger  ana = ana
    Update = {message}
    User = {ana}
    Sender <- Chats
    Buttons = {}
    Request = {r1}
    Overlapped = {}
    Erring = {}
    MaxFaults = 1
PROPERTY EveryCommandIsReported
