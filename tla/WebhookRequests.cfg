\* Three updates, posted until they are acknowledged, with two faults; posts of
\* the button and of the stranger's update overlap, those of the message do not.
SPECIFICATION FairSpec
\* Telegram has nothing more to post once everything is acknowledged.
CHECK_DEADLOCK FALSE
CONSTANTS
    None = None
    message = message  button = button  stranger = stranger  ana = ana
    Update = {message, button, stranger}
    User = {ana}
    Sender <- Chats
    Buttons = {button}
    Request = {r1, r2}
    Overlapped = {button, stranger}
    Erring = {button}
    MaxFaults = 2
INVARIANT Inv
INVARIANT CommandAtMostOnce
INVARIANT SentAfterCommit
INVARIANT DeliveryIsTrue
INVARIANT AcknowledgedIsDelivered
INVARIANT LossHasCause
PROPERTY DeliveredIsFinal
PROPERTY EveryUpdateIsAcknowledged
PROPERTY EveryStoredResponseIsDelivered
PROPERTY ImplementsOutbox
