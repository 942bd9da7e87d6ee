\* One consumer loop and a caller that activates, Redis and the broker failing,
\* two attempts, and two copies read again or not put aside.
CONSTANTS
    u1 = u1
    u2 = u2
    ann = ann
    pic = pic
    create = create
    rival = rival
    remove = remove
    replay = replay
    blank = blank
    UserIDs = {u1}
    Usernames = {ann}
    NoName = NoName
    Avatars = {pic}
    NoAvatar = NoAvatar
    NoRow = NoRow
    NoEntry = NoEntry
    NoID = NoID
    NoUser = NoUser
    NoCommand = NoCommand
    Requests = {h1, g1}
    Handlers = {h1}
    Commanded = {create, replay, blank}
    Imported <- NothingImported
    Trimmed <- NoPadding
    Offered <- Activation
    Order <- Session
    Faults <- LiveFaults
    MaxAttempts = 2
    MaxRestarts = 2
    MaxWrites = 1
SPECIFICATION FairHandlersSpec
PROPERTY
    OnlyDeadLettersDetain
CHECK_DEADLOCK FALSE
