\* A registration, its compensation and a rival for the name, every fault, one
\* attempt for each copy, one of which is read a second time.
CONSTANTS
    u1 = u1
    u2 = u2
    ann = ann
    pic = pic
    create = create
    rival = rival
    remove = remove
    replay = replay
    blank = blank
    UserIDs = {u1, u2}
    Usernames = {ann}
    NoName = NoName
    Avatars = {pic}
    NoAvatar = NoAvatar
    NoRow = NoRow
    NoEntry = NoEntry
    NoID = NoID
    NoUser = NoUser
    NoCommand = NoCommand
    Requests = {h1, h2}
    Handlers = {h1, h2}
    Commanded = {create, rival, remove}
    Imported <- NothingImported
    Trimmed <- NoPadding
    Offered <- NoCalls
    Order <- Session
    Faults <- AllFaults
    MaxAttempts = 1
    MaxRestarts = 1
    MaxWrites = 0
SPECIFICATION HandlersSpec
SYMMETRY Lanes
INVARIANTS
    HandlersTypeOK
    SuccessIsTrue
    FailureIsTrue
    DomainErrorsAreAnswered
    ReasonsAreTrue
PROPERTY
    KeepsEventClaims
CHECK_DEADLOCK FALSE
