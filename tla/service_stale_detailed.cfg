\* A detailed query and then a deletion, nothing failing.
CONSTANTS
    u1 = u1
    u2 = u2
    ann = ann
    padded = padded
    pic = pic
    UserIDs = {u1}
    Usernames = {ann}
    NoName = NoName
    Avatars = {pic}
    NoAvatar = NoAvatar
    NoRow = NoRow
    NoEntry = NoEntry
    NoID = NoID
    NoUser = NoUser
    Requests = {r1}
    Imported <- ImportedAnn
    Trimmed <- TrimBlanks
    Offered <- DetailedCalls
    Faults <- NoFaults
    MaxWrites = 2
SPECIFICATION Spec
INVARIANT
    DeletedIsNotRead
CHECK_DEADLOCK FALSE
