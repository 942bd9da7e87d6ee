\* A user registered under a padded name, nothing failing.
CONSTANTS
    u1 = u1
    u2 = u2
    ann = ann
    padded = padded
    pic = pic
    UserIDs = {u1}
    Usernames = {ann, padded}
    NoName = NoName
    Avatars = {pic}
    NoAvatar = NoAvatar
    NoRow = NoRow
    NoEntry = NoEntry
    NoID = NoID
    NoUser = NoUser
    Requests = {r1}
    Imported <- NothingImported
    Trimmed <- TrimBlanks
    Offered <- Registration
    Faults <- NoFaults
    MaxWrites = 2
SPECIFICATION Spec
PROPERTY
    OwnedNameIsNotFree
CHECK_DEADLOCK FALSE
