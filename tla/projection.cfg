\* A name changes hands while events about its first owner are under way.
CONSTANTS
    u1 = u1
    u2 = u2
    ann = ann
    padded = padded
    pic = pic
    UserIDs = {u1, u2}
    Usernames = {ann, padded}
    NoName = NoName
    Avatars = {pic}
    NoAvatar = NoAvatar
    NoRow = NoRow
    NoEntry = NoEntry
    NoID = NoID
    NoUser = NoUser
    Requests = {r1, r2}
    Imported <- ImportedAnn
    Trimmed <- TrimBlanks
    Offered <- Succession
    Faults <- AllFaults
    MaxWrites = 2
SPECIFICATION ProjectionSpec
SYMMETRY Slots
INVARIANTS
    ProjectionTypeOK
    ProjectionDerived
    RequestsAreWarm
CHECK_DEADLOCK FALSE
