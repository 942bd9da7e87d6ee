\* A preview query overlapping a deactivation, nothing failing.
CONSTANTS
    u1 = u1
    u2 = u2
    ann = ann
    padded = padded
    pic = pic
    UserIDs = {u1}
    Usernames = {ann}
    NoName = NoName
    Avatars = {pic}
    NoAvatar = NoAvatar
    NoRow = NoRow
    NoEntry = NoEntry
    NoID = NoID
    NoUser = NoUser
    Requests = {r1, r2}
    Imported <- ImportedAnn
    Trimmed <- TrimBlanks
    Offered <- Deactivation
    Faults <- NoFaults
    MaxWrites = 2
SPECIFICATION Spec
SYMMETRY Slots
INVARIANT
    InactiveIsNotPreviewedActive
CHECK_DEADLOCK FALSE
