\* Overlapping commands and previews of two users, every fault but the files.
CONSTANTS
    u1 = u1
    u2 = u2
    ann = ann
    pic = pic
    UserIDs = {u1, u2}
    Usernames = {ann}
    NoName = NoName
    Avatars = {pic}
    NoAvatar = NoAvatar
    NoRow = NoRow
    NoEntry = NoEntry
    NoID = NoID
    NoUser = NoUser
    Requests = {r1, r2}
    Imported <- ImportedAnn
    Trimmed <- NoPadding
    Offered <- PreviewCalls
    Faults <- NoFileFaults
    MaxWrites = 2
SPECIFICATION HistorySpec
SYMMETRY Slots
INVARIANTS
    TypeOK
    OutboxReplaysTable
    StaleOnlyIfDisturbed
    CopiesAgree
    ReadModelDerived
    PreviewHasURL
PROPERTY
    RefinesLifecycle
CHECK_DEADLOCK FALSE
