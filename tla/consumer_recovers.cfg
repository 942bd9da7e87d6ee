\* One consumer whose database answers and whose process lives.
CONSTANTS
    good = good
    fine = fine
    bad = bad
    torn = torn
    Consumers = {c1}
    Partitions = {p1, p2}
    Events = {good, fine}
    Kind <- BadIsFailing
    Nobody = Nobody
    MaxAttempts = 2
    Faults <- LiveFaults
    MaxFaults = 3
    MaxLog = 6
    MaxRetries = 4
SPECIFICATION FairSpec
INVARIANTS
    NothingIsLost
    NoOrphanedClaim
PROPERTY
    EventuallyHandled
CHECK_DEADLOCK FALSE
