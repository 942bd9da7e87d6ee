\* A graceful shutdown while a command is handled, nothing else failing.
CONSTANTS
    good = good
    fine = fine
    bad = bad
    torn = torn
    Consumers = {c1}
    Partitions = {p1}
    Events = {good}
    Kind <- BadIsFailing
    Nobody = Nobody
    MaxAttempts = 2
    Faults <- OnlyShutdown
    MaxFaults = 1
    MaxLog = 4
    MaxRetries = 2
SPECIFICATION FairSpec
PROPERTY
    EventuallyHandled
CHECK_DEADLOCK FALSE
