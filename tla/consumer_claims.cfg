\* Two consumers of one partition, a failing event, a garbled one, every fault.
CONSTANTS
    good = good
    fine = fine
    bad = bad
    torn = torn
    Consumers = {c1, c2}
    Partitions = {p1}
    Events = {good, bad, torn}
    Kind <- BadIsFailing
    Nobody = Nobody
    MaxAttempts = 2
    Faults <- AllFaults
    MaxFaults = 3
    MaxLog = 3
    MaxRetries = 1
SPECIFICATION Spec
SYMMETRY Members
INVARIANTS
    TypeOK
    OneHandlerAtATime
PROPERTY
    RefinesEventClaims
CHECK_DEADLOCK FALSE
