\* Two replicas that share a durable consumer; one message always fails.
SPECIFICATION FairPullSpec
CONSTANTS
    p1 = p1
    p2 = p2
    w1 = w1
    m1 = m1
    m2 = m2
    none = none
    Replicas = {p1, p2}
    Workers = {w1}
    Messages = {m1, m2}
    Poison <- OneMessageFails
    Config <- TinyConfig
    NoDelivery = none
    NatsFaults = {"nats", "handler", "crash", "stop"}
    MaxFaults = 1
INVARIANTS
    PullTypeOK
    DeliveriesAreAccounted
    EnsuredStreamsExist
    StopIsNeverStuck
PROPERTIES
    StopRunsDown
    RefinesDurableConsumer
    EveryMessageSettles
