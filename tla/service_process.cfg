\* A process that starts, serves, loses consumers, and is stopped at any time.
SPECIFICATION FairServiceSpec
CONSTANTS
    s1 = s1
    s2 = s2
    Loops = {"create", "recovery"}
    Calls = {s1, s2}
    ProcessFaults = {"kafka", "port", "accept"}
    MaxReaders = 7
INVARIANTS
    ServiceTypeOK
    CallsFindStoresOpen
    OnlyCancelledOutliveStores
    ReadersAreBounded
    PanicsBeforeServing
PROPERTY
    ConsumersComeBack
CHECK_DEADLOCK FALSE
