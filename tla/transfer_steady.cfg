\* No crash, lost publication or store: duplicates and expiry included, the lifecycle is implemented.
CONSTANTS
    p1 = p1
    Transfer = {t1}
    Proc = {p1}
    Partition = {q1}
    KeyPartition <- OnePartition
    InitialOwner <- OneOwner
    Absent = Absent
    NoCmd = NoCmd
    MaxCopies = 2
    MaxTopic = 6
    FaultKinds = {"add", "read", "commit", "expiry"}
    MaxFaults = 2
SPECIFICATION Spec
CHECK_DEADLOCK FALSE
PROPERTY
    ImplementsLifecycle
