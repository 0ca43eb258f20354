\* A fulfilment of another condition.
CONSTANTS
    p1 = p1
    Transfer = {t1}
    Proc = {p1, p2}
    Partition = {q1}
    KeyPartition <- OnePartition
    InitialOwner <- OneOwner
    Absent = Absent
    NoCmd = NoCmd
    MaxCopies = 1
    MaxTopic = 4
    FaultKinds = {}
    MaxFaults = 0
SPECIFICATION Spec
CHECK_DEADLOCK FALSE
INVARIANT
    MismatchPersisted
