\* Every kind of failure, two processes.
CONSTANTS
    p1 = p1
    Transfer = {t1}
    Proc = {p1, p2}
    Partition = {q1}
    KeyPartition <- OnePartition
    InitialOwner <- OneOwner
    Absent = Absent
    NoCmd = NoCmd
    MaxCopies = 2
    MaxTopic = 4
    FaultKinds = {"crash", "rebalance", "add", "read", "publish", "store", "commit", "expiry"}
    MaxFaults = 2
SPECIFICATION Spec
CHECK_DEADLOCK FALSE
INVARIANTS
    TypeOK
    PrepareAcceptedOnce
    FulfilOnlyIfPrepared
    PersistedWasAnnounced
PROPERTY
    StoredNeverRegresses
