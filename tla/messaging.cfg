\* Every client, with messages of every form and one or two failures.
CONSTANTS
    r1 = r1
    r2 = r2
    r3 = r3
    Request = {r1, r2, r3}
    Settings <- MCSettings
    QueueSize = 3
    FaultKinds = {"crash", "rebalance", "commit", "reject", "senderCrash", "ack", "connect"}
SPECIFICATION FairSpec
CHECK_DEADLOCK FALSE
INVARIANTS
    TypeOK
    CommittedIsHandled
    HandledInOrder
    RepeatsNeedFaults
    ResolvedIsStored
    SentInOrder
PROPERTY
    Arrives
