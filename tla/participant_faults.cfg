\* Every kind of failure: the cap on each copy, redis against the stream, no
\* command lost, no command stuck.
CONSTANTS
    a = a
    b = b
    t1 = t1
    t2 = t2
    t3 = t3
    p1 = p1
    p2 = p2
    q1 = q1
    q2 = q2
    Participant = {a, b}
    Transfer = {t1, t3}
    Proc = {p1, p2}
    Partition = {q1}
    Payer <- MCPayer
    Payee <- MCPayee
    Amount <- MCAmount
    Accounts <- PayerNoAccount
    Limit <- MCLimit
    InitialPosition <- MCInitial
    Registered = {a}
    FundsPartition <- OnePartition
    KeyPartition <- OnePartition
    Direct <- MCDirect
    InitialOwner <- OneOwner
    Absent = Absent
    NoCmd = NoCmd
    MaxCopies = 1
    MaxTopic = 3
    FaultKinds = {"crash", "rebalance", "read", "publish", "store", "commit"}
    MaxFaults = 2
SPECIFICATION FairSpec
CHECK_DEADLOCK FALSE
INVARIANTS
    TypeOK
    PositionsCapped
    PersistedWasPublished
    CommittedAnswered
PROPERTY
    CommandsConsumed
