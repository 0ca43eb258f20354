\* A failed read or commit: the ledger, its cap, and the refinement of NetDebitCap.
CONSTANTS
    a = a
    b = b
    t1 = t1
    t2 = t2
    t3 = t3
    p1 = p1
    p2 = p2
    q1 = q1
    q2 = q2
    Participant = {a, b}
    Transfer = {t1, t2, t3}
    Proc = {p1, p2}
    Partition = {q1, q2}
    Payer <- MCPayer
    Payee <- MCPayee
    Amount <- MCAmount
    Accounts <- AllAccounts
    Limit <- MCLimit
    InitialPosition <- MCInitial
    Registered = {a}
    FundsPartition <- MCFundsPartition
    KeyPartition <- MCKeyPartition
    Direct = {}
    InitialOwner <- MCOwner
    Absent = Absent
    NoCmd = NoCmd
    MaxCopies = 1
    MaxTopic = 3
    FaultKinds = {"read", "commit"}
    MaxFaults = 1
SPECIFICATION Spec
CHECK_DEADLOCK FALSE
INVARIANTS
    LedgerAgrees
    NetUnderCap
    AnsweredOnce
PROPERTY
    ImplementsLedger
