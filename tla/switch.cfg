\* Two transfers of one payer, one of them over its cap; both payee sides; every
\* kind of failure.
CONSTANTS
    a = a
    b = b
    t1 = t1
    t2 = t2
    Participant = {a, b}
    Transfer = {t1, t2}
    Payer <- MCPayer
    Payee <- MCPayee
    Amount <- MCAmount
    Limit <- MCLimit
    Matching = {t1}
    Queried = {t2}
    Confirm = TRUE
    NoHand = NoHand
    Settings <- MCSettings
    MaxAnswers = 1
    FaultKinds = {"crash", "crashInPrepare", "publish", "callback", "accept"}
SPECIFICATION FairSpec
CHECK_DEADLOCK FALSE
INVARIANTS
    TypeOK
    ToldOnlyWhatHappened
    PaidOnlyIfHeldAndFulfilled
    MovedOncePerFailure
    UpstreamKept
    HalvesAgree
PROPERTIES
    StatusOnlyAdvances
    RequestsEnd
