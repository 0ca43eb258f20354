\* Two transfers of one payer, one of them over its cap.
CONSTANTS
    a = a
    b = b
    t1 = t1
    t2 = t2
    Participant = {a, b}
    Transfer = {t1, t2}
    Payer <- MCPayer
    Payee <- MCPayee
    Amount <- MCAmount
    Limit <- MCLimit
    Matching = {t1}
    Queried = {}
    Confirm = TRUE
    NoHand = NoHand
    Settings <- RefusalSettings
    MaxAnswers = 1
    FaultKinds = {}
SPECIFICATION Spec
CHECK_DEADLOCK FALSE
INVARIANT
    RefusedIsAborted
