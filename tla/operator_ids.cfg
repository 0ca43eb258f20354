\* The ids the snapshot operator starts with.
CONSTANTS
    a = a  p = p  q = q
    Id <- MCId
    Proc <- MCProc
    Settings <- OperatorSettings
    MaxEvents = 1
    MaxPending = 2
SPECIFICATION Spec
CHECK_DEADLOCK FALSE
INVARIANT
    OperatorKnowsParticipants
