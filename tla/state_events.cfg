\* The repositories, recovery, the snapshot operator and the read side, with up to
\* two failures.
CONSTANTS
    a = a  p = p  q = q
    Id <- MCId
    Proc <- MCProc
    Settings <- MCSettings
    MaxEvents = 1
    MaxPending = 2
SPECIFICATION FairSpec
CHECK_DEADLOCK FALSE
INVARIANTS
    TypeOK
    LoadsLast
    CreatedOnce
    NeverUndercounts
    ReadSideFollows
    CommittedIsCreated
PROPERTIES
    SnapshotsTaken
    RunsAgain
