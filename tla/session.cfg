\* A component that starts up to three sessions, and the agent; two failures of any
\* kind; messages in two pieces, a buffer of three.
CONSTANTS
    Programs <- MCPrograms
    FaultKinds <- Fault
    MaxFaults = 2
    MaxInits = 3
    MaxId = 2
    MaxUpdates = 1
    MsgLen = 2
    BufLen = 3
SPECIFICATION FairSpec
INVARIANTS
    TypeOK
    ListenerHasSession
    ReleasedWhenDown
    
    MessagesInOrder
    UnwindComplete
PROPERTIES
    DeinitReturns
    CloseNoticed
