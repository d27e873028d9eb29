\* One client thread, a slot for every request, another component, every fault.
CONSTANTS
    TableSize = 10
    MaxRequests = 2
    NoTransaction = NoTransaction
    Threads = 1
    Modes <- MCBothModes
    MaxOtherRows = 1
    StartingId = 1000
    Verdicts = {"SUCCESS"}
    Faults = {"write", "reject", "drop"}
    Meetings = {"id"}
SPECIFICATION Spec
INVARIANTS
    TypeOK
    NoLostWakeup
    ToldOwnStatus
    ReceiptBeforeReply
    OneFeedbackMonitor
PROPERTIES
    OthersRowsUntouched
