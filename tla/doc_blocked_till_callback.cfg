\* Expected violation: a blocked call ends with the callback of another request.
CONSTANTS
    TableSize = 10
    MaxRequests = 2
    NoTransaction = NoTransaction
    Threads = 1
    Modes <- MCBothModes
    MaxOtherRows = 0
    StartingId = 1000
    Verdicts = {"SUCCESS"}
    Faults = {}
    Meetings = {"id", "list", "table"}
SPECIFICATION Spec
INVARIANTS
    BlockedTillCallback
