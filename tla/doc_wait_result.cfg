\* Expected violation: the callback beats the wait, and the call fails.
CONSTANTS
    TableSize = 10
    MaxRequests = 1
    NoTransaction = NoTransaction
    Threads = 1
    Modes <- MCBothModes
    MaxOtherRows = 0
    StartingId = 1000
    Verdicts = {"SUCCESS"}
    Faults = {}
    Meetings = {"id", "list", "table"}
SPECIFICATION Spec
INVARIANTS
    WaitEndsByCallbackOrTimeout
