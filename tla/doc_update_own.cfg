\* Expected violation: a late receipt updates the transaction that took the slot.
CONSTANTS
    TableSize = 2
    MaxRequests = 3
    NoTransaction = NoTransaction
    Threads = 1
    Modes <- MCBothModes
    MaxOtherRows = 0
    StartingId = 1000
    Verdicts = {"SUCCESS"}
    Faults = {}
    Meetings = {"id", "list", "table"}
SPECIFICATION Spec
PROPERTIES
    UpdatesOwnTransaction
