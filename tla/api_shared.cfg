\* Two client threads whose requests share the one slot of the table.
CONSTANTS
    TableSize = 1
    MaxRequests = 2
    NoTransaction = NoTransaction
    Threads = 2
    Modes <- MCMixedModes
    MaxOtherRows = 0
    StartingId = 1000
    Verdicts = {"SUCCESS"}
    Faults = {"write"}
    Meetings = {"table"}
SPECIFICATION Spec
INVARIANTS
    BlockedOnlyDuringCall
    FailedCallLeavesNoTransaction
PROPERTIES
    ImplementsContract
