\* Expected violation: the first Feedback precedes the monitor of the table.
CONSTANTS
    TableSize = 10
    MaxRequests = 1
    NoTransaction = NoTransaction
    Threads = 1
    Modes <- MCUnblocked
    MaxOtherRows = 0
    StartingId = 1000
    Verdicts = {"SUCCESS"}
    Faults = {}
    Meetings = {"id", "list", "table"}
SPECIFICATION FairSpec
PROPERTIES
    StatusReturnedLater
