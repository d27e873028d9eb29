\* Liveness under fair scheduling: rejected inserts, lost receipts and a closed
\* connection.
CONSTANTS
    TableSize = 10
    MaxRequests = 2
    NoTransaction = NoTransaction
    Threads = 1
    Modes <- MCBlocked
    MaxOtherRows = 0
    StartingId = 1000
    Verdicts = {"SUCCESS"}
    Faults = {"reject", "drop"}
    Meetings = {"list"}
SPECIFICATION FairSpec
PROPERTIES
    EveryCallReturns
    CompletedRowsDeleted
