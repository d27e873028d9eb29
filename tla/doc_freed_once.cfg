\* "Returns a ptr to the removed transaction": one call that times out while it
\* is completed.
CONSTANTS
    TableSize = 10
    MaxRequests = 1
    NoTransaction = NoTransaction
    Threads = 1
    Modes <- MCBlocked
    MaxOtherRows = 0
    StartingId = 1000
    Verdicts = {"SUCCESS"}
    Faults = {}
    Meetings = {"table"}
SPECIFICATION Spec
INVARIANTS
    FreedOnce
