\* Two rows of every kind on three models, one failure of any kind or one crash.
CONSTANTS
    Names <- MCNames
    Configs <- MCConfigs
    InitialNets <- MCNets
    Models <- MCModels
    FaultKinds <- Fault
    MaxRows = 2
    MaxFaults = 1
SPECIFICATION FairSpec
INVARIANTS
    TypeOK
    SuccessIsConfigured
    SuccessHasFlows
    OthersUndisturbed
    NoticedFailuresReported
PROPERTIES
    ImplementsAgentContract
    RowsAnswered
