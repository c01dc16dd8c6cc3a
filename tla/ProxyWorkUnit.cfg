SPECIFICATION Spec
CONSTANTS
    Replies <- TwoWorkUnitsOrNone
    Generated <- Outputs
    OpenName <- OpenNames_MC
    MaxFiles = 8
    Faults <- AnyFault
INVARIANTS
    TypeOK
    ListsEnd
    ReportsTheLastResult
    ComputesItsInputs
    CallbackIsReset
