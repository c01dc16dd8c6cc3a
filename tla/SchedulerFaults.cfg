SPECIFICATION Spec
CONSTANTS
    NbWorkUnits = 2
    BusyDelay = 1
    LoadDelay = 1
    RetryBase = 1
    RetryStep = 0
    ServerDelays = {}
    LoadTries = 1
    UploadTries = 1
    MaxTries = 1
    Faults <- AnyFault
INVARIANTS
    TypeOK AtMostOneToken EventsMatchStatus QueueSorted ReportsAreTruthful
PROPERTIES
    LifeCycle UntouchedWhileComputing
