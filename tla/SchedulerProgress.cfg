SPECIFICATION FairSpec
CONSTANTS
    NbWorkUnits = 2
    BusyDelay = 1
    LoadDelay = 1
    RetryBase = 1
    RetryStep = 0
    ServerDelays = {}
    LoadTries = 2
    UploadTries = 2
    MaxTries = 2
    Faults <- PassingFaults
INVARIANTS
    NoSlotIsStranded ComputedWorkIsReported
PROPERTIES
    DownloadedIsComputed SomeResultGetsThrough KeepsComputing ImplementsLifecycle
