SPECIFICATION Spec
CONSTANT Faults <- AnyFault
INVARIANTS
    TypeOK
    ReadsLiveObject
    ViewIsConsistent
    NoSelfDeadlock
    FileFollowsStatus
