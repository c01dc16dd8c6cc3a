SPECIFICATION Spec
CONSTANTS
    Logins <- TwoLogins
    AppLogin = "ann"
    HostIds <- OneHost
    MaxTotal = 2
    MaxKills = 2
    MaxChanges = 1
    Faults <- AnyFault
INVARIANTS
    TypeOK
    OneCopyIsWhole
    CountIsKept
    OneLoginInUse
CHECK_DEADLOCK FALSE
