SPECIFICATION Spec
CONSTANTS
    Logins <- TwoLogins
    AppLogin = "ann"
    HostIds <- OneHost
    MaxTotal = 1
    MaxKills = 0
    MaxChanges = 1
    Faults <- NoFault
INVARIANT NewLoginInUse
CHECK_DEADLOCK FALSE
