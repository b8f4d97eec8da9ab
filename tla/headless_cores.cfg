SPECIFICATION FairSpec
CONSTANTS
    Core = {p, q}
    NoSocket = NoSocket
    Stale = Stale
    LoggerSet = {TRUE, FALSE}
INVARIANTS StartupNotBlocked ServingIsReachable
PROPERTIES LaunchLeadsToService ShutdownEnds
