SPECIFICATION Spec
CONSTANTS
    Core = {p}
    NoSocket = NoSocket
    Stale = Stale
    LoggerSet = {TRUE}
INVARIANT StartsWithoutError
