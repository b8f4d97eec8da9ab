SPECIFICATION HFairSpec
CONSTANTS
    Client = {c, d}
    MaxCalls <- FewCallsToSlow
    BufCap = 2
    Slow = {d}
INVARIANTS AnswersOwnCall HandledInOrder
PROPERTIES IpcIsCalls CallEnds SentIsHandled
CHECK_DEADLOCK FALSE
