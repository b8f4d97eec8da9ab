SPECIFICATION FairPlaySpec
CONSTANTS
    MaxDuration = {TRUE, FALSE}
    MaxSignals = 2
INVARIANTS
    ExitTellsTheOutcome
    DeviceReleased
PROPERTIES
    SignalEnds
    PlayEnds
