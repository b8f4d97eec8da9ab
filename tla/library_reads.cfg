SPECIFICATION Spec
CONSTANTS
    a = a
    b = b
    Path = {a, b}
    Codec <- MCCodec
    Title = {x}
    Caller = {c}
    Limit = 2
    NoRow = NoRow
    NoTitle = NoTitle
    NoValue = NoValue
    MaxId = 3
    MaxWrites = 5
    MaxPlays = 1
INVARIANTS
    SearchAnswersItsMatches
    OverviewDrift
    LogIsOfTracks
