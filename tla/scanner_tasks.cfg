SPECIFICATION FairSpec
CONSTANTS
    Path = {p, q}
    Parsed = {p}
    Version = {"v1"}
    Untagged = {"untitled"}
    Task = {s, r}
    Walker = {s}
    NoPath = NoPath
    NoRow = NoRow
    NoTitle = NoTitle
    NoTag = NoTag
    MaxId = 3
    MaxEdits = 2
    MaxFaults = 1
INVARIANTS SearchRowsAreTracks TitlesStayWithTheirFile
PROPERTY IndexCatchesUp
CHECK_DEADLOCK FALSE
