SPECIFICATION CalmSpec
CONSTANTS
    Process = {p, q}
    Inode = {f1, f2, f3, f4, f5}
    None = None
    MaxBytes = 1
    MaxFiles = 3
    MaxWrite = 1
    MaxSize = 2
    MayFail = TRUE
INVARIANT CappedFiles
PROPERTIES OnlyOldestDiscarded WriteLeavesPathWithinCap
SYMMETRY AnyFile
