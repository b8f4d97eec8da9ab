SPECIFICATION Spec
CONSTANTS
    Track = {a, b}
    NoTrack = NoTrack
    MaxEntries = 4
    Ops <- AllOps
INVARIANT ShadowNeverLonger
PROPERTIES QueueIsPlaylist InOrderKept EntriesConserved RepeatAllPlaysEverything
