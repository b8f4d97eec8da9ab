SPECIFICATION FairSpec
CONSTANTS
    Caller = {c1, c2}
    Host = {"headless", "shell"}
    Skin = {modern, winamp}
    Default = modern
    OtherId = {other}
    Asked <- MCAsked
    Fragile <- MCFragile
    Nested = FALSE
    MaxLost = 1
    NaN = NaN
    NoCaller = NoCaller
    NoRequest = NoRequest
    NoAnswer = NoAnswer
    NoSkin = NoSkin
INVARIANTS
    AnswersAreCurrent
    SettingsTakeEffect
PROPERTY
    CallsEnd
