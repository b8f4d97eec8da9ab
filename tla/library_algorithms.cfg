SPECIFICATION Spec
CHECK_DEADLOCK FALSE
CONSTANTS
    NoAnswer = NoAnswer
    Starts <- MCStarts
    TrackLists <- MCTrackLists
    Searches <- MCSearches
    Maps <- MCMaps
    F32 <- MCF32
    NaN = NaN
    FAdd <- MCFAdd
    FMul <- MCFMul
    FDiv <- MCFDiv
    FSqrt <- MCFSqrt
    Unsigned <- MCUnsigned
    Word <- MCWord
    Number <- MCNumber
    Quoted <- MCQuoted
    Num <- MCNum
    Piece <- MCPiece
    Places <- MCPlaces
    Token <- MCToken
    Values <- MCValues
    Tints <- MCTints
    Skins <- MCSkins
    Templates <- MCTemplates
    RequiredCssVariables = {"--accent", "--accent-2"}
    ValidGrids = {"top-main-player"}
INVARIANTS
    StartsAsConfigured
    PlaylistsHoldWhatTheySay
    GroupsAreTheDuplicates
    PathParsesBack
    SkinTextsAreAsAsked
    RecommendsTheBest
