CONSTANTS
    Address = {"ip"}
    Level = {"debug", "info", "err"}
    Number <- MCNumber
    Network = {"net"}
    INT_MIN <- MCIntMin
    INT_MAX <- MCIntMax
    File <- MCFile
    Glob <- MCGlob
    Start <- MCStart
    Content <- MCContent
    Default <- MCDefault
    MAX_INCLUDE_FILES = 4
    MaxEdits = 2
SPECIFICATION FairSpec
INVARIANTS AcceptedIffSound PrecedenceHolds StaticServersComplete
PROPERTIES HigherWins WalkEnds
CHECK_DEADLOCK FALSE
