SPECIFICATION FairSpec
CONSTANTS
    Base = 2
    Width = 3
    HeadSize = 2
    Align = 2
    FileHead = 1
    BufSize = 4
    StreamLen = 18
    HeadLen = 5
    MaxToken = 2
    Chunk = 2
    Scenarios <- MCScenarios
CHECK_DEADLOCK FALSE
INVARIANT Aligned
INVARIANT InputIsContent
INVARIANT OutputIsFile
PROPERTY Answered
