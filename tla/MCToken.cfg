SPECIFICATION Spec
CONSTANTS
    BufSize = 3
    StreamLen = 6
INVARIANTS
    TypeOK
    Layout
    BufferIsStream
    ContentAfterBuffer
PROPERTIES
    TooShortOnlyWhenFull
    ImplementsStream
