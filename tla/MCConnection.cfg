SPECIFICATION FairSpec
CONSTANTS
    MaxReplies = 2
INVARIANTS
    TypeOK
    TokensBounded
    StackBalanced
    AppendsDefined
    AcceptedIsParsed
    KeepAliveOfRequest
    AnsweredOnce
PROPERTIES
    KeptAsAnnounced
    ParserReceives
