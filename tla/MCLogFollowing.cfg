SPECIFICATION FairSpec
CONSTANTS
    Lines = 1
    Limit = 1
    MaxChars = 2
INVARIANTS
    TypeOK
    ResultIsLog
PROPERTIES
    ImplementsLogReader
    FollowCatchesUp
CHECK_DEADLOCK FALSE
