SPECIFICATION FairSpec
CONSTANTS
    None = None
    Jobs = {1, 2}
    Limit = 1
    Ends = {"COMPLETED"}
INVARIANTS
    TypeOK
    StreamTellsAll
PROPERTIES
    StreamConverges
CHECK_DEADLOCK FALSE
