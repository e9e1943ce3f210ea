SPECIFICATION FairSpec
CONSTANTS
    None = None
    Parent = Parent
    Jobs = {0, 1}
    EndWords = {"COMPLETED", "FAILED"}
    SortedKeys <- MCSortedKeys
    Upper <- MCUpper
    ShellNames <- MCShellNames
    Sweeps <- MCSweeps
INVARIANTS
    TypeOK
    TaskRunsItsConfig
    TaskEndIsReal
    ArrayEndIsReal
PROPERTIES
    ResultsEnd
CHECK_DEADLOCK FALSE
