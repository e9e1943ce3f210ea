SPECIFICATION FairClusterSpec
CONSTANTS
    None = None
    Parent = Parent
    Jobs = {0, 1}
    EndWords = {"COMPLETED", "FAILED"}
    SortedKeys <- MCSortedKeys
    Upper <- MCUpper
    ShellNames <- MCShellNames
    Sweeps <- MCSweeps
PROPERTIES
    ArrayWaitEnds
CHECK_DEADLOCK FALSE
