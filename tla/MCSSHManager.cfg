SPECIFICATION FairSpec
CONSTANTS
    None = None
    h1 = h1
    run1 = run1
    retry1 = retry1
    retry2 = retry2
    Threads = {h1}
    Calls = {run1, retry1, retry2}
    MaxRetries <- MCMaxRetries
    MaxShutdowns = 1
INVARIANTS
    TypeOK
    OneConnection
    RetryReconnects
PROPERTIES
    CallsReturn
CHECK_DEADLOCK FALSE
