SPECIFICATION Spec
CONSTANTS
    user = user
    watcher = watcher
    None = None
    Jobs = {j1}
    EndWords = {"COMPLETED", "FAILED", "CANCELLED by uid"}
    Clients = {user, watcher}
    Watchers = {watcher}
    Calls <- MCCalls
INVARIANTS
    TypeOK
    RecordedEndIsReal
    SuccessIsReal
CHECK_DEADLOCK FALSE
