SPECIFICATION FairSpec
CONSTANTS
    user = user
    watcher = watcher
    None = None
    Jobs = {j1}
    EndWords = {"COMPLETED", "CANCELLED"}
    Clients = {user, watcher}
    Watchers = {watcher}
    Calls <- MCWaitCalls
PROPERTIES
    WaitEnds
    StoreConverges
CHECK_DEADLOCK FALSE
