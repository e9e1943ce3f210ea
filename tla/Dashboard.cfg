SPECIFICATION PageSpec
CONSTANTS
    None = None
    Jobs = {1}
    Limit = 1
    Ends = {"COMPLETED"}
PROPERTY PageFollowsStream
CHECK_DEADLOCK FALSE
