SPECIFICATION Spec
CONSTANTS
    Me = me  Partner = partner
    EarlierLog <- MCNoLog
    PageSize = 2
    MaxPollPages = 2
    MaxLog = 2
    MaxTroubles = 0
CHECK_DEADLOCK FALSE
INVARIANT NothingSkipped
