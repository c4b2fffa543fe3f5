SPECIFICATION Spec
CONSTANTS
    Me = me  Partner = partner
    EarlierLog <- MCOneMessage
    PageSize = 2
    MaxPollPages = 2
    MaxLog = 4
    MaxTroubles = 1
CHECK_DEADLOCK FALSE
INVARIANTS TypeOK OnlyOvertakenSkipped ReadTicksAreTrue
PROPERTIES ShownStaysShown Delivered
