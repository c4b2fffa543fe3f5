SPECIFICATION Spec
CONSTANTS
    Tabs = {first, second}
    MaxSessions = 2
    MaxPassword = 1
    MaxLinks = 1
    MaxTroubles = 0
SYMMETRY MCTabs
CHECK_DEADLOCK FALSE
INVARIANT ResetEndsSessions
