SPECIFICATION Spec
CONSTANT Options <- MCOptions
CHECK_DEADLOCK FALSE
INVARIANTS TypeOK OnlyLateStartsSurvive CleanExitWasAsked
PROPERTIES ShutdownEnds UpOrGone
