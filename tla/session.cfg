CONSTANTS
    MaxDispatch = 3
    CommandsFail = TRUE
SPECIFICATION FairSpec
INVARIANTS RunsTheCurrent CancelReachesCommands StopReachesCommands
PROPERTIES CancelAboveEnds ReplaceReturns CancelFreesOwner
CHECK_DEADLOCK FALSE
