CONSTANTS
    MaxDispatch = 3
    CommandsFail = TRUE
SPECIFICATION FairSpec

PROPERTY WaitReturns
CHECK_DEADLOCK FALSE
