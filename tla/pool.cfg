CONSTANTS
    MaxTasks = 3
    Width = 2
    MaxStarting = 2
    MaxThreads = 2
SPECIFICATION FairSpec
INVARIANTS TasksAreAlive EveryTaskHasAThread NothingIsAbandoned
PROPERTIES TaskIsOver OwnerReturns
CHECK_DEADLOCK FALSE
