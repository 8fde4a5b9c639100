CONSTANTS
    root = root
    left = left
    leaf = leaf
    Nodes = {root, left, leaf}
    Parent <- ChainParent
    Root = root
    Threads = {t1, t2, t3}
    Exceptions = {e1}
    NoException = NoException
    NoNode = NoNode
SPECIFICATION FairSpec
INVARIANTS ChildrenAreReached ExceptionReachesChildren NoUseAfterDestroy
PROPERTIES CancelReachesAll CancelEndsWaits
