CONSTANTS
    root = root
    pivot = pivot
    outer = outer
    inner = inner
    next = next
    x = x
    y = y
    z = z
    Nodes = {root, pivot, outer, inner}
    Root = root
    Pivot = pivot
    Parent <- NestedParent
    Runner = runner
    Stopper = stopper
    Threads = {outer, inner, runner, stopper}
    Exceptions = {e1}
    NoException = NoException
    NoNode = NoNode
    Contexts = {outer}
    Callbacks = {x, y}
    ScopeOf <- NestedScopes
    NoCallback = NoCallback
    Heap <- NestedHeap
    NoAddress = 0
SPECIFICATION PivotBlockedSpec
PROPERTY ProgramEnds
CHECK_DEADLOCK FALSE
