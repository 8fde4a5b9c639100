CONSTANTS
    root = root
    pivot = pivot
    outer = outer
    inner = inner
    next = next
    x = x
    y = y
    z = z
    Nodes = {root, pivot, outer, inner, next}
    Root = root
    Pivot = pivot
    Parent <- ThenParent
    Runner = runner
    Stopper = stopper
    Threads = {outer, inner, next, runner, stopper}
    Exceptions = {e1}
    NoException = NoException
    NoNode = NoNode
    Contexts = {outer, inner, next}
    Callbacks = {x, y, z}
    ScopeOf <- ThenScopes
    NoCallback = NoCallback
    Heap <- ThenHeap
    NoAddress = 0
SPECIFICATION PivotSpec
INVARIANTS CallbackIsLive TriggerIsReported
CHECK_DEADLOCK FALSE
