\* Loads, calls and unloads of two ids on two workers and the JS thread.
\* Without symmetry, because liveness is checked as well.
CONSTANTS
    Ids = {a, b}
    Threads = {t1, t2}
    MaxLoads = 3
    MaxCalls = 2
    None = None
SPECIFICATION Spec
INVARIANTS
    LossNeedsReload
    TablesAgree
    NoOrphanEntry
    AttachedWhileHeld
    FaultNeedsOverlap
    NothingOutlivesCore
PROPERTIES
    OperationEnds
