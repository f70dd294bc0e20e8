\* Two workers, two clients and three tasks at two priorities: tasks wait while
\* workers are busy, sleepers and workers on their way race for them.  Without
\* symmetry, because liveness is checked as well.
CONSTANTS
    Workers = {w1, w2}
    Clients = {c1, c2}
    Tasks = {t1, t2, t3}
    Priority = {1, 2}
    NoTask = NoTask
SPECIFICATION Spec
INVARIANTS
    OnePlace
    NoLostWakeup
    DrainedWhenJoined
PROPERTIES
    AcceptedSettles
    ShutdownReturns
    ImplementsExecutor
