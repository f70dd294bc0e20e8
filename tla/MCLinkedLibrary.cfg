\* Two workers and the JS thread, two calls each.
CONSTANTS
    Threads = {t1, t2, t3}
    Addresses = {a1, a2, a3, a4}
    MaxCalls = 2
    None = None
    Garbage = Garbage
    Empty = Empty
SPECIFICATION Spec
SYMMETRY Symmetry
INVARIANTS
    AnsweredInTurn
    FreedOnce
CHECK_DEADLOCK FALSE
