\* Two calls that overlap.
CONSTANTS
    Threads = {t1, t2}
    Addresses = {a1, a2, a3}
    MaxCalls = 1
    None = None
    Garbage = Garbage
    Empty = Empty
SPECIFICATION Spec
INVARIANTS
    NeverDangles
CHECK_DEADLOCK FALSE
