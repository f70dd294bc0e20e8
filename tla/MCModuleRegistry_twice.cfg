\* Loading an id a second time: the call after it does not reach the module.
CONSTANTS
    Ids = {a}
    Threads = {t1}
    MaxLoads = 2
    MaxCalls = 1
    None = None
SPECIFICATION Spec
INVARIANTS
    NoSpuriousLoss
