\* Three loads of one name through two bridges, in turn and overlapping.
CONSTANTS
    l1 = l1 l2 = l2 l3 = l3 b1 = b1 b2 = b2 n1 = n1
    Loads = {l1, l2, l3}
    Bridges = {b1, b2}
    Names = {n1}
    BridgeOf <- TwoBridges
    NameOf <- OneName
    None = None
SPECIFICATION Spec
INVARIANTS
    CacheIsLive
    UsableWhileHeld
    CachedInTurn
    NothingLeftLoaded
PROPERTIES
    GivenUpIsUnloaded
\* Nobody has to load or dispose anything more.
CHECK_DEADLOCK FALSE
