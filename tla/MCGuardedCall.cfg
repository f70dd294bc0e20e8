\* Two plugins, whose hooks may throw at any point.
\* Words of four bits: counts and sizes on both sides of the largest word.
CONSTANTS
    NPlugins = 2
    MaxWord = 15
    Room = 12
    Sizes = {1, 4}
    Counts = {0, 1, 3, 4, 5, 15, 16}
    MaxArgs = 2
SPECIFICATION GuardedSpec
INVARIANTS
    HooksBracket
    NothingLeft
    NothingLeaks
    NoOverrun
    FailsByItself
PROPERTIES
    CallerIsFreed
