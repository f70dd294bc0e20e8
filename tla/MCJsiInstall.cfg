\* Both platforms.  Android: the install may time out and be retried.  iOS:
\* invalidate may uninstall at any time, with calls in flight.
CONSTANTS
    Calls = {c1, c2}
    MaxInstalls = 3
    None = None
SPECIFICATION Spec
INVARIANTS
    DoneMeansInstalled
PROPERTIES
    SettlesOnce
    SettledUnderCurrent
    NeverReplaced
    SettlesUnlessUnheard
    TeardownEnds
