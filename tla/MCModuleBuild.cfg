CONSTANTS
    Builds = {b1, b2}
    Files = {main, other}
    Main = main
    NoFile = NoFile
    Absent = Absent
    Torn = Torn
    MaxEdits = 1
SYMMETRY BuildSymmetry
SPECIFICATION MCSpec
INVARIANT
    AuthoredIsKept
PROPERTY
    FreshInTurn
