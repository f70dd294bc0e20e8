\* Which thread destroys the resolve and reject functions.
CONSTANTS
    Calls = {c1}
    MaxInstalls = 1
    None = None
SPECIFICATION Spec
INVARIANTS
    ReleasedOnJsThread
