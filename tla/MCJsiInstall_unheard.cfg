\* Whether a call's callback always gets as far as its promise.
CONSTANTS
    Calls = {c1}
    MaxInstalls = 1
    None = None
SPECIFICATION Spec
INVARIANTS
    CallbackFires
