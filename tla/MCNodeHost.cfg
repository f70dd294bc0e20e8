\* Three requests of any kind, a crash or a dispose at any moment.
CONSTANT MaxRequests = 3
SPECIFICATION Spec
INVARIANTS
    NothingAwaitsTheDead
    LoadBeforeCall
    DrainedBeforeTeardown
PROPERTIES
    RequestSettles
    RepliesToItsOwn
\* The session may end: nobody has to send another request.
CHECK_DEADLOCK FALSE
