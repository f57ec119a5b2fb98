SPECIFICATION Spec
CONSTANTS
    u1 = u1  u2 = u2
    Names <- MCNames
    NoName = none
    Batch = 2
    Failures = 3
    Retry = 2
    Capacity = 1
    Repeat = TRUE
INVARIANTS OrderedTeardown CleanBetweenSessions Ownership
PROPERTIES ForeignUntouched BridgedWhenActive KeepsPromise SessionEnds ServedMeansLeased
CHECK_DEADLOCK FALSE
