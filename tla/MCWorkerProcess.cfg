SPECIFICATION Spec

CONSTANTS
    Allowance = 8
    Chunk = 2
    Reads = 2
    Surplus = 3
    Pipe = 10
    Output = 10

INVARIANTS
    NoHiddenOverflow
    NoneLeft

PROPERTIES
    SignalsOwn
    AlwaysEnds

CHECK_DEADLOCK FALSE
