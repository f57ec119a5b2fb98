SPECIFICATION Spec
CONSTANTS
    Limit = 3
    Buffer = 2
    Reads = 2
    Pipe = 3
    Written = 4
INVARIANTS WholeOutput
PROPERTIES CaptureEnds KillsOwn
CHECK_DEADLOCK FALSE
