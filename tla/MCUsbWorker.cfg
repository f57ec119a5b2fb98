SPECIFICATION Spec
CONSTANTS
    Transfers = 2
    Capacity = 1
    Packed = 2
    LastFrame = 3
INVARIANTS TransferLimits QuietHalt HonestOutcome
PROPERTIES InOrder WorkerEnds
CHECK_DEADLOCK FALSE
