SPECIFICATION Spec
INVARIANTS ReceiptsIntact
CHECK_DEADLOCK FALSE
