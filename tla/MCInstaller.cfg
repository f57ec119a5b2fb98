SPECIFICATION Spec
INVARIANTS Recoverable CommittedLoads
PROPERTIES OnlyOwn QuietDeletion
CHECK_DEADLOCK FALSE
