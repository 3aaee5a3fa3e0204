SPECIFICATION Spec
CONSTANT MaxAttempts = 1
INVARIANT FenceIsFinal
CHECK_DEADLOCK FALSE
