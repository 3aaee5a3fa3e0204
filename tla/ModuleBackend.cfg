SPECIFICATION FairSpec
CONSTANT MaxAttempts = 2
INVARIANTS ThreadsAgree ShutdownContract
PROPERTY CallsReturn
CHECK_DEADLOCK FALSE
