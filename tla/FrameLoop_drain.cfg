CONSTANT MaxTime = 1
SPECIFICATION FairSpec
INVARIANT DrainedWaitIsBegun
CHECK_DEADLOCK FALSE
