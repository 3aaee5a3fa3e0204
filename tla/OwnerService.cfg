\* Two callers and the owner; a queue of one, so that it fills; one restart.
CONSTANTS
  Callers = {c1, c2}
  Owner = owner
  Requests = {r1, r2}
  None = None
  QueueCapacity = 1
  MaxStarts = 2
SPECIFICATION FairSpec
INVARIANTS
  Consistent
  StopContract
PROPERTIES
  IsExecutor
  CallsReturn
