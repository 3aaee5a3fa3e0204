\* Any of the threads renders, and the other two compete for one place.
CONSTANTS
  Threads = {t1, t2, t3}
  None = None
  QueueCapacity = 1
SPECIFICATION FairSpec
INVARIANTS
  Consistent
  InvokeContract
PROPERTIES
  IsExecutor
  CallsReturn
