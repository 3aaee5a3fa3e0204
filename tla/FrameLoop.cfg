\* Predicted times 0, 1 and 2; a synthesized one is up to two periods later.
CONSTANT MaxTime = 2
SPECIFICATION FairSpec
INVARIANTS
  Consistent
  SessionContract
PROPERTIES
  FailureIsPublished
  CallsReturn
\* A closed session takes no more steps.
CHECK_DEADLOCK FALSE
