\* One game thread and the render thread; three frames.
CONSTANTS
  Games = {g1}
  Presenter = p
  Capacity = 3
  MaxFrames = 3
SPECIFICATION OverlapFairSpec
INVARIANTS
  NoPairIsLost
PROPERTIES
  FinishHappens
\* The host closes.
CHECK_DEADLOCK FALSE
