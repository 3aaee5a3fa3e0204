\* A second game thread.
CONSTANTS
  Games = {g1, g2}
  Presenter = p
  Capacity = 3
  MaxFrames = 1
SPECIFICATION OverlapFairSpec
INVARIANT FinishIsAdmitted
CHECK_DEADLOCK FALSE
