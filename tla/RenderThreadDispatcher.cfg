\* Two foreign closers beside the render and the owner thread.
CONSTANTS
  Closers = {k1, k2}
SPECIFICATION FairSpec
INVARIANTS
  Consistent
  RendezvousContract
PROPERTIES
  CallsReturn
