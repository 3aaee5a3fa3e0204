\* Two presenting threads, two bindings one after or beside the other; a nested
\* Present may go one level deeper than the code lets it.
CONSTANTS
  Presenters = {t1, t2}
  Bindings = {b1, b2}
  MaxDepth = 2
SPECIFICATION LeaseFairSpec
INVARIANTS
  LeaseConsistent
  LeaseContract
PROPERTIES
  LeaseIsReleased
