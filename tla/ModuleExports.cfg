\* Three callers, two configurations that race, tokens for two starts, the first unpublished.
CONSTANTS
  Callers = {c1, c2, c3}
  MaxToken = 3
  InitialToken = 0
  Configs = {k1, k2}
  NoModule = NoModule
SPECIFICATION ExportsFairSpec
INVARIANTS LifecycleConsistent InitContract ExportContract
PROPERTY StoppingEnds
