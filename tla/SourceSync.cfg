CONSTANTS
  p1 = p1
  p2 = p2
  s1 = s1
  s2 = s2
  f1 = f1
  f2 = f2
  None = None
  Stale = Stale
  Sources = {s1}
  Prints = {f1, f2}
  Pollers = {p1, p2}
  UserText = {f1}
  IdleGated = TRUE
  MaxVersion <- ChangesOnce
  MaxFaults = 2
SPECIFICATION FairSpec
INVARIANTS ProgressKept CheckpointIsSettled
PROPERTIES ActsUndisturbed CatchesUp
