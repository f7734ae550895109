\* Two sessions of one device, three changes, batches of up to two.
SPECIFICATION FairSyncSpec
CONSTANTS
  p1 = p1
  p2 = p2
  d1 = d1
  Scopes = {s1}
  Scope = s1
  MemoryIds = {m1}
  Contents = {x1}
  Sessions = {p1, p2}
  Keys = {1, 2, 3}
  Devices = {d1}
  DeviceOf <- SameDevice
  MaxBatch = 2
CONSTRAINT KeysInOrder
INVARIANTS
  NothingSkipped
PROPERTIES
  CheckpointAdvances
  CatchesUp
