\* A restored memory is active and current, and a retrieval leaves it out.
SPECIFICATION ReadSpec
CONSTANTS
  s1 = s1
  s2 = s2
  m1 = m1
  k1 = k1
  t1 = t1
  x1 = x1
  x2 = x2
  e1 = e1
  None = None
  Scopes = {s1, s2}
  NamedKeys = {k1}
  MemoryTypes = {t1}
  DefaultType = t1
  Contents = {x1, x2}
  EvidenceIds = {e1}
  MemoryIds = {m1, m2}
  CandidateIds = {c1, c2, c3}
  Keys = {i1, i2, i3}
  Callers = {r1}
  Inputs <- RestoredInputs
  Readers = {q1}
  MaxClaimed = 3
  TopK = 2
  InForce = {x1, x2}
SYMMETRY Symmetry
PROPERTIES NothingHidden
