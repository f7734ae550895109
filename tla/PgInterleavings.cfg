SPECIFICATION PgSpec
CONSTANTS
  s1 = s1
  m1 = m1
  k1 = k1
  t1 = t1
  x1 = x1
  e1 = e1
  None = None
  Scopes = {s1}
  NamedKeys = {k1}
  MemoryTypes = {t1}
  DefaultType = t1
  Contents = {x1}
  EvidenceIds = {e1}
  MemoryIds = {m1, m2}
  CandidateIds = {c1, c2, c3}
  Keys = {i1, i2, i3}
  Callers = {r1, r2}
  Inputs <- PgInputs
SYMMETRY Symmetry
INVARIANTS
  NoWaitCycle
PROPERTY ImplementsAtomicCommit
