SPECIFICATION Spec
CONSTANTS
  s1 = s1
  s2 = s2
  m1 = m1
  k1 = k1
  k2 = k2
  t1 = t1
  t2 = t2
  x1 = x1
  x2 = x2
  e1 = e1
  e2 = e2
  None = None
  Scopes = {s1, s2}
  NamedKeys = {k1, k2}
  MemoryTypes = {t1, t2}
  DefaultType = t1
  Contents = {x1, x2}
  EvidenceIds = {e1, e2}
  MemoryIds = {m1, m2}
  CandidateIds = {c1, c2, c3}
  Keys = {i1, i2, i3}
  Callers = {r1, r2}
  Inputs <- CommitInputs
SYMMETRY Symmetry
INVARIANTS
  FeedSound
  RevisionChain
  ExactlyOnce
  SemanticIdentityUnique
  ProviderGate
  ContentLineage
PROPERTIES
  TombstoneHolds
  ImplementsLedger

