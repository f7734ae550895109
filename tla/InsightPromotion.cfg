SPECIFICATION Spec
CONSTANTS
  i1 = i1
  i2 = i2
  m1 = m1
  m2 = m2
  k1 = k1
  k2 = k2
  seal = seal
  word = word
  None = None
  Insights = {i1, i2}
  Eligible = {i1}
  MemoryOf <- TheMemory
  SupportOf <- TheSupport
  Memories = {m1, m2}
  Promoters = {p1, p2}
  Approvals = {seal, word}
  Planned = {seal}
  Authentic = {word}
  Requests <- TheRequests
  Keys = {k1, k2}
  Stamps = {1, 2}
  CandidateIds = {1, 2, 3}
  MaxOthers = 1
  MaxFaults = 1
SYMMETRY Symmetry
INVARIANTS
  PromotedOnce
  RecordTruth
  ReportIsPlanned
