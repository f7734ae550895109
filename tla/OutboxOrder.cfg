\* Revisions of one memory, two providers, two processes that share a worker id and whose clocks differ.
SPECIFICATION Spec
CONSTANTS
  m1 = m1
  m2 = m2
  p1 = p1
  p2 = p2
  w1 = w1
  w2 = w2
  host = host
  Memories = {m1}
  Providers = {p1, p2}
  Workers = {w1, w2}
  WorkerId <- OneId
  Tokens = {t1, t2, t3, t4}
  NoOne = NoOne
  Lease = 2
  Timeout = 1
  Retry = 1
  Skew <- SkewOne
  MaxClaim = 1
  MaxRows = 2
  Punctual = FALSE
INVARIANTS  MaterializationTruth
PROPERTIES NoRegress
