\* Punctual workers with a lease sized for a batch of two.
SPECIFICATION FairSpec
CONSTANTS
  m1 = m1
  m2 = m2
  p1 = p1
  p2 = p2
  w1 = w1
  w2 = w2
  host = host
  Memories = {m1, m2}
  Providers = {p1}
  Workers = {w1}
  WorkerId <- OwnIds
  Tokens = {t1, t2, t3}
  NoOne = NoOne
  Lease = 3
  Timeout = 1
  Retry = 1
  Skew <- SkewNone
  MaxClaim = 2
  MaxRows = 2
  Punctual = TRUE
PROPERTIES EventuallyDone
