CONSTANTS
  s1 = s1
  s2 = s2
  p1 = p1
  p2 = p2
  p3 = p3
  p4 = p4
  s3 = s3
  t1 = t1
  t2 = t2
  k = k
  None = None
  Sources = {s1}
  Processes = {p1}
  SemanticKeys = {k}
  Texts = {t1, t2}
  CandidateIds = {c1, c2, c3, c4, c5, c6}
  SourceOf <- Alone
  UnitCount <- One
  KeyOf <- OneKey
  TextOf <- TextByUnit
  Policy <- AllCanonical
  Refreshed = {}
  Vetoed = {}
  Mergeable <- Merging
  Remediable = {}
  MaxSemanticAttempts = 2
  MaxRevision = 1
  Deployments <- AloneWithFault
SPECIFICATION FairSpec
CHECK_DEADLOCK FALSE
PROPERTIES Resumable
