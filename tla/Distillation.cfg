CONSTANTS
  s1 = s1
  s2 = s2
  p1 = p1
  p2 = p2
  p3 = p3
  p4 = p4
  s3 = s3
  t1 = t1
  t2 = t2
  k = k
  None = None
  Sources = {s1, s2, s3}
  Processes = {p1, p2, p3, p4}
  SemanticKeys = {k}
  Texts = {t1, t2}
  CandidateIds = {c1, c2, c3, c4, c5, c6}
  SourceOf <- Hosting
  UnitCount <- TwoThenOne
  KeyOf <- OneKey
  TextOf <- TextByUnit
  Policy <- Undecided
  Refreshed = {s3}
  Vetoed = {t2}
  Mergeable <- Merging
  Remediable <- FirstUnit
  MaxSemanticAttempts = 2
  MaxRevision = 2
  Deployments <- AloneOrTwins
SPECIFICATION Spec
SYMMETRY Symmetry
CHECK_DEADLOCK FALSE
INVARIANTS RecordsBound PrunableIsPreserved ReceiptTruth
PROPERTIES MemoryStaysRecorded
