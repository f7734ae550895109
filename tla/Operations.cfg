CONSTANTS
  f1 = f1
  f2 = f2
  NoValue = NoValue
  ReviewUnits = 2
  Judgements <- SomeJudgements
  Reviewers = {r1}
  Requests <- SomeRequests
  Manifest <- OneApproval
  Closing <- CloseFirst
  Remediation <- InvalidFirst
  MaxHostFaults = 1
  h1 = h1
  h2 = h2
  NoState = NoState
  MigrationHosts = {h1, h2}
  SourceUnits = 4
  MaxEdits = 1
  Eligible <- MostSessions
  Concurrency = 2
  MaxUnits <- OneAndThree
  Predecessor <- AfterOne
  MaxMigrationFaults = 1
  m1 = m1
  m2 = m2
  m3 = m3
  mx = mx
  Publishers = {p1, p2}
  HttpWriters = {w}
  Contexts <- SomeContexts
  Posts <- OnePost
  Clock = {1, 2}
  MAX_CAS_ATTEMPTS = 2
  MAX_MESSAGES = 3
  MaxPublishes = 3
  MaxDeaths = 1
  ExtractionHosts = {g1, g2}
  Experiences = {"e1", "e2"}
  Callings <- SomeCallings
  Segments <- TwoSegments
  OtherSegments <- SizesAtBounds
  ProjectionMode = "full_plus_source_actor"
  Chunking <- SmallChunks
  HeaderSize = 2
  PartLabel = 3
  Yields <- NothingOrMuch
  DISTILLATION_MEMORY_PAGE_SIZE = 2
  DISTILLATION_MEMORY_MAX_UNITS = 5
  MaxDistills = 2
  MaxExtractionFaults = 1
  Unchunked = Unchunked
  NoExperience = NoExperience
SPECIFICATION OperationsSpec
\* the capture calls are bounded, and a migration that is complete ends
CHECK_DEADLOCK FALSE
INVARIANTS
  ReviewHistory
  PendingIsQueued
  ClosureTruth
  
  
  CheckpointCovers
  MergeIsSound
  ExtractionIsWhole
  OneExtraction
PROPERTIES
  NothingDropped
