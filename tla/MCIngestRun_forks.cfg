\* Forked transcripts of a lane, teammates and untimed rows, two releases, with the process pool.
CONSTANTS
  p1 = p1  p2 = p2  p3 = p3  m1 = m1  m2 = m2  u1 = u1  u2 = u2  u3 = u3
  lead = lead  reviewer = reviewer
  Files = {1, 2}
  Lines <- Lines123
  Projects = {p1, p2, p3}
  Hours <- Hours12
  NullHour = NullHour
  Models <- TwoModels
  Unattributed = m2
  Uuids = {u1, u2, u3}
  NoUuid = NoUuid
  Roles = {lead, reviewer}
  NoRole = NoRole
  Releases = {1, 2}
  Parser <- OneParser
  Price <- TwoPrices
  NTables = 2
  LatencyTable = 2
  NoFile = NoFile
  MaxVersion = 2
  Content <- ForkContent
  LaneFiles = {2}
  KeyProject <- ForkProject
  NoMarker = NoMarker
  Teammates = {2}
  DefaultRole = lead
  Operator <- ForkOperator
  DirtyPercent = 50
  DirtyCap = 2000
  Pooled = TRUE
  MaxEnv = 2
  MaxFaults = 1
SPECIFICATION Spec
INVARIANTS
  TypeOK
  MarkerSound
  CloseDescribesStore
PROPERTIES
  NoLiveFileDeleted
  KeepsMarkerPromise
CHECK_DEADLOCK FALSE
