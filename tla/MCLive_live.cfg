\* Liveness.  The runs: two failures and two changes of the bucket or the tables, with
\* the thread pipeline.  The rows: two instances of one thread each, one disruption.
CONSTANTS
  p1 = p1  p2 = p2  p3 = p3  m1 = m1  m2 = m2  u1 = u1  u2 = u2  u3 = u3
  lead = lead  reviewer = reviewer
  Files = {1, 2}
  Lines <- Lines123
  Projects = {p1, p2, p3}
  Hours <- Hours12
  NullHour = NullHour
  Models <- TwoModels
  Unattributed = m2
  Uuids = {u1, u2, u3}
  NoUuid = NoUuid
  Roles = {lead, reviewer}
  NoRole = NoRole
  Releases = {1}
  Parser <- OneParser
  Price <- TwoPrices
  NTables = 2
  LatencyTable = 2
  NoFile = NoFile
  MaxVersion = 2
  Content <- ForkContent
  LaneFiles = {}
  KeyProject <- ForkProject
  NoMarker = NoMarker
  Teammates = {2}
  DefaultRole = lead
  Operator <- ForkOperator
  DirtyPercent = 50
  DirtyCap = 2000
  Pooled = FALSE
  MaxEnv = 2
  MaxFaults = 2
  i1 = i1  i2 = i2  cron1 = cron1  cron2 = cron2
  Instances = {i1, i2}
  Threads = {cron1, cron2}
  NoThread = NoThread
  MaxLockFaults = 1
SPECIFICATION LiveSpec
PROPERTIES
  StoreConverges
  RowsFinish
CHECK_DEADLOCK FALSE
