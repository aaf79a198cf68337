\* A run over a lane and its marker, alias chains, releases and rollbacks, with
\* the thread pipeline; and one small instance of each parser, of the prices and
\* of the rates.
CONSTANTS
  p1 = p1  p2 = p2  p3 = p3  m1 = m1  m2 = m2  u1 = u1  u2 = u2  u3 = u3
  lead = lead  reviewer = reviewer
  Files = {1, 2}
  Lines <- Lines123
  Projects = {p1, p2, p3}
  Hours <- Hours12
  NullHour = NullHour
  Models <- TwoModels
  Unattributed = m2
  Uuids = {u1, u2, u3}
  NoUuid = NoUuid
  Roles = {lead, reviewer}
  NoRole = NoRole
  Releases <- ThreeReleases
  Parser <- TwoParsers
  Price <- TwoPrices
  NTables = 2
  LatencyTable = 2
  NoFile = NoFile
  MaxVersion = 2
  Content <- LaneContent
  LaneFiles = {2}
  KeyProject <- LaneProject
  NoMarker = NoMarker
  Teammates = {}
  DefaultRole = lead
  Operator <- FoldOperator
  DirtyPercent = 50
  DirtyCap = 2000
  Pooled = FALSE
  MaxEnv = 3
  MaxFaults = 0
  NoHost = "none"  NoRate = 99  Rates = {1, 2}  Thresholds = {1}
  Horizon = 3  MaxEdits = 1
  RowRates = {1, 2}  Searches = {0, 1}  Floor = 2  Alternation = 2
  MaxSecond = 4  MaxMoves = 2
  Prices = {1, 2}  LastSecond = 3
  Nothing = Nothing
  q1 = q1  q2 = q2  t1 = t1  t2 = t2  s1 = s1  s2 = s2
  Requests = {q1, q2}  Outputs = {1, 2}  Settings = {s1, s2}  Tools = {t1}
  Snapshots = {1, 2}  MaxLines = 4  MaxResumes = 1
  Usages = {1, 2}  MaxWritten = 4  MaxRequests = 2
  WireModels = {"k3", "for-coding"}  Known = {"k3"}  OldCutoff = 3  NewCutoff = 6
  Steers = {t1, t2}  MaxWire = 7
  AccountRegion = "global"  Quantizations = {"fp8", "fp4"}
  DataRegions = {"us", "global"}  ServiceTiers = {"fast"}  MaxListed = 3  MaxHours = 1
  FirstPrefixes = {"v"}  LaterPrefixes = {"w"}  NoMeter = NoMeter  Contexts = {1, 2}
  MaxCatalogMoves = 1
SPECIFICATION DataSpec
INVARIANTS
  MarkerSound
  PolicyApplied
  AnnouncedUnlessInterrupted
  DataTypeOK
  PricesHold
  DocumentHolds
  RequestsKeepTheirRows
  TimesUnbroken
PROPERTIES
  RowsStayWithTheirs
CHECK_DEADLOCK FALSE
