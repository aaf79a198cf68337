\* One small instance of each part.  The response cache has two keys and room
\* for one, a request thread and two pool threads.
CONSTANTS
  k1 = k1  k2 = k2  c1 = c1  c2 = c2  w1 = w1  w2 = w2
  Keys = {k1, k2}  WarmKeys = {k1}  Clients = {c1}  Workers = {w1, w2}
  Locks <- LockObjects
  NoLock = NoLock  NoThread = NoThread  NoEntry = NoEntry  NoKey = NoKey
  MaxEntries = 1  MaxVersion = 1  MaxFaults = 0  MaxWarms = 1  MaxExpiries = 1
  i1 = i1  u1 = u1  u2 = u2  r1 = r1  r2 = r2  p1 = p1  p2 = p2
  NoCred = NoCred  NoRow = NoRow
  Ips = {i1}  Uids = {u1, u2}  Attempts = {r1, r2}  Passwords = {p1, p2}
  MaxPair = 1  MaxIp = 2  MaxTracked = 1  Target = 3  MaxUpsets = 2
  Servers = {s1, s2}  Exports = {e1, e2}  NoFile = NoFile
  RenderTimeout = 1  MaxClock = 4  MaxKills = 1
  Grains = {g1}  Widths = {1, 2}  FoldInterval = 1  UserCap = 2
  MaxTime = 7  MaxSent = 2
  Objects = {o1, o2}  Contents = {1, 2, 3}  SizeOf <- Lengths  Gone = Gone
  Fetchers = {f1}  Readers = {q1}
  DiskCap = 3  LruCap = 3  Starts <- EqualStarts  MaxChanges = 4
  Spans = {2, 8}  Today = 11  MinBins = 2  Top = 1  MaxCommits = 1
  MaxPushes = 2  MaxLost = 1
  Pulls = {p1, p2}  MaxTips = 2  MaxHeads = 2
  Values = {0, 1, 2}  Gap = 1  Hysteresis = 1  UnrecordedLimit = 1
  MaxPersons = 2  MaxPricing = 1
  Processes = {s1, s2}  Releases = {1, 2}  NoStamp = NoStamp  NoProcess = NoProcess
  MaxStarts = 3  MaxEdits = 1
  MinWritten = 3  BatchFiles = 2  MaxRuns = 2  MaxFiles = 5  MaxRows = 2
  BucketList <- TwoBuckets  PrefixesOf <- Prefixes  KeysIn <- PrefixKeys
  SidecarFor <- Sidecars  OwnType = {"t2"}  MaxListed = 2
  Slots = {w1, w2}  NoPid = NoPid  MaxServers = 2
SPECIFICATION ServicesSpec
INVARIANTS
  FreshIsCurrent
  RefreshOnce
  CapHeld
  ServicesTypeOK
  SignInsBounded
  StartsAndEndsHold
  BeaconsCounted
  BytesAreCurrent
  PanelsAgree
  
PROPERTIES
  HeldLockStays
  SessionsHold
SYMMETRY Alike
CHECK_DEADLOCK FALSE
