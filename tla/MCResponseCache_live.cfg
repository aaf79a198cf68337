\* Liveness: two request threads and one pool thread on one key.
CONSTANTS
  k1 = k1  k2 = k2  c1 = c1  c2 = c2  w1 = w1  w2 = w2
  Keys = {k1}
  WarmKeys = {k1}
  Clients = {c1, c2}
  Workers = {w1}
  Locks <- LockObjects
  NoLock = NoLock
  NoThread = NoThread
  NoEntry = NoEntry
  NoKey = NoKey
  MaxEntries = 1
  MaxVersion = 1
  MaxFaults = 1
  MaxWarms = 1
  MaxExpiries = 1
SPECIFICATION FairSpec
PROPERTIES
  StaleHeals
  Answered
CHECK_DEADLOCK FALSE
