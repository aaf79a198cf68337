\* Two instances, three threads; any two disruptions.
CONSTANTS
  i1 = i1  i2 = i2  cron1 = cron1  admin1 = admin1  cron2 = cron2
  Instances = {i1, i2}
  Threads = {cron1, admin1, cron2}
  Home <- Homes
  NoThread = NoThread
  MaxFaults = 2
SPECIFICATION Spec
INVARIANTS
  LockInv
  RunsAlone
  LateWorkBounded
  MarkerHonestUnlessLost
PROPERTIES
  RunCloseWins
SYMMETRY Alike
CHECK_DEADLOCK FALSE
