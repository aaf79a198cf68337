\* A run that loses the lock after its last check.
CONSTANTS
  i1 = i1  i2 = i2  cron1 = cron1  admin1 = admin1  cron2 = cron2
  Instances = {i1, i2}
  Threads = {cron1, cron2}
  Home <- Homes
  NoThread = NoThread
  MaxFaults = 2
SPECIFICATION Spec
INVARIANTS
  LeftoversAreRebuilt
CHECK_DEADLOCK FALSE
