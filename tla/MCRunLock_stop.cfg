\* One graceful stop of one instance, whose run was about to take the run lock, and
\* no failure at all.
CONSTANTS
  i1 = i1  i2 = i2  cron1 = cron1  admin1 = admin1  cron2 = cron2
  Instances = {i1}
  Threads = {cron1}
  Home <- Homes
  NoThread = NoThread
  MaxFaults = 1
SPECIFICATION Spec
INVARIANTS
  StopClosesRows
CHECK_DEADLOCK FALSE
