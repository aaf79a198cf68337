\* A parent and a fork of it: requests, repeated totals, and searches.
CONSTANTS
  Models = {m1}
  Usages = {1}
  Nothing = Nothing
  Spoken = {}
  MaxWritten = 5
  MaxRequests = 2
SPECIFICATION RolloutSpec
INVARIANT OneRowPerRequest
CHECK_DEADLOCK FALSE
