SPECIFICATION FairSpec
CONSTANTS
  w1 = w1
  r1 = r1
  r2 = r2
  Workers = {w1}
  Requests = {r1, r2}
  Targets = {1, 2}
  Ids = {1, 2}
  AutoId = 1
  Lease = 1
  Interval = 1
  MaxEdits = 2
INVARIANTS
  ProbedByOne
PROPERTIES
  MonitorsConverge
CHECK_DEADLOCK FALSE
