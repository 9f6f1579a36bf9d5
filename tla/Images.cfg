SPECIFICATION FairSpec
CONSTANTS
  None = None
  j1 = j1
  j2 = j2
  w1 = w1
  w2 = w2
  c1 = c1
  c2 = c2
  Jobs = {j1, j2}
  Edits = {j1}
  Workers = {w1, w2}
  Channels = {c1, c2}
  MaxFaults = 2
INVARIANTS
  BilledAsDelivered
  FilesWithJob
PROPERTIES
  JobsEnd
CHECK_DEADLOCK FALSE
