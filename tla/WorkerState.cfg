SPECIFICATION PartsFairSpec
CONSTANTS
  None = None
  w1 = w1
  w2 = w2
  r1 = r1
  Workers = {w1, w2}
  Requests = {r1}
  TTL = 2
  MaxEdits = 2
  FailureThreshold = 2
  OpenTicks = 1
  LeaseTicks = 2
  MinuteTicks = 1
  Limit = 1
  MaxTroubles = 3
  MaxRestarts = 1
  Calls = {call1, call2, call3}
  AllowedFails = 2
  Cooldown = 1
  MaxTime = 2
  MaxFailures = 2
  Threshold = 2
  Window = 1
  Dedup = 1
  Suppress = 2
  MaxPending = 2
  LastTime = 3
  MaxFaults = 1
INVARIANTS
  StaleExplained
  OneLeader
  LimitHolds
  CooldownsEarned
  AlertsHonest
PROPERTIES
  LeadershipGoesOn
  WorkersAgree
  BurstsAnnounced
CHECK_DEADLOCK FALSE
