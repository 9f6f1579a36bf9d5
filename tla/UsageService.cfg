SPECIFICATION PartsFairSpec
CONSTANTS
  r1 = r1
  r2 = r2
  user = user
  key = key
  Requests = {r1, r2}
  Keys = {user, key}
  KeysOf <- UserAndKey
  Limit <- OneEach
  Lifetime = 2
  e1 = e1
  e2 = e2
  Events = {e1, e2}
  Suspects = {e2}
  Consumers = {c1, c2}
  MaxAttempts = 2
  Batch = 1
  MaxTroubles = 2
INVARIANTS
  QuotaKept
  EventsAccounted
PROPERTIES
  SlotsComeBack
  StreamDrains
CHECK_DEADLOCK FALSE
