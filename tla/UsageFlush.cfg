SPECIFICATION FairSpec
CONSTANTS
  None = None
  w1 = w1
  w2 = w2
  r1 = r1
  r2 = r2
  r3 = r3
  u1 = u1
  u2 = u2
  Workers = {w1, w2}
  Records <- MCRecords
  Users = {u1, u2}
  UserOf <- TwoUsers
  LogOnly = {r3}
  Keyed = {r1, r2, r3}
  Cost <- Tenths
  Scale = 10
  MaxAmbiguous = 1
INVARIANTS
  LoggedIffCharged
  DriftWithinHalfCentPerFlush
PROPERTIES
  ImplementsLedger
  UsageGetsFlushed
