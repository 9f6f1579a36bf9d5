SPECIFICATION Spec
CONSTANTS
  u1 = u1
  q1 = q1
  r1 = r1
  r2 = r2
  None = None
  Users = {u1}
  Packs = {q1}
  Runs = {r1}
  Owner <- MCOwner
  Original <- MCOriginal
  Expiry <- MCExpiry
  Openings <- MCOpenings
  MaxScanned = 4
  MaxPlanned = 2
  Amounts = {1}
  MaxEvents = 2
  LastTime = 1
INVARIANTS
  RetiredStaysEmpty
CHECK_DEADLOCK FALSE
