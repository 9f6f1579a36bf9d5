SPECIFICATION Spec
CONSTANTS
  None = None
  s1 = s1
  s2 = s2
  u1 = u1
  u2 = u2
  t1 = t1
  t2 = t2
  Sessions = {s1, s2}
  Orders = {1, 2, 3}
  Users <- MCUsers
  Owner <- OneBuyer
  Referrer <- Referred
  StationOrders = {1}
  Malformed = {}
  TradeOf <- SharedTrade
  LegacyUsers = {}
  MaxRewards = 1
  BatchLimit = 2
  Entrances = {"callback"}
INVARIANTS
  FinanceCountsOrders
  ChecksHold
