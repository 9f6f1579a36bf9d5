SPECIFICATION PartsSpec
CONSTANTS
  None = None
  u1 = u1
  u2 = u2
  a1 = a1
  a2 = a2
  slug1 = slug1
  slug2 = slug2
  h1 = h1
  h2 = h2
  Users = {u1, u2}
  Applications = {a1, a2}
  Stations = {station1, station2}
  Slugs = {slug1, slug2}
  Handlers = {h1, h2}
  b1 = b1
  b2 = b2
  Entries = {1, 2, 3}
  Batches = {b1, b2}
  MinPayout = 2
  Commission <- ByNumber
  alias1 = alias1
  m1 = m1
  m2 = m2
  Aliases = {alias1}
  Models = {m1, m2}
  Prices = {1, 2}
  FirstCost <- OneAndTwo
  MaxEdits = 4
  s1 = s1
  s2 = s2
  j1 = j1
  j2 = j2
  Sessions = {s1, s2}
  Jobs = {j1, j2}
  Price <- MCPrice
  Quota = 2
  PaidUntil = 2
  PackCents <- OnePack
  PackEnd <- PackEnds
  OpeningCredit <- TwoBatches
  OpeningBalance = 1
  Costs = {1}
  MaxFlushes = 2
  LastPeriod = 2
  Reserved = {0}
  Entrances = {"flush", "authorize", "create", "refresh"}
  w1 = w1
  r1 = r1
  c1 = c1
  c2 = c2
  c3 = c3
  v1 = v1
  v2 = v2
  Workers = {w1}
  Requests = {r1}
  Channels = {c1, c2, c3}
  Conversations = {v1, v2}
  Tiers = {1, 2}
  Score <- ScoreTable
  Tables <- ThreeChannels
  MaxAttempts = 2
  MaxChanges = 2
  Nothing = Nothing
  Anyone = Anyone
  q1 = q1
  r2 = r2
  Payers = {u1}
  Packs = {q1}
  Owner <- OneOwner
  Original <- TwoCents
  Expiry <- FirstTick
  Openings <- CreditOrDebt
  Runs = {r1, r2}
  MaxScanned = 4
  MaxPlanned = 2
  Amounts = {1}
  MaxEvents = 2
  LastTime = 1
SYMMETRY SessionSymmetry
INVARIANTS
  OwnersBelong
  BatchesPayTheirEntries
  CoversCostWhenValidated
  WalletBalances
  MigrationSound
PROPERTIES
  SourcesInOrder
  TriesAllOnce
  ConversationsStay
CHECK_DEADLOCK FALSE
