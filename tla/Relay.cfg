SPECIFICATION EndpointFairSpec
CONSTANTS
  None = None
  Catalog = Catalog
  System = System
  Legacy = Legacy
  c1 = c1
  c2 = c2
  c3 = c3
  Channels = {c1, c2, c3}
  Tools = {0, 1}
  MaxAttempts = 2
  FirstOutputTimeout = TRUE
  FailoverWindow = TRUE
INVARIANTS
  AccountedOnce
  ResponsesClosed
  StreamWellFormed
  RecordedAsShown
PROPERTIES
  AnsweredInTheEnd
CHECK_DEADLOCK FALSE
