SPECIFICATION FairSpec
CONSTANTS
  None = None
  w1 = w1
  w2 = w2
  s1 = s1
  s2 = s2
  k = k
  a = a
  b = b
  Workers = {w1, w2}
  Sessions = {s1, s2}
  ServedBy <- OneEach
  Keys = {k}
  Values = {a, b}
  Earlier <- OneRow
  LastSecond = 2
  MaxEvents = 2
PROPERTIES
  ConfigConverges
CHECK_DEADLOCK FALSE
