SPECIFICATION Spec
CONSTANTS
  c1 = c1
  c2 = c2
  r1 = r1
  r2 = r2
  r3 = r3
  None = None
  Client <- OneC
  Threads = 2
  MAX_CONNECTIONS = 1
  Req <- TwoR
  Type <- TypeTwo
  Key <- KeyTwo
  Payload <- PayloadTwo
  MaxSilent = 0
  ShortReads = FALSE
INVARIANT GetReturnsStored
CHECK_DEADLOCK FALSE
