SPECIFICATION FairSpec
CONSTANTS
  c1 = c1
  c2 = c2
  r1 = r1
  r2 = r2
  r3 = r3
  None = None
  Client <- TwoC
  Threads = 2
  MAX_CONNECTIONS = 2
  Req <- ThreeR
  Type <- TypeThree
  Key <- KeyThree
  Payload <- PayloadThree
  MaxSilent = 1
  ShortReads = TRUE
INVARIANT TypeOK
INVARIANT RequestsFramed
INVARIANT RepliesRouted
 
PROPERTY TaskEnds
CHECK_DEADLOCK FALSE
