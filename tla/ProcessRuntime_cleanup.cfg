SPECIFICATION FairSpec
CONSTANTS
  a = a
  b = b
  c = c
  k1 = k1
  k2 = k2
  k3 = k3
  None = None
  Sid <- TwoS
  ChildPid <- TwoC
  MaxSessions = 2
  MaxRequested = 2
  Swapping = TRUE
  SlashKept = FALSE
  Faults <- NoFaults
  MaxWrites = 1
  MaxAsks = 2
PROPERTY EndedIsCleaned
CHECK_DEADLOCK FALSE
