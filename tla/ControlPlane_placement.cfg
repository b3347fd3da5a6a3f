SPECIFICATION Spec
CONSTANTS
  s1 = s1
  s2 = s2
  s3 = s3
  p1 = p1
  p2 = p2
  g1 = g1
  f1 = f1
  w1 = w1
  w2 = w2
  None = None
  Sid <- TwoS
  Pid <- TwoP
  Gid <- OneG
  Fid <- NoF
  Worker <- TwoW
  MaxSessions = 2
  MaxLives = 2
SYMMETRY Symmetry
INVARIANT TypeOK
INVARIANT SingleInstance
INVARIANT SlotsExact
INVARIANT SwapFlagTruthful
INVARIANT RunningListedAlive
PROPERTY ImplementsPlacement
CHECK_DEADLOCK FALSE
