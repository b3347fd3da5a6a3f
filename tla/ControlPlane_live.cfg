SPECIFICATION FairSpec
CONSTANTS
  s1 = s1
  s2 = s2
  s3 = s3
  p1 = p1
  p2 = p2
  g1 = g1
  f1 = f1
  w1 = w1
  w2 = w2
  None = None
  Sid <- TwoS
  Pid <- OneP
  Gid <- OneG
  Fid <- OneF
  Worker <- TwoW
  MaxSessions = 2
  MaxLives = 1
PROPERTY ClosureRecorded
CHECK_DEADLOCK FALSE
