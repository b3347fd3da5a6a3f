SPECIFICATION Spec
CONSTANTS
  s1 = s1
  s2 = s2
  s3 = s3
  p1 = p1
  p2 = p2
  g1 = g1
  f1 = f1
  w1 = w1
  w2 = w2
  None = None
  Sid <- ThreeS
  Pid <- OneP
  Gid <- OneG
  Fid <- NoF
  Worker <- OneW
  MaxSessions = 2
  MaxLives = 2
SYMMETRY Symmetry
INVARIANT CapacityRespected
CHECK_DEADLOCK FALSE
