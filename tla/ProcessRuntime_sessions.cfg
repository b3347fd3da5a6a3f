SPECIFICATION Spec
CONSTANTS
  a = a
  b = b
  c = c
  k1 = k1
  k2 = k2
  k3 = k3
  None = None
  Sid <- ThreeS
  ChildPid <- ThreeC
  MaxSessions = 2
  MaxRequested = 3
  Swapping = TRUE
  SlashKept = FALSE
  Faults <- StartFaults
  MaxWrites = 2
  MaxAsks = 3
SYMMETRY Symmetry
INVARIANT TypeOK
INVARIANT RunningIsOwned
INVARIANT CloseMeansGone
INVARIANT MemoryFaithful
INVARIANT WithinCapacity
INVARIANT RefusedOnlyOverbooked
PROPERTY ImplementsStore
CHECK_DEADLOCK FALSE
