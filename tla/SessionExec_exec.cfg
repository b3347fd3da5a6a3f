SPECIFICATION FairSpec
CONSTANTS
  i1 = i1
  i2 = i2
  i3 = i3
  i4 = i4
  None = None
  Inv <- FourI
  Known <- KnownFour
  Bytes <- BytesFour
  MaxFunctions <- One
  ElemSize = 64
  MaxSends = 1
INVARIANT TypeOK
INVARIANT InputIntact
INVARIANT BuffersConserved
INVARIANT AnsweredOnce
INVARIANT InputWhole
PROPERTY AcceptedAnswered
PROPERTY SessionEnds
CHECK_DEADLOCK FALSE
