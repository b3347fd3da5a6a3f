SPECIFICATION Spec
CONSTANTS
  i1 = i1
  i2 = i2
  i3 = i3
  i4 = i4
  None = None
  Inv <- TwoI
  Known <- KnownTwo
  Bytes <- BytesTwo
  MaxFunctions <- Two
  ElemSize = 64
  MaxSends = 1
PROPERTY RepliesFramed
CHECK_DEADLOCK FALSE
