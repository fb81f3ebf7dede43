SPECIFICATION Spec
CONSTANTS
  a1 = a1
  a2 = a2
  Apps = {a1, a2}
  Mortal = {a1}
  NumDescs = 3
  Bufs = {b1, b2, b3}
  Depth = 1
  MaxHeld <- MCMaxHeld
  Windows = {}
  ES = ES
  NULL = NULL
SYMMETRY BufSymmetry
CHECK_DEADLOCK FALSE
INVARIANTS
  DescriptorsExact
  BuffersAccounted
