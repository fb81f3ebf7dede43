SPECIFICATION Spec
CONSTANTS
  a1 = a1
  a2 = a2
  n1 = n1
  n2 = n2
  n3 = n3
  d1 = d1
  Apps = {a1, a2}
  Ending = {a1}
  Names = {n1, n2, n3}
  OwnerOf <- MCOwnerOf
  SizesOf <- MCSizesOf
  BinSizes <- MCBinSizes
  DescSize = 1
  FieldSize = 2
  PoolStart = 2
  PoolEnd = 15
  MaxEntries = 2
  DataOf <- MCDataOf
  Zero = Zero
  Torn = Torn
  Windows = {}
  MaxResets = 1
  ES = ES
  NoName = NoName
  NULL = NULL
INVARIANTS
  PoolExact
  LeaksBounded
PROPERTY
  ImplementsStore
