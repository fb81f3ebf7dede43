SPECIFICATION FairSpec
CONSTANTS
  t1 = t1
  t2 = t2
  p1 = p1
  p2 = p2
  Tasks = {t1, t2}
  Pipes = {p1, p2}
  OwnerOf <- MCOwnerOf
  Routes = {0, 1}
  Commands <- MCCommands
  NumBlocks = 2
  SB = SB
  NULL = NULL
INVARIANTS
  DestinationsExact
  
PROPERTY
  DeletesEnd
