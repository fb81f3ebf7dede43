SPECIFICATION FairSpec
CONSTANTS
  a1 = a1
  a2 = a2
  dbl = dbl
  sgl = sgl
  v1 = v1
  v2 = v2
  bad = bad
  Apps = {a1, a2}
  Tables = {dbl, sgl}
  DoubleBuffered = {dbl}
  Checked = {dbl, sgl}
  OwnerOf <- MCOwnerOf
  Access <- MCAccess
  Edits = {dbl}
  Reloads = {sgl}
  GroundLoads = {dbl}
  SourcesOf <- MCSourcesOf
  Readers <- MCReaders
  Valid = {v1, v2}
  Zero = Zero
  Torn = Torn
  NumLoads = 1
  NumValidations = 1
  Careful = TRUE
  Overtaken = Overtaken
  TBL = TBL
  NULL = NULL
INVARIANTS
  TypeOK
  ReadersUndisturbed
  ActiveImageValidated
  NoLostUpdate
PROPERTY
  RequestsServed
