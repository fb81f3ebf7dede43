SPECIFICATION FairSpec
CONSTANTS
  t1 = t1
  t2 = t2
  Tasks = {t1, t2}
  App = App
  SB = SB
  EVS = EVS
  Uses <- MCUses
  Outcomes <- MCOutcomes
  Kinds = {"NO_SUBS", "Q_FULL_ERR"}
  Index <- MCIndex
  NumFlags = 2
  Filtered = {SB}
  Masked = {2}
  MaxCount = 2
  Killed = {t2}
  NULL = NULL
INVARIANTS
  RecursionGuarded
  ReportedOnce
PROPERTIES
  CallsReturn
