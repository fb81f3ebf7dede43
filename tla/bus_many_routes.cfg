CONSTANTS
  A = A
  B = B
  core = core
  tA = tA
  tB = tB
  ES = ES
  NoMsgId = NoMsgId
  NoApp = NoApp
  NULL = NULL
  Apps <- MCApps
  Tasks <- MCTasks
  AppOf <- MCAppOf
  Uses <- ManyRoutes
  MsgIds = {m1, m2}
  Tlm = {m1, m2}
  MaxPipes = 1
  MaxMsgIds = 2
  MaxDest = 2
  MsgLims = {1}
  Scopes = {"GLOBAL", "LOCAL"}
  SeqMod = 1
  PoolMayRunOut = FALSE
  Bufs = {b1, b2}
  QueueIds = {1, 2}
  Depths = {2}
  TimeOuts = {"TIMED"}
  ReportMid = m2
  Cmds = {"Reporting"}
SYMMETRY BufSymmetry
SPECIFICATION Spec
CHECK_DEADLOCK FALSE
INVARIANT
  DeletionsLeaveNothing
