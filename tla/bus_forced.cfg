CONSTANTS
  A = A
  B = B
  core = core
  tA = tA
  tB = tB
  ES = ES
  NoMsgId = NoMsgId
  NoApp = NoApp
  NULL = NULL
  Apps <- MCApps
  Tasks <- MCTasks
  AppOf <- MCAppOf
  Uses <- Forced
  MsgIds = {m1, m2}
  Tlm = {m1, m2}
  MaxPipes = 1
  MaxMsgIds = 2
  MaxDest = 1
  MsgLims = {1}
  Scopes = {"GLOBAL"}
  SeqMod = 1
  PoolMayRunOut = TRUE
  Bufs = {b1}
  QueueIds = {1, 2}
  Depths = {1}
  TimeOuts = {"POLL"}
  ReportMid = m1
  Cmds = {}
SPECIFICATION FairSpec
CHECK_DEADLOCK FALSE
PROPERTY
  DeletionsEndOnceUnlisted
