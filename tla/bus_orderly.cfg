CONSTANTS
  A = A
  B = B
  core = core
  tA = tA
  tB = tB
  ES = ES
  NoMsgId = NoMsgId
  NoApp = NoApp
  NULL = NULL
  Apps <- MCApps
  Tasks <- MCTasks
  AppOf <- MCAppOf
  Uses <- Orderly
  MsgIds = {m1}
  Tlm = {m1}
  MaxPipes = 2
  MaxMsgIds = 2
  MaxDest = 2
  MsgLims = {1}
  Scopes = {"GLOBAL"}
  SeqMod = 1
  PoolMayRunOut = FALSE
  Bufs = {b1, b2}
  QueueIds = {1, 2, 3, 4}
  Depths = {1}
  TimeOuts = {"POLL", "PEND"}
  ReportMid = m1
  Cmds = {"Route"}
SPECIFICATION FairSpec
CHECK_DEADLOCK FALSE
INVARIANTS
  PipesExact
  BuffersRefCounted
  NoStaleDestination
  NoWedgedSubscription
  NoUnsubscribeFault
PROPERTY
  DeletePipeCompletes
