SPECIFICATION FairSpec
CONSTANTS
  a1 = a1
  a2 = a2
  Apps = {a1, a2}
  Startup <- MCStartup
  Commands <- MCRestart
  Uses <- MCPolling
  Syncs <- MCSyncs
  NumSlots = 2
  MaxTasks = 3
  KillTimeout = 1
  LoadFails = {}
  NoApp = NoApp
PROPERTY RestartHonoured
