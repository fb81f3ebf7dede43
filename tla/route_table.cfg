\* Three message ids compete for two routes, three pipes for two places on a
\* destination list; the pool may refuse a destination block at any time.
CONSTANTS
  m1 = m1
  m2 = m2
  m3 = m3
  MsgIds <- AllIds
  Tlm <- AllIds
  MaxPipes = 3
  MaxMsgIds = 2
  MaxDest = 2
  MsgLims = {1}
  Scopes = {"GLOBAL"}
  SeqMod = 2
  PoolMayRunOut = TRUE
  NoMsgId = NoMsgId
SYMMETRY Symmetry
SPECIFICATION RouteSpec
INVARIANTS
  RouteTypeOK
  RouteIdxConserved
  RoutesWellFormed
  RouteStatsExact
