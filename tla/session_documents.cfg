SPECIFICATION Spec
CONSTANTS
  d1 = d1
  d2 = d2
  d3 = d3
  k1 = k1
  k2 = k2
  Docs = {d1, d2}
  Keys = {k1, k2}
  Servers <- SyncServers
  Kinds = {"Definition", "Rename", "Format"}
  MaxRev = 2
  MaxOpens = 3
  MaxConnections = 2
  MaxInbox = 1
  MaxTickets = 1
  MaxCaret = 0
SYMMETRY Alike
CONSTRAINT OneTopic
INVARIANTS
  ServerHasSynced
  DiagnosticsFit
  CacheIsCurrent
  LandedFits
CHECK_DEADLOCK FALSE
