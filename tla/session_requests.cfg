SPECIFICATION Spec
CONSTANTS
  d1 = d1
  d2 = d2
  d3 = d3
  k1 = k1
  k2 = k2
  Docs = {d1}
  Keys = {k1}
  Servers <- FullServer
  Kinds = {"Completion", "Signature", "Inlays", "Tooltip"}
  MaxRev = 1
  MaxOpens = 2
  MaxConnections = 1
  MaxInbox = 0
  MaxTickets = 3
  MaxCaret = 1
INVARIANTS
  InFlightIsOwed
  BoundedReissue
CHECK_DEADLOCK FALSE
