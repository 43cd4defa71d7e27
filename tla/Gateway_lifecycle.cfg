SPECIFICATION Spec
CONSTANTS
  Requests = {r1, r2}
  Keys = {k1, k2}
  Ttl = 1
  MaxTime = 1
  NoRequest = NoRequest
  NoKey = NoKey
  Evictable = {k1}
  DefaultPolicy = "None"
  Routes <- MCRoutes
  NoRoute = NoRoute
SYMMETRY MCSymmetry
INVARIANTS ReplayIsOfSuccess DecodedRequestsUnlock TerminalEvents GatewayInv AtMostOneSuccess
CHECK_DEADLOCK FALSE
