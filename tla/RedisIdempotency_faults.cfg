SPECIFICATION FairSpec
CONSTANTS
  r1 = r1  r2 = r2  r3 = r3  g1 = g1  g2 = g2
  Requests = {r1, r2, r3}
  Keys = {k1}
  Gateways = {g1, g2}
  GatewayOf <- MCGatewayOf
  Ttl = 2
  NoRequest = NoRequest
  NoKey = NoKey
INVARIANTS OverlapIsPaid
PROPERTY CallsReturn
CHECK_DEADLOCK FALSE
