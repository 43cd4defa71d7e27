SPECIFICATION AuthFairSpec
CONSTANTS
  t1 = t1
  t2 = t2
  k1 = k1
  AuthCalls = {c1, c2}
  Tokens = {t1, t2}
  Keys = {k1}
  KeyOf <- MCKeyOf
  Ops = {"public", "mapped"}
  PublicOps = {"public"}
  MappedOps = {"mapped"}
  RolesFit <- MCRolesFit
  Policy <- MCPolicy
  Capacity = 1
  CacheTtl = 1
  MaxDelay = 1
  NoToken = NoToken
  NoOp = NoOp
INVARIANTS CacheInv
PROPERTIES ZeroTrust RevokedTokensDie NewKeysArrive
