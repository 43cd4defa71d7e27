SPECIFICATION FairSpec
CONSTANTS
  c0 = c0  c1 = c1  h0 = h0  h1 = h1
  Contents = {c0, c1}
  Startup = c0
  HostOf <- MCHostOf
  DnsEnabled = {c0, c1}
  Admins = {a1, a2}
  Refresher = refresher
  MaxDns = 1
  MaxCrashes = 1
  Torn = Torn
  None = None
INVARIANTS Coherent StoreHoldsLastSave
PROPERTY DnsConverges
