SPECIFICATION FairSpec
CONSTANTS
  Calls = {c1, c2}
  Pipes <- MCPipes
  Threshold = 2
  Cooloff = 2
  Deadline = 1
INVARIANTS AdmittedWereChecked
PROPERTIES PermitJustified Recovers SickPluginTrips CallsReturn
