SPECIFICATION Spec
CONSTANTS
  c1 = c1  c2 = c2  c3 = c3
  Requests = {r1}
  Inputs <- MCInputs
  Configs = {c1, c2, c3}
  Cfg <- MCCfg
  Served = {"p1", "p2"}
  Service = "svc"
  Fold <- MCFold
  None = None
INVARIANTS TerminatedNeverForwarded  ResponseWhole 
