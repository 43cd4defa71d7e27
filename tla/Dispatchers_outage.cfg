SPECIFICATION DispatchFairSpec
CONSTANTS
  Kinds = {"nats", "kafka", "rabbitmq", "iggy", "redis", "sierradb", "webhook"}
  Calls = {c1, c2}
  Conns = {n1, n2}
  None = None
INVARIANTS DispatchInv
PROPERTIES Recovers CallsReturn
