SPECIFICATION SinkFairSpec
CONSTANTS
  Kinds = {"nats", "redis", "iggy", "rabbitmq", "kafka", "sierradb", "webhook", "generic"}
  Inspectors = {i1, i2}
  Queriers = {q1}
  Timeout = 1
  CacheTtl = 1
  Absent = Absent
INVARIANTS SinkInv
PROPERTY Converges
