CONSTANTS
  PoolSize = 1
  Requests = {"request"}
SPECIFICATION Spec
INVARIANT NoPoolDeadlock
