SPECIFICATION Spec
CONSTANTS
  Kinds = {"connect", "stop"}
  Requests = {r1, r2}
  Pids = {p1, p2}
  NoPid = noPid
  MaxOpen = 2
  MaxTries = 1
  MaxRestarts = 0
INVARIANT OneWorker
