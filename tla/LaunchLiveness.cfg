SPECIFICATION FairSpec
CONSTANTS
  Kinds = {"connectSrt", "start", "stop"}
  Requests = {r1, r2}
  Pids = {p1}
  NoPid = noPid
  MaxOpen = 2
  MaxTries = 1
  MaxRestarts = 0
PROPERTIES NobodyWaitsForEver
