SPECIFICATION Spec
CONSTANTS
  Kinds = {"connect", "connectSrt", "start", "stop"}
  Requests = {r1, r2}
  Pids = {p1, p2}
  NoPid = noPid
  MaxOpen = 2
  MaxTries = 2
  MaxRestarts = 1
SYMMETRY LaunchSymmetry
INVARIANTS TypeOK SurvivorsExplained AckMeansExecuted
