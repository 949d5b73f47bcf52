CONSTANTS
  Resolvers = {"byName", "byMail"}
  MaxPolls = 2
  MaxTests = 1
  MaxWorkers = 2
  MaxPods = 3
  Jobs = {j1, j2, j3}
  FirstPriority = 200
SPECIFICATION Spec
INVARIANTS CheckedCurrent CheckedIngested RestartApplies RedirectKept LeftClean
PROPERTIES SpecEnds
CHECK_DEADLOCK FALSE
