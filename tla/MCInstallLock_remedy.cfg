CONSTANTS
  Instances = {p1, p2, p3}
  NoOne = NoOne
  MaxStarts = 2
  OperatorFile = "dynamic-plugins.lock"
SPECIFICATION FairSpec
CHECK_DEADLOCK FALSE
PROPERTIES
  WaiterProgress
