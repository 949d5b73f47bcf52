CONSTANTS
  Instances = {p1, p2, p3}
  NoOne = NoOne
  MaxStarts = 2
  OperatorFile = "install-dynamic-plugins.lock"
SPECIFICATION Spec
CHECK_DEADLOCK FALSE
INVARIANTS
  Mutex
