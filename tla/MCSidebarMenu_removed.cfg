CONSTANTS
  Frontends <- MCFrontends
  MaxPlugins = 2
SPECIFICATION Spec
CHECK_DEADLOCK FALSE
INVARIANTS
  Removable
