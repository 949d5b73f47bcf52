CONSTANTS
  Keys <- MCKeys
  Values = {"x", "y", "dynamic-plugins-root"}
  Depth = 2
  Fragments <- MCFragments
  MaxPlugins = 3
SPECIFICATION Spec
CHECK_DEADLOCK FALSE
INVARIANTS
  UnionOfFragments
  RaisesIffClash
