CONSTANTS
  Refs <- MCRefs
  GroupRefs = {"dev", "ops", "org"}
  User = "user"
  Relations <- MCRelations
  Catalogs <- MCCatalogs
  AuthConfigs <- MCAuthConfigs
  Unset = "none"
  People <- MCPeople
  Crowds <- MCCrowds
  LowerCase <- MCLowerCase
  Expiries = {1, 10}
  NotConfigured = NotConfigured
  MsPerSecond = 2
  TokenExpMin = 2
  TokenExpMax = 4
  TokenExpDefault = 3
  MaxTime = 2
  MaxRefreshes = 1
  Profiles <- MCProfiles
  None = "nobody"
SPECIFICATION SignInSpec
INVARIANTS
  SessionOK
  Complete
  Justified
  DepthBounded
  RightUser
  RefusedWithReason
  ListedRight
PROPERTIES
  SessionEnds
CHECK_DEADLOCK FALSE
