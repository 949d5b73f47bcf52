CONSTANTS
  Configs <- MCConfigs
  Installations <- MCInstallations
  StaticPlugins = {"internal"}
  IgnoredScopes = {"internal", "default.main-menu-items"}
  Exports <- MCExports
  Bare <- MCBare
  PluginApis <- MCPluginApis
  MaxRuns = 2
SPECIFICATION FairSpec
CHECK_DEADLOCK FALSE
INVARIANTS
  Isolated
  OnlyOffered
  FirstWorkingSignIn
PROPERTIES
  AppKept
  PageShown
