CONSTANTS
  Configs <- MCConfigs
  Installations <- MCInstallations
  StaticPlugins = {"internal"}
  IgnoredScopes = {"internal", "default.main-menu-items"}
  Exports <- MCExports
  Bare <- MCBare
  PluginApis <- MCPluginApis
  MaxRuns = 2
SPECIFICATION Spec
CHECK_DEADLOCK FALSE
INVARIANTS
  AddonsFound
