CONSTANTS
  Frontends <- MCFrontends
  MaxPlugins = 4
  Entities <- MCEntities
  TabSets <- MCTabSets
  MountPoints <- MCMountPoints
  MenuItems = {1, 2}
  LoadedLists <- MCLoadedLists
  InternalPlugins <- MCInternalPlugins
  Searches <- MCSearches
  AllNames <- MCAllNames
  PageSize = 2
  Shells <- MCShells
  MaxQueries = 3
SPECIFICATION PagesSpec
CHECK_DEADLOCK FALSE
INVARIANTS Placed Ordered OnlyRbacStripped CardsShown MenuKept TableRight ShellHolds
PROPERTIES LearningEnds
