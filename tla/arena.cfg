SPECIFICATION ArenaSpec
CHECK_DEADLOCK FALSE
CONSTANTS
  Searches <- MCSearches
  Width = 6
  Height = 2
  Walkable <- MCWalkable
  Routes <- MCRoutes
  Roles = {1, 2}
  Sites <- MCSites
  Destinations <- MCDestinations
  Owners <- MCOwners
  MaxId = 6
  MaxHp = 2
  Damage = 1
  Recovery = 1
  AttackRange = 1
  SearchRange = 2
  FoodMax = 1
  FoodNeed = 1
  FoodAdd = 1
  SupplyNeed = 1
  SupplyAdd = 1
  SceneConfs <- MCSceneConfs
  CombatMaps <- MCCombatMaps
  CombatSites <- MCCombatSites
  MaxCombats = 3
  RobotFds = {1, 2}
  Commands <- MCCommands
  Answers = {"login", "action", "action_sync"}
  MaxTyped = 3
INVARIANTS PathsFound TargetsWatched BooksBalance StartedRight ScenesReady PathFilesRight RobotKept
PROPERTIES SearchIsAStar
