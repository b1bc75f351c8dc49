\* The request is answered once and the surroundings are bounded.
CHECK_DEADLOCK FALSE
SPECIFICATION Spec
CONSTANTS
  Roots = {"here", "there"}
  Unusable = "unusable"
  Cuts <- EveryCut
  Days = {1, 2}
  Scopes = {1, 2, 3}
  DefaultScope = 0
  Profiles <- Catalog
  DefaultProfile = "default"
  Requests = {"operate", "flash", "health"}
  MaxIntervals = 3
  MaxScopes = 2
  PerHour = 2
  MayUndo = TRUE
  MaxGen = 2
  MaxMoves = 2
INVARIANTS NothingCutOff ReadyWasTrue LatestNotOlder
