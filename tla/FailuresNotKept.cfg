SPECIFICATION Spec
CONSTANTS
  Clients = {"ames", "boone", "clive"}
  Cycles = {"may", "june"}
  NoCycle = "none"
  FirstCycle <- MCFirstCycle
  Home <- MCHome
  MaxClicks = 2
  MaxChanges = 1
  Stops = {s1, s2}
  MaxValue = 1
  MaxSaves = 1
  GRID = 4
  MIN_ZOOM = 1
  MAX_ZOOM = 2
  MAX_TILES = 1
  CONCURRENCY = 1
  MIN_PAD = 1
  SCREEN = 1
  Routes <- MCRoutes
  Corners <- MCCorners
  MaxPuts = 1
  MaxOpens = 1
  MaxFailures = 1
  MaxRenders = 1
INVARIANT FailuresNotKept
CHECK_DEADLOCK FALSE
