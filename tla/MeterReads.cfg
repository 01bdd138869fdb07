SPECIFICATION MCSpec
CONSTANTS
  Dials = 1
  BaselineMonths = 4
  MinBaselineReads = 2
  ZeroStreakCycles = 3
  DuplicateTolerance = 2
  HighRead = 20
  LowRead = 3
  LeakSpike = 50
  RolloverBand = 20
  RolloverProximity = 9
  Null = Null
  Values = {1, 9, 10}
  Stops = {1, 2}
  Gaps = {1, 2}
  Fixes = {TRUE}
  Histories <- MCHistories
  Horizon = 3
  RECENT_LIMIT = 4
  NoStop = NoStop
  NoPage = NoPage
  Offline = Offline
  Months = {0, 7}
  Jitters = {85, 115}
  StartValues = {3499}
  Draws = {110}
  Pauses = {2}
  MaxSeeds = 1
  MaxPlays = 2
  MaxByHand = 1
  MaxLost = 1
  MaxTime = 28
  Imported = Imported
INVARIANTS AllTyped Conserved DisagreementFlagged PreviewAgreesWhenCurrent EachTripsItsOwn
CHECK_DEADLOCK FALSE
