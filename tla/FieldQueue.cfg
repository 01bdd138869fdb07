SPECIFICATION Spec
CONSTANTS
  Captures = {read, skip}
  Reads = {read}
  WithPhoto = {read, skip}
  Refusable = {skip}
  Loads = {l1, l2}
  EarlyCapture = TRUE
  MaxFaults = 2
SYMMETRY LoadSymmetry
INVARIANTS TypeOK LandsAtMostOnce SyncedIsStored EvidenceFirst NothingWaitsUnasked
PROPERTY KeepsCaptures
CHECK_DEADLOCK FALSE
