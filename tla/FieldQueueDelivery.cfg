SPECIFICATION Spec
CONSTANTS
  Captures = {read, plain, skip}
  Reads = {read, plain}
  WithPhoto = {read, skip}
  Refusable = {skip}
  Loads = {l1}
  EarlyCapture = FALSE
  MaxFaults = 2
PROPERTY DeliversCaptures
CHECK_DEADLOCK FALSE
