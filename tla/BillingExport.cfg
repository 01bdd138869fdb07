SPECIFICATION Spec
CONSTANTS
  meter = meter
  other = other
  leak = leak
  gps = gps
  Stops = {meter, other}
  Reads <- MCReads
  Kinds = {leak, gps}
  Blocking = {leak}
  Findings <- MCFindings
  Requests = {h1, h2}
  Exports = {x1, x2, x3}
  NoRead = NoRead
  NoExport = NoExport
SYMMETRY MCSymmetry
INVARIANTS TypeOK OneCurrent BlockedNeverBilled
PROPERTY SnapshotsStand
CHECK_DEADLOCK FALSE
