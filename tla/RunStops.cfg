SPECIFICATION Spec
CONSTANTS
  ann = ann
  ben = ben
  sam = sam
  Stops <- MCStops
  Runs = {whole, part}
  AssignedRun = whole
  Readers = {ann, ben}
  Staff = {sam}
  Reads <- MCReads
  Requests = {h1, h2}
  NoRun = NoRun
  NoReader = NoReader
  NoRead = NoRead
  MaxFailures = 1
SYMMETRY MCSymmetry
INVARIANTS TypeOK ReadsCount ClosedRunIsDone
PROPERTY RecordNeverOlder
CHECK_DEADLOCK FALSE
