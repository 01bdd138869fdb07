SPECIFICATION Spec
CONSTANTS
  flag = flag
  skip = skip
  r1 = r1
  Exceptions = {flag, skip}
  SkipExceptions = {skip}
  Supervisors = {p1, p2}
  Readers = {r1}
  FlaggedReader <- MCFlaggedReader
  Rereads = {i1, i2}
  MAX_REREADS = 2
INVARIANTS TypeOK RereadCap OrderedHasTask DecisionStands
PROPERTY TerminalIsFinal
CHECK_DEADLOCK FALSE
