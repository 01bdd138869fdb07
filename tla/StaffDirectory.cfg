SPECIFICATION Spec
CONSTANTS
  founder = founder
  ann = ann
  ben = ben
  annAtHome = annAtHome
  office = office
  People = {founder, ann, ben}
  Emails = {annAtHome, office}
  VerifiedOf <- MCVerifiedOf
  Root = root
  Founder = founder
  Rows = {root, r1, r2, r3}
  Roles = {"admin", "reader"}
  Requests = {h1, h2}
  NoOne = NoOne
  NoEmail = NoEmail
SYMMETRY MCSymmetry
INVARIANTS TypeOK OneRowEach ClaimedByAddressee AdminRemainsAlone
CHECK_DEADLOCK FALSE
