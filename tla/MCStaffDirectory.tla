-------------------------- MODULE MCStaffDirectory --------------------------
(* Two newcomers, one of them with two addresses, one of which the other   *)
(* has proved too.                                                         *)
EXTENDS StaffDirectory, TLC
CONSTANTS founder, ann, ben, annAtHome, office
MCVerifiedOf == [p \in {founder, ann, ben} |->
  CASE p = founder -> {} [] p = ann -> {annAtHome, office} [] p = ben -> {office}]
MCSymmetry == Permutations(Requests) \cup Permutations(Rows \ {Root})
=============================================================================
