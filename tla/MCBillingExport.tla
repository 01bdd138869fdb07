--------------------------- MODULE MCBillingExport ---------------------------
(* A stop whose read is flagged, for its value and for its position, and   *)
(* is taken again; and a stop that is skipped or not read.                 *)
EXTENDS BillingExport, TLC
CONSTANTS meter, other, leak, gps
MCReads == {[id |-> 1, stop |-> meter], [id |-> 2, stop |-> meter]}
MCFindings == [e \in MCReads |-> IF e.id = 1 THEN {leak, gps} ELSE {}]
MCOneFinding ==
  [e \in MCReads |-> IF e.id = 1 THEN {leak} ELSE {}]
MCSymmetry == Permutations(Requests) \cup Permutations(Exports)
=============================================================================
