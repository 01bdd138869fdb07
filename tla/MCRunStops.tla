----------------------------- MODULE MCRunStops -----------------------------
(* Two readers and a two-stop route: a reading at the first stop and its   *)
(* correction by a supervisor, and the other reader's at the second.       *)
EXTENDS RunStops, TLC
CONSTANTS ann, ben, sam
MCReads ==
  { [id |-> 1, stop |-> 1, capturedAt |-> 1, by |-> ann],
    [id |-> 2, stop |-> 1, capturedAt |-> 2, by |-> sam],
    [id |-> 3, stop |-> 2, capturedAt |-> 3, by |-> ben] }
MCStops == 1..2
\* The API does not tell its requests apart.
MCSymmetry == Permutations(Requests)
=============================================================================
