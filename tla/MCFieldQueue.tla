----------------------------- MODULE MCFieldQueue -----------------------------
(***************************************************************************)
(* FieldQueue for the safety run: the overlapping loads are interchangeable *)
(* (every mounted component calls the same load()), and no safety property *)
(* tells them apart.                                                       *)
(***************************************************************************)
EXTENDS FieldQueue, TLC

LoadSymmetry == Permutations(Loads)
=============================================================================
