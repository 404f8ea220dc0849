--------------------------- MODULE MCCodebaseDocs ---------------------------
(* The symmetry the configurations of CodebaseDocs use. *)
EXTENDS CodebaseDocs, TLC

RevsSymmetry == Permutations(Revs)
=============================================================================
