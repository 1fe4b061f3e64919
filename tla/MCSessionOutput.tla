--------------------------- MODULE MCSessionOutput ---------------------------
(* Finite instances of SessionOutput.                                     *)
EXTENDS SessionOutput, TLC

\* Setups differ in nothing but their names.
Symmetry == Permutations(Setups)
=============================================================================
