------------------------------ MODULE MCMvccTable ------------------------------
(* Instances of MvccTable for TLC.                                         *)
EXTENDS MvccTable

Symmetry == Permutations(Tx)
=================================================================================
