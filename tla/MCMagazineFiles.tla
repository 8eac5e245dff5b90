-------------------------- MODULE MCMagazineFiles ---------------------------
(* MagazineFiles with two old drives, for TLC.                             *)
EXTENDS MagazineFiles, TLC

(* The drives are alike, and the properties do not tell them apart.        *)
Symmetry == Permutations(Drive)
=============================================================================
