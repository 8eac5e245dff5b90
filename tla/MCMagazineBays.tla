--------------------------- MODULE MCMagazineBays ---------------------------
(* MagazineBays with two or three magazines of up to three volumes.        *)
EXTENDS MagazineBays
=============================================================================
