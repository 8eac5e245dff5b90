--------------------------- MODULE MCBconsolePipe ---------------------------
(* BconsolePipe with pipes of a few bytes.                                 *)
EXTENDS BconsolePipe
=============================================================================
