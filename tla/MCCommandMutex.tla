--------------------------- MODULE MCCommandMutex ---------------------------
(* CommandMutex with a small set of invocations, for TLC.                  *)
EXTENDS CommandMutex
=============================================================================
