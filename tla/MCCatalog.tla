----------------------------- MODULE MCCatalog ------------------------------
(* Catalog with a few invocations and changes of the media, for TLC.       *)
EXTENDS Catalog
=============================================================================
