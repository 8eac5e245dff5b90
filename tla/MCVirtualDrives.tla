--------------------------- MODULE MCVirtualDrives ---------------------------
(* VirtualDrives with a few volumes; which of them have the same name is   *)
(* chosen here.                                                            *)
EXTENDS VirtualDrives

(* The file names are unique, or all the same.                             *)
DistinctLabels == [v \in Volume |-> v]
SharedLabel == [v \in Volume |-> "label"]
=============================================================================
