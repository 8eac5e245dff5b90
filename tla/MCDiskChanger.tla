--------------------------- MODULE MCDiskChanger ----------------------------
(* DiskChanger with two magazines that share the name of one volume.       *)
EXTENDS DiskChanger

MCNamesOn == [b \in Bay |-> IF b = 0 THEN {2, 3} ELSE {2}]

(* States that differ only in what no action of DiskChanger and none of its *)
(* properties reads are one: the observers of MagazineBays, and where a    *)
(* magazine without volumes is mounted.                                    *)
Relevant ==
    <<disk, memory, labels, [b \in {c \in Bay : labels[c] # {}} |-> place[b]],
      driveVars, had>>
=============================================================================
