---------------------------- MODULE MCStateFile -----------------------------
(* StateFile with all names of one or two of the characters that the       *)
(* syntax tells apart, and volumes whose names have three of those that    *)
(* end or part a text.                                                     *)
EXTENDS StateFile

MCCharacter == {"a", " ", "\t", ",", Quote, "\\", "\n", CR}
TextsUpToTwo == UNION {[1..m -> MCCharacter] : m \in 1..2}

MCLabel == TextsUpToTwo \cup [1..3 -> {"a", " ", ",", Quote, CR}]
MCDevice == {d \in TextsUpToTwo : Stripped(d) = d}
=============================================================================
