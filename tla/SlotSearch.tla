----------------------------- MODULE SlotSearch -----------------------------
(***************************************************************************)
(* The loops of DiskChanger::FindEmptySlotRange() (src/src/diskchanger.cpp)*)
(* one iteration at a time, on an array of which any slots but slot 0 may  *)
(* be taken.                                                               *)
(***************************************************************************)
EXTENDS SlotMap

CONSTANTS
    Sizes,    \* the sizes vslot may have when the search starts
    Counts    \* the numbers of slots that may be asked for

ASSUME SizesAssumption == Sizes \subseteq Nat \ {0}
ASSUME CountsAssumption == Counts \subseteq Nat \ {0}

VARIABLES
    slots,    \* vslot.size() when the function is called
    taken,    \* the slots mapped to a magazine, which the search only reads
    count,    \* the parameter
    size,     \* vslot.size() now
    n, start, found,
    pc        \* "skip": over taken slots; "scan": counting; "extend"; "return"

vars == <<slots, taken, count, size, n, start, found, pc>>
call == <<slots, taken, count>>

TypeOK ==
    /\ slots \in Sizes
    /\ taken \in SUBSET (1 .. slots - 1)
    /\ count \in Counts
    /\ size \in Nat \ {0}
    /\ n \in Nat \ {0}
    /\ start \in Nat \ {0}
    /\ found \in 0 .. count
    /\ pc \in {"skip", "scan", "extend", "return"}

Init ==
    /\ slots \in Sizes
    /\ taken \in SUBSET (1 .. slots - 1)
    /\ count \in Counts
    /\ size = slots
    /\ n = 1
    /\ start = 1
    /\ found = 0
    /\ pc = "skip"

TakenHere == n < size /\ n \in taken

(* while (n < vslot.size() && vslot[n].mag_bay >= 0) n++;                  *)
Skip ==
    /\ pc = "skip"
    /\ TakenHere
    /\ n' = n + 1
    /\ UNCHANGED <<call, size, start, found, pc>>

(* start = n;                                                              *)
Mark ==
    /\ pc = "skip"
    /\ ~TakenHere
    /\ start' = n
    /\ pc' = "scan"
    /\ UNCHANGED <<call, size, n, found>>

Scanning == pc = "scan" /\ n < size /\ found < count

Count ==
    /\ Scanning
    /\ ~TakenHere
    /\ found' = found + 1
    /\ n' = n + 1
    /\ UNCHANGED <<call, size, start, pc>>

RestartCounting ==
    /\ Scanning
    /\ TakenHere
    /\ pc' = "skip"
    /\ UNCHANGED <<call, size, n, start, found>>
RestartInPlace ==
    /\ Scanning
    /\ TakenHere
    /\ found' = 0
    /\ UNCHANGED <<call, size, n, start, pc>>
Restart ==
    /\ Scanning
    /\ TakenHere
    /\ found' = 0
    /\ pc' = "skip"
    /\ UNCHANGED <<call, size, n, start>>

EndScan ==
    /\ pc = "scan"
    /\ ~Scanning
    /\ pc' = IF found >= count THEN "return" ELSE "extend"
    /\ UNCHANGED <<call, size, n, start, found>>

(* The loop that appends slots until the range at the end is large enough. *)
Extend ==
    /\ pc = "extend"
    /\ found < count
    /\ size' = size + 1
    /\ n' = n + 1
    /\ found' = found + 1
    /\ UNCHANGED <<call, start, pc>>

EndExtend ==
    /\ pc = "extend"
    /\ found >= count
    /\ pc' = "return"
    /\ UNCHANGED <<call, size, n, start, found>>

Returned == pc = "return" /\ UNCHANGED vars

Next == Skip \/ Mark \/ Count \/ Restart \/ EndScan \/ Extend \/ EndExtend
           \/ Returned

(* One thread runs the loops; it is not stopped for good between two steps.*)
Spec == Init /\ [][Next]_vars /\ WF_vars(Next)

-----------------------------------------------------------------------------
(***************************************************************************)
(* The search returns the lowest slot at which count volumes fit, with the *)
(* array grown exactly as much as that range needs, and never shrunk.      *)
(***************************************************************************)
ReturnsLowestFit ==
    pc = "return" =>
        /\ start = FindEmptySlotRange(taken, slots, count)
        /\ size = Larger(slots, start + count)

(* The search ends, however the taken slots are laid out.                  *)
SearchEnds == <>(pc = "return")
=============================================================================
