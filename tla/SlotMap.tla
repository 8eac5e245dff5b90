------------------------------- MODULE SlotMap -------------------------------
(***************************************************************************)
(* The array of virtual slots of a DiskChanger (VirtualSlotArray vslot),   *)
(* as a function on 0 .. size-1, and the operations InitializeVirtSlots()  *)
(* (src/src/diskchanger.cpp) performs on it.  Slot 0 is never used.        *)
(***************************************************************************)
EXTENDS Integers

(* VirtualSlot::clear(): a slot no magazine volume is mapped to.           *)
EmptySlot == [bay |-> -1, mslot |-> -1]

EmptySlots(size) == [s \in 0 .. size - 1 |-> EmptySlot]

(* The slots a magazine of n volumes occupies when its first one is first. *)
SlotRange(first, n) == first .. first + n - 1

Taken(vslot) == {s \in DOMAIN vslot : vslot[s] # EmptySlot}

Larger(i, j) == IF i < j THEN j ELSE i

(* vslot.push_back() until there are size slots.                           *)
Grown(vslot, size) ==
    [s \in 0 .. size - 1 |-> IF s \in DOMAIN vslot THEN vslot[s] ELSE EmptySlot]

(* Map magazine slots 0, 1, ... n-1 of a bay to consecutive virtual slots. *)
Assigned(vslot, bay, first, n) ==
    [s \in DOMAIN vslot |->
        IF s \in SlotRange(first, n) THEN [bay |-> bay, mslot |-> s - first]
                                     ELSE vslot[s]]

(* No slot of the range is taken; slots beyond the array do not exist yet. *)
Fits(taken, first, n) == SlotRange(first, n) \cap taken = {}

(***************************************************************************)
(* The slot FindEmptySlotRange(n) returns, for an array of size slots:     *)
(* the lowest one at which n volumes fit.  The module SlotSearch shows     *)
(* that this is what its loops compute.                                    *)
(***************************************************************************)
FindEmptySlotRange(taken, size, n) ==
    CHOOSE first \in 1 .. size :
        /\ Fits(taken, first, n)
        /\ \A lower \in 1 .. first - 1 : ~Fits(taken, lower, n)
=============================================================================
