----------------------------- MODULE Autochanger -----------------------------
(***************************************************************************)
(* What a Bacula autochanger promises about its drives, whoever implements *)
(* it: a volume is in at most one drive, a drive holds at most one volume, *)
(* and a volume leaves a drive only by an UNLOAD of that drive or by being *)
(* taken out of the changer.  The Bacula Autochanger Interface commands    *)
(* are those of src/src/vchanger.cpp; VirtualDrives implements them.       *)
(***************************************************************************)
CONSTANTS
    Drive,
    Volume,
    NoVolume      \* not a member of Volume

VARIABLES
    available,    \* the volumes on the magazines in the changer
    loaded        \* the volume in each drive

vars == <<available, loaded>>

TypeOK ==
    /\ available \in SUBSET Volume
    /\ loaded \in [Drive -> Volume \cup {NoVolume}]

Init ==
    /\ available \in SUBSET Volume
    /\ loaded = [d \in Drive |-> NoVolume]

(* Magazines are mounted and unmounted, volume files come and go.          *)
Exchange ==
    /\ available' \in SUBSET Volume
    /\ UNCHANGED loaded

Load(d, v) ==
    /\ v \in available
    /\ loaded[d] = NoVolume
    /\ \A e \in Drive : loaded[e] # v
    /\ loaded' = [loaded EXCEPT ![d] = v]
    /\ UNCHANGED available

Unload(d) ==
    /\ loaded[d] \in available
    /\ loaded' = [loaded EXCEPT ![d] = NoVolume]
    /\ UNCHANGED available

(* A drive gives up a volume that is no longer in the changer.             *)
Release(d) ==
    /\ loaded[d] \notin available
    /\ loaded' = [loaded EXCEPT ![d] = NoVolume]
    /\ UNCHANGED available

Next ==
    \/ Exchange
    \/ \E d \in Drive : Unload(d) \/ Release(d) \/ \E v \in Volume : Load(d, v)

Spec == Init /\ [][Next]_vars

(* No two drives hold the same volume.                                     *)
NoVolumeInTwoDrives ==
    \A d, e \in Drive : loaded[d] = loaded[e] /\ loaded[d] # NoVolume => d = e
=============================================================================
