---------------------------- MODULE DiskChanger -----------------------------
(***************************************************************************)
(* One DiskChanger as a whole (src/src/diskchanger.cpp): Initialize() maps *)
(* the volumes of the mounted magazines to virtual slots (MagazineBays),   *)
(* then restores the drives from what is in those slots (VirtualDrives),   *)
(* and then a command loads or unloads a drive or creates volumes.         *)
(*                                                                         *)
(* MagazineBays counts volumes and VirtualDrives is given them.  Here they *)
(* have names, by which they are sorted into slots and by which alone a    *)
(* restored drive finds its volume again; two magazines may have volumes   *)
(* of the same name.                                                       *)
(***************************************************************************)
EXTENDS MagazineBays, FiniteSets

CONSTANTS
    Slots,          \* bound: the highest virtual slot
    Drives,         \* bound: drive numbers that are used
    NamesOn,        \* the names volume files may have on each magazine
    MountPoint,     \* where a magazine may be mounted
    NoVolume, Empty, NoLink

ASSUME SizesAssumption == Slots \in Nat \ {0} /\ Drives \in Nat \ {0}
ASSUME NamesAssumption ==
    /\ DOMAIN NamesOn = Bay
    /\ \A b \in Bay : NamesOn[b] \subseteq Nat /\ IsFiniteSet(NamesOn[b])

VARIABLES
    labels,         \* the names of the volume files on each magazine
    place,          \* where it is mounted
    at,             \* the volume in each virtual slot
    drvFile, link, dpc, n, drives, vs, slotDrv, loading,   \* VirtualDrives
    had             \* the drives' state files when the invocation read them

Name == UNION {NamesOn[b] : b \in Bay}
Volume == {v \in [bay : Bay, name : Name] : v.name \in NamesOn[v.bay]}

ASSUME NothingAssumption ==
    /\ NoVolume \notin Volume
    /\ Empty \notin Volume \cup {NoVolume}
    /\ NoLink \notin [volume : Volume, mount : MountPoint]

(* File operations on the drives that fail are left to VirtualDrives.      *)
D == INSTANCE VirtualDrives WITH
         DiskErrors <- FALSE,
         pc <- dpc,
         LabelOf <- [v \in Volume |-> v.name],
         mount <- [v \in Volume |-> place[v.bay]]

magazines == <<labels, place>>
driveVars == <<at, drvFile, link, dpc, n, drives, vs, slotDrv, loading>>
allVars == <<vars, magazines, driveVars, had>>

None == [d \in D!Drive |-> NoVolume]

(* How many volumes there are; without any it may be mounted or not.       *)
Counts(names) == IF names = {} THEN {NotMounted, 0} ELSE {Cardinality(names)}

InitChanger ==
    /\ Init
    /\ labels \in [Bay -> SUBSET Name]
    /\ \A b \in Bay : labels[b] \subseteq NamesOn[b] /\ files[b] \in Counts(labels[b])
    /\ place \in [Bay -> MountPoint]
    /\ at = [s \in D!Slot |-> NoVolume]
    /\ drvFile = None
    /\ link = [d \in D!Drive |-> NoLink]
    /\ dpc = "off" /\ n = 0 /\ drives = 0 /\ loading = FALSE
    /\ vs = D!NothingLoaded /\ slotDrv = D!NoneInDrive
    /\ had = None

-----------------------------------------------------------------------------
(***************************************************************************)
(* Between two invocations the files on a magazine are exchanged, or it is *)
(* unmounted, or mounted elsewhere.                                        *)
(***************************************************************************)
ExchangeVolumes(b) ==
    /\ ChangeMagazine(b)
    /\ \E names \in SUBSET NamesOn[b], where \in MountPoint :
        /\ files'[b] \in Counts(names)
        /\ labels' = [labels EXCEPT ![b] = names]
        /\ place' = [place EXCEPT ![b] = where]
    /\ UNCHANGED <<driveVars, had>>

(***************************************************************************)
(* Initialize(): first the slots.  Then GetVolumeLabel() of a slot is the  *)
(* name of the volume that its magazine has in alphanumeric order.         *)
(***************************************************************************)
MapMagazines ==
    /\ Begin \/ Keep \/ Assign \/ SaveBays
    /\ UNCHANGED <<magazines, driveVars, had>>

Nth(names, i) ==
    CHOOSE name \in names : Cardinality({other \in names : other < name}) = i

VolumeIn(s) ==
    IF s \in Taken(vslot)
    THEN [bay |-> vslot[s].bay, name |-> Nth(labels[vslot[s].bay], vslot[s].mslot)]
    ELSE NoVolume

MapVolumes ==
    /\ SaveDynamic
    /\ at' = [s \in D!Slot |-> VolumeIn(s)]
    /\ UNCHANGED <<magazines, drvFile, link, dpc, n, drives, vs, slotDrv, loading, had>>

(***************************************************************************)
(* Then the drives.                                                        *)
(***************************************************************************)
StayOn == UNCHANGED <<vars, magazines>>
EndProcess ==
    /\ Exit
    /\ had' = None
    /\ UNCHANGED <<disk, reported, settled, magazines>>

InitializeDrivesEarly ==
    /\ pc \in {"save", "dynamic", "ready"}
    /\ StayOn
    /\ D!Begin
    /\ had' = drvFile
InitializeDrives ==
    /\ pc = "ready"
    /\ StayOn
    /\ D!Begin
    /\ had' = drvFile

RestoreDrives ==
    /\ StayOn /\ UNCHANGED had
    /\ \/ D!RestoreUnloaded \/ D!RestoreGone \/ D!ForgetLink \/ D!RestoreLoaded
       \/ D!LinkFound \/ D!RemoveOldLink \/ D!CreateLink

-----------------------------------------------------------------------------
(* The commands.  Each ends the process, also when it is refused.          *)
MoveVolume ==
    /\ pc = "ready"
    /\ StayOn /\ UNCHANGED had
    /\ \/ \E d \in D!Drive, s \in D!Slot : D!LoadAgain(d, s) \/ D!Load(d, s)
       \/ \E d \in D!Drive : D!UnloadEmpty(d) \/ D!Unload(d)
       \/ D!SaveLoaded \/ D!DeleteState

RefuseToMove ==
    /\ pc = "ready"
    /\ EndProcess
    /\ \E d \in D!Drive, s \in 1 .. Slots + 1 : D!RefuseLoad(d, s)

AddVolumes ==
    /\ dpc = "ready"
    /\ \/ \E b \in Bay, count \in 1 .. MaxVolumes : CreateVolumes(b, count)
       \/ CreateSucceeds
    /\ UNCHANGED <<magazines, driveVars, had>>

AddVolume ==
    /\ dpc = "ready"
    /\ CreateVolume
    /\ \E name \in NamesOn[making.bay] \ labels[making.bay] :
           labels' = [labels EXCEPT ![making.bay] = @ \cup {name}]
    /\ UNCHANGED <<place, driveVars, had>>

AddFails ==
    /\ CreateFails
    /\ had' = None
    /\ UNCHANGED magazines
    /\ D!Finish

FinishCommand ==
    /\ pc \in {"ready", "done"}
    /\ EndProcess
    /\ D!Finish

Killed ==
    /\ Crashes /\ pc # "off"
    /\ EndProcess
    /\ D!Crash \/ D!CrashInSave \/ (dpc = "off" /\ UNCHANGED driveVars)

NextChanger ==
    \/ \E b \in Bay : ExchangeVolumes(b)
    \/ MapMagazines \/ MapVolumes \/ InitializeDrives \/ RestoreDrives
    \/ MoveVolume \/ RefuseToMove
    \/ AddVolumes \/ AddVolume \/ AddFails
    \/ FinishCommand \/ Killed

SpecChanger == InitChanger /\ [][NextChanger]_allVars

-----------------------------------------------------------------------------
(***************************************************************************)
(* What VirtualDrives takes for granted is what the slot mapping provides: *)
(* a volume is in one slot only, and no slot or mountpoint changes while   *)
(* drives are restored or a command is performed.  Whatever is shown of    *)
(* VirtualDrives, and of Autochanger which it implements, is therefore     *)
(* true of the whole changer.                                              *)
(***************************************************************************)
ImplementsDrives == D!Spec

(***************************************************************************)
(* "If the volume previously loaded is available, then restore drive to    *)
(* the loaded state" (diskchanger.cpp:448): however the slots moved, and   *)
(* whatever was killed since the LOAD, a drive whose volume is still on a  *)
(* mounted magazine is loaded again with a volume of that name, by a       *)
(* symlink to where it is now; and with the same volume, unless another    *)
(* magazine has a volume of that name too.                                 *)
(***************************************************************************)
InChanger(v) == v \in Volume /\ v.name \in labels[v.bay]
OnlyOne(v) == \A b \in Bay \ {v.bay} : v.name \notin labels[b]

LoadedVolumeStays ==
    pc = "ready" /\ dpc = "ready" =>
        \A d \in D!Drive : InChanger(had[d]) =>
            /\ vs[d] # D!NoSlot
            /\ at[vs[d]].name = had[d].name
            /\ OnlyOne(had[d]) => at[vs[d]] = had[d]
            /\ link[d] = [volume |-> at[vs[d]], mount |-> place[at[vs[d]].bay]]

(***************************************************************************)
(* When Initialize() finds that Bacula need not be told, each slot has the *)
(* volume that it had when the slots were last mapped; except a magazine's *)
(* whose files were exchanged for as many others, which is not looked at,  *)
(* or whose state file is not that of this mapping, because an invocation  *)
(* was killed while it saved them or CREATEVOLS wrote it.                  *)
(***************************************************************************)
SlotsOf(b) == {s \in D!Slot : at[s] # NoVolume /\ at[s].bay = b}

Exchanged(b) ==
    /\ labels[b] # {at[s].name : s \in SlotsOf(b)}
    /\ Cardinality(labels[b]) = Cardinality(SlotsOf(b))

FileIsOfMapping(b) ==
    prev[b] = IF SlotsOf(b) = {} THEN NoState
              ELSE [num |-> Cardinality(SlotsOf(b)),
                    start |-> CHOOSE s \in SlotsOf(b) : \A t \in SlotsOf(b) : s <= t]

StaysIn(s, v) ==
    \/ at[s] = v
    \/ \E b \in Bay : s \in SlotsOf(b) /\ v # NoVolume /\ v.bay = b /\ Exchanged(b)

NothingMovesSilently ==
    [][/\ pc = "dynamic" /\ pc' = "ready"
       /\ ~needsUpdate
       /\ \A b \in Bay : FileIsOfMapping(b)
       => \A s \in D!Slot : StaysIn(s, at'[s])]_allVars
=============================================================================
