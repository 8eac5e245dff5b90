---------------------------- MODULE VirtualDrives ----------------------------
(***************************************************************************)
(* The virtual drives of the changer: their state files drive_state-N, the *)
(* symlinks Bacula opens, and what LOAD and UNLOAD do to them, one change  *)
(* of the disk at a time (class DriveState and the second half of          *)
(* DiskChanger::Initialize(), src/src/diskchanger.cpp).                    *)
(*                                                                         *)
(* The virtual slots are given: an invocation finds any volumes in any     *)
(* slots, on any mountpoints.  How they get there is MagazineBays.  One    *)
(* invocation runs at a time: CommandMutex.                                *)
(***************************************************************************)
EXTENDS Integers

CONSTANTS
    Slots,          \* bound: number of virtual slots
    Drives,         \* bound: drive numbers that are used
    Volume,         \* volume files: each is a name on one of the magazines
    LabelOf,        \* the file names; two magazines may have the same one
    MountPoint,     \* where the magazine of a volume may be mounted
    NoVolume,       \* nothing in the slot; no state file
    Empty,          \* a state file that was created and not written
    NoLink,         \* no symlink
    Crashes,        \* may an invocation be killed?
    DiskErrors      \* may a file operation fail, or a write be lost?

ASSUME SlotsAssumption == Slots \in Nat \ {0}
ASSUME DrivesAssumption == Drives \in Nat \ {0}
ASSUME NothingAssumption ==
    /\ NoVolume \notin Volume
    /\ Empty \notin Volume \cup {NoVolume}
ASSUME NoLinkAssumption == NoLink \notin [volume : Volume, mount : MountPoint]

Slot == 1 .. Slots
Drive == 0 .. Drives - 1
NoSlot == -1
NoDrive == -1
Path == [volume : Volume, mount : MountPoint]

VARIABLES
    \* The changer's surroundings
    at,           \* the volume mapped to each virtual slot
    mount,        \* where the magazine of each volume is mounted
    \* The work directory
    drvFile,      \* the volume named in drive_state-N
    link,         \* the target of the symlink N
    \* The memory of the running invocation
    pc,
    n,            \* the drive at hand
    drives,       \* drive.size()
    vs,           \* DriveState::vs: the slot each drive is loaded from
    slotDrv,      \* VirtualSlot::drv: the drive each slot is loaded in
    loading       \* CreateDriveSymlink() was called by LoadDrive()

outside == <<at, mount>>
disk == <<drvFile, link>>
memory == <<pc, n, drives, vs, slotDrv, loading>>
vars == <<outside, disk, memory>>

TypeOK ==
    /\ at \in [Slot -> Volume \cup {NoVolume}]
    /\ mount \in [Volume -> MountPoint]
    /\ drvFile \in [Drive -> Volume \cup {NoVolume, Empty}]
    /\ link \in [Drive -> Path \cup {NoLink}]
    /\ pc \in {"off", "restore", "forget", "unread", "link", "save", "unload", "ready", "done"}
    /\ n \in Drive
    /\ drives \in 0 .. Drives
    /\ vs \in [Drive -> Slot \cup {NoSlot}]
    /\ slotDrv \in [Slot -> Drive \cup {NoDrive}]
    /\ loading \in BOOLEAN

(* A volume file is in one slot.                                           *)
Mapping == {map \in [Slot -> Volume \cup {NoVolume}] :
               \A s, t \in Slot : map[s] = map[t] /\ map[s] # NoVolume => s = t}

NothingLoaded == [d \in Drive |-> NoSlot]
NoneInDrive == [s \in Slot |-> NoDrive]

Init ==
    /\ at \in Mapping
    /\ mount \in [Volume -> MountPoint]
    /\ drvFile = [d \in Drive |-> NoVolume]
    /\ link = [d \in Drive |-> NoLink]
    /\ pc = "off" /\ n = 0 /\ drives = 0 /\ loading = FALSE
    /\ vs = NothingLoaded
    /\ slotDrv = NoneInDrive

(* The end of the process, whose memory is gone.                           *)
Exit ==
    /\ pc' = "off" /\ n' = 0 /\ drives' = 0 /\ loading' = FALSE
    /\ vs' = NothingLoaded
    /\ slotDrv' = NoneInDrive

-----------------------------------------------------------------------------
(* Between two invocations magazines are exchanged, volumes come and go.   *)
Remap ==
    /\ pc = "off"
    /\ at' \in Mapping
    /\ mount' \in [Volume -> MountPoint]
    /\ UNCHANGED <<disk, memory>>

(***************************************************************************)
(* InitializeDrives(): there are as many drives as the highest numbered    *)
(* state file says, and at least one.  Each is restored in turn.           *)
(***************************************************************************)
HasStateFile(d) == drvFile[d] # NoVolume

Begin ==
    /\ pc = "off"
    /\ pc' = "restore" /\ n' = 0
    /\ \E max \in Drive :
          /\ HasStateFile(max) \/ max = 0
          /\ \A d \in Drive : HasStateFile(d) => d <= max
          /\ drives' = max + 1
    /\ vs' = NothingLoaded
    /\ slotDrv' = NoneInDrive
    /\ loading' = FALSE
    /\ UNCHANGED <<outside, disk>>

NextDriveOffByOne ==
    IF n < drives THEN n' = n + 1 /\ pc' = "restore"
                  ELSE n' = 0 /\ pc' = "ready"
NextDrive ==
    IF n + 1 < drives THEN n' = n + 1 /\ pc' = "restore"
                      ELSE n' = 0 /\ pc' = "ready"

(* The slots whose volume has the label in the state file of drive d; the  *)
(* device that is in the file as well is not looked at.                    *)
SlotsWithLabel(d) ==
    {s \in Slot : /\ at[s] # NoVolume
                  /\ drvFile[d] \in Volume
                  /\ LabelOf[at[s]] = LabelOf[drvFile[d]]}

(* RemoveDriveSymlink(), whose result is not checked here.                 *)
TryRemoveLink ==
    \/ link' = [link EXCEPT ![n] = NoLink]
    \/ DiskErrors /\ UNCHANGED link

RestoreUnloaded ==
    /\ pc = "restore"
    /\ ~HasStateFile(n)
    /\ TryRemoveLink
    /\ NextDrive
    /\ UNCHANGED <<outside, drvFile, drives, vs, slotDrv, loading>>

(* The state file cannot be opened: the drive is left unloaded.            *)
RestoreUnreadable ==
    /\ DiskErrors
    /\ pc = "restore"
    /\ HasStateFile(n)
    /\ NextDrive
    /\ UNCHANGED <<outside, disk, drives, vs, slotDrv, loading>>

(* unlink() of a state file, whose result is never checked.                *)
TryDeleteState ==
    \/ drvFile' = [drvFile EXCEPT ![n] = NoVolume]
    \/ DiskErrors /\ UNCHANGED drvFile

(* The file is empty, or the volume is gone: first unlink the state file,  *)
(* then remove the symlink.                                                *)
RestoreGone ==
    /\ pc = "restore"
    /\ HasStateFile(n)
    /\ SlotsWithLabel(n) = {}
    /\ TryDeleteState
    /\ pc' = "forget"
    /\ UNCHANGED <<outside, link, n, drives, vs, slotDrv, loading>>

(* It could be opened but not read: the drive is taken for unloaded, and   *)
(* its state file and symlink go too, though its volume may be there.  If  *)
(* stat() fails only the symlink goes.                                     *)
RestoreUnread ==
    /\ DiskErrors
    /\ pc = "restore"
    /\ HasStateFile(n)
    /\ TryDeleteState
    /\ pc' = "unread"
    /\ UNCHANGED <<outside, link, n, drives, vs, slotDrv, loading>>

ForgetLink ==
    /\ pc = "forget"
    /\ TryRemoveLink
    /\ NextDrive
    /\ UNCHANGED <<outside, drvFile, drives, vs, slotDrv, loading>>

ForgetUnread ==
    /\ pc = "unread"
    /\ TryRemoveLink
    /\ NextDrive
    /\ UNCHANGED <<outside, drvFile, drives, vs, slotDrv, loading>>

RestoreLoaded ==
    /\ pc = "restore"
    /\ \E s \in SlotsWithLabel(n) :
          /\ \A t \in SlotsWithLabel(n) : s <= t
          /\ vs' = [vs EXCEPT ![n] = s]
    /\ pc' = "link"
    /\ UNCHANGED <<outside, disk, n, drives, slotDrv, loading>>

-----------------------------------------------------------------------------
(***************************************************************************)
(* CreateDriveSymlink() of drive n, for RestoreDriveState() and for        *)
(* LoadDrive().  A symlink to something else is removed first.             *)
(***************************************************************************)
Target(d) == [volume |-> at[vs[d]], mount |-> mount[at[vs[d]]]]

Linked ==
    IF loading
    THEN pc' = "save" /\ UNCHANGED <<n, slotDrv>>
    ELSE NextDrive /\ slotDrv' = [slotDrv EXCEPT ![vs[n]] = n]

LinkFoundAnywhere ==
    /\ pc = "link"
    /\ link[n] # NoLink
    /\ Linked
    /\ UNCHANGED <<outside, disk, drives, vs, loading>>
LinkFound ==
    /\ pc = "link"
    /\ link[n] = Target(n)
    /\ Linked
    /\ UNCHANGED <<outside, disk, drives, vs, loading>>

RemoveAnyLink ==
    /\ pc = "link"
    /\ link[n] # NoLink
    /\ link' = [link EXCEPT ![n] = NoLink]
    /\ UNCHANGED <<outside, drvFile, memory>>
RemoveOldLink ==
    /\ pc = "link"
    /\ link[n] \notin {NoLink, Target(n)}
    /\ link' = [link EXCEPT ![n] = NoLink]
    /\ UNCHANGED <<outside, drvFile, memory>>

CreateLink ==
    /\ pc = "link"
    /\ link[n] = NoLink
    /\ link' = [link EXCEPT ![n] = Target(n)]
    /\ Linked
    /\ UNCHANGED <<outside, drvFile, drives, vs, loading>>

(* The drive is left unloaded; a restored drive keeps its state file, and  *)
(* its symlink if that could not be read.                                  *)
LinkFailsUnnoticed ==
    /\ DiskErrors
    /\ pc = "link"
    /\ IF loading THEN Exit ELSE NextDrive /\ UNCHANGED <<drives, vs, slotDrv, loading>>
    /\ UNCHANGED <<outside, disk>>
LinkFails ==
    /\ DiskErrors
    /\ pc = "link"
    /\ IF loading
       THEN Exit
       ELSE /\ NextDrive
            /\ vs' = [vs EXCEPT ![n] = NoSlot]
            /\ UNCHANGED <<drives, slotDrv, loading>>
    /\ UNCHANGED <<outside, disk>>

-----------------------------------------------------------------------------
(***************************************************************************)
(* LOAD.  Refused for a slot that is not there or empty or already in a    *)
(* drive, and for a drive that is loaded from another slot.                *)
(***************************************************************************)
Larger(i, j) == IF i < j THEN j ELSE i

MayLoadLoadedSlot(d, s) ==
    /\ vs[d] = NoSlot
    /\ s \in Slot
    /\ at[s] # NoVolume
MayLoadBusyDrive(d, s) ==
    /\ s \in Slot
    /\ slotDrv[s] = NoDrive
    /\ at[s] # NoVolume
MayLoad(d, s) ==
    /\ vs[d] = NoSlot
    /\ s \in Slot
    /\ slotDrv[s] = NoDrive
    /\ at[s] # NoVolume

RefuseLoad(d, s) ==
    /\ pc = "ready"
    /\ vs[d] # s
    /\ ~MayLoad(d, s)
    /\ Exit
    /\ UNCHANGED <<outside, disk>>

LoadAgain(d, s) ==
    /\ pc = "ready"
    /\ vs[d] = s
    /\ pc' = "done"
    /\ UNCHANGED <<outside, disk, n, drives, vs, slotDrv, loading>>

Load(d, s) ==
    /\ pc = "ready"
    /\ MayLoad(d, s)
    /\ pc' = "link" /\ n' = d /\ loading' = TRUE
    /\ drives' = Larger(drives, d + 1)
    /\ vs' = [vs EXCEPT ![d] = s]
    /\ UNCHANGED <<outside, disk, slotDrv>>

(* SaveDriveState() of the drive just linked.  fprintf() fills a buffer;   *)
(* whether fclose() could write it is not checked.                         *)
SaveLoaded ==
    /\ pc = "save"
    /\ \/ drvFile' = [drvFile EXCEPT ![n] = at[vs[n]]]
       \/ DiskErrors /\ drvFile' = [drvFile EXCEPT ![n] = Empty]
    /\ slotDrv' = [slotDrv EXCEPT ![vs[n]] = n]
    /\ pc' = "done"
    /\ UNCHANGED <<outside, link, n, drives, vs, loading>>

(* It cannot be opened, or not written: the symlink is taken back.         *)
SaveFails ==
    /\ DiskErrors
    /\ pc = "save"
    /\ \/ UNCHANGED drvFile
       \/ drvFile' = [drvFile EXCEPT ![n] = Empty]
    /\ TryRemoveLink
    /\ Exit
    /\ UNCHANGED outside

(* Killed between opening the state file and closing it.                   *)
CrashInSave ==
    /\ Crashes
    /\ pc = "save"
    /\ drvFile' = [drvFile EXCEPT ![n] = Empty]
    /\ Exit
    /\ UNCHANGED <<outside, link>>

-----------------------------------------------------------------------------
(***************************************************************************)
(* UNLOAD: remove the symlink, then the state file.  An empty drive is     *)
(* left as it is.                                                          *)
(***************************************************************************)
UnloadEmpty(d) ==
    /\ pc = "ready"
    /\ vs[d] = NoSlot
    /\ pc' = "done"
    /\ drives' = Larger(drives, d + 1)
    /\ UNCHANGED <<outside, disk, n, vs, slotDrv, loading>>

Unload(d) ==
    /\ pc = "ready"
    /\ vs[d] # NoSlot
    /\ link' = [link EXCEPT ![d] = NoLink]
    /\ slotDrv' = [slotDrv EXCEPT ![vs[d]] = NoDrive]
    /\ vs' = [vs EXCEPT ![d] = NoSlot]
    /\ pc' = "unload" /\ n' = d
    /\ UNCHANGED <<outside, drvFile, drives, loading>>

UnloadFails(d) ==
    /\ DiskErrors
    /\ pc = "ready"
    /\ vs[d] # NoSlot
    /\ Exit
    /\ UNCHANGED <<outside, disk>>

DeleteState ==
    /\ pc = "unload"
    /\ TryDeleteState
    /\ pc' = "done"
    /\ UNCHANGED <<outside, link, n, drives, vs, slotDrv, loading>>

(* The commands that only print, and the end of every command.             *)
Finish ==
    /\ pc \in {"ready", "done"}
    /\ Exit
    /\ UNCHANGED <<outside, disk>>

Crash ==
    /\ Crashes
    /\ pc # "off"
    /\ Exit
    /\ UNCHANGED <<outside, disk>>

Initialize ==
    \/ Begin \/ RestoreUnloaded \/ RestoreUnreadable \/ RestoreGone \/ RestoreUnread
    \/ ForgetLink \/ ForgetUnread \/ RestoreLoaded
Linking == LinkFound \/ RemoveOldLink \/ CreateLink \/ LinkFails
Saving == SaveLoaded \/ SaveFails \/ CrashInSave

Next ==
    \/ Remap
    \/ Initialize \/ Linking \/ Saving \/ DeleteState
    \/ \E d \in Drive, s \in 1 .. Slots + 1 : RefuseLoad(d, s) \/ LoadAgain(d, s) \/ Load(d, s)
    \/ \E d \in Drive : UnloadEmpty(d) \/ Unload(d) \/ UnloadFails(d)
    \/ Finish \/ Crash

Spec == Init /\ [][Next]_vars

-----------------------------------------------------------------------------
Settled == pc \in {"ready", "done"}

(***************************************************************************)
(* A drive the changer believes loaded is loaded: its symlink leads to the *)
(* volume in its slot, where its magazine is mounted now, and its state    *)
(* file names that volume.  LOAD answers Bacula on the strength of this,   *)
(* whatever was killed or failed before.  Only the drive this invocation   *)
(* has just loaded may have an empty state file, because SaveDriveState()  *)
(* does not notice a write that fails in fclose().                         *)
(***************************************************************************)
JustLoaded(d) == pc = "done" /\ loading /\ n = d

LoadedDrivesAgree ==
    Settled => \A d \in 0 .. drives - 1 : vs[d] # NoSlot =>
                   /\ link[d] = Target(d)
                   /\ drvFile[d] = at[vs[d]] \/ (JustLoaded(d) /\ drvFile[d] = Empty)

(***************************************************************************)
(* Initialize() repairs whatever a killed invocation left behind, and LOAD *)
(* and UNLOAD keep it so, as long as file operations succeed: for every    *)
(* drive the changer knows, the symlink, the state file and the two tables *)
(* in memory agree on the volume that is loaded.  (Not the symlink of a    *)
(* drive that an UNLOAD has just added to the table: UnloadDrive() takes   *)
(* it for empty.)                                                          *)
(***************************************************************************)
DrivesAgree ==
    Settled =>
        /\ \A d \in 0 .. drives - 1 :
              IF vs[d] = NoSlot
              THEN drvFile[d] = NoVolume /\ (pc = "ready" => link[d] = NoLink)
              ELSE link[d] = Target(d) /\ drvFile[d] = at[vs[d]]
        /\ \A d \in Drive, s \in Slot : slotDrv[s] = d <=> vs[d] = s

(***************************************************************************)
(* No volume is in two drives (ChangeLog:18, "Prevent load command from *)
(* loading the same virtual slot into more than one virtual drive").       *)
(***************************************************************************)
NoSlotInTwoDrives ==
    Settled => \A d, e \in Drive : vs[d] = vs[e] /\ vs[d] # NoSlot => d = e

(***************************************************************************)
(* Bacula has the symlink of a loaded drive open.  As long as the magazine *)
(* of the volume stays where it is, no restore, no command on another      *)
(* drive and no repair of what was killed or failed touches the symlink or *)
(* the state file; only a LOAD or UNLOAD of that drive does, and a restore *)
(* that could not stat() or read the state file.                           *)
(***************************************************************************)
LoadedFromHere(d) ==
    /\ \E s \in Slot : at[s] = drvFile[d] /\ at[s] # NoVolume
    /\ link[d] = [volume |-> drvFile[d], mount |-> mount[drvFile[d]]]

Touched(d) == link'[d] # link[d] \/ drvFile'[d] # drvFile[d]
CouldNotRead(d) == "unread" \in {pc, pc'} /\ n = d

LinkStaysWithItsDrive ==
    [][\A d \in Drive :
          LoadedFromHere(d) /\ Touched(d) =>
              \/ pc = "ready" /\ n' = d
              \/ loading /\ n = d
              \/ CouldNotRead(d)]_vars

(***************************************************************************)
(* The virtual drives are those of an autochanger: the state files say     *)
(* what is loaded.                                                         *)
(***************************************************************************)
Changer == INSTANCE Autochanger WITH
    available <- {v \in Volume : \E s \in Slot : at[s] = v},
    loaded <- [d \in Drive |-> IF drvFile[d] \in Volume THEN drvFile[d] ELSE NoVolume]

IsAutochanger == Changer!Spec
=============================================================================
