--------------------------- MODULE MagazineFiles ----------------------------
(***************************************************************************)
(* The files on one mounted magazine: MagazineState::Mount(),              *)
(* UpdateMagazineFormat() and CreateVolume() (src/src/changerstate.cpp),   *)
(* and DiskChanger::CreateVolumes() (src/src/diskchanger.cpp).             *)
(*                                                                         *)
(* A magazine written by vchanger 0.x has a file "index".  The volume in   *)
(* its drive N is the file "driveN", and "loadedN" holds the volume's      *)
(* name.  Mount() converts it: every driveN is renamed as loadedN says,    *)
(* every loadedN is deleted, and last "index".  Only the renames are       *)
(* checked, and only for the log.  Then what is there, with the volumes    *)
(* first to last, are the magazine's slots.                                *)
(*                                                                         *)
(* CREATEVOLS names the volumes it adds with a prefix and a number, so a   *)
(* volume's name is its number here; other files are only counted.         *)
(***************************************************************************)
EXTENDS Naturals, FiniteSets

CONSTANTS
    Drive,       \* the drives of the old changer
    MaxNumber,   \* the highest number a volume's name has
    MaxCount,    \* the most volumes one CREATEVOLS is asked for
    MaxCreated,  \* how many volumes are created altogether
    Others,      \* files on the magazine that have another prefix
    Fails        \* the calls that may fail: "opendir" (of the conversion),
                 \* "rename", "unlink", "fopen" (of a new volume)

Number == 0..MaxNumber

(* A volume's contents: what an old volume holds, or the n-th created one. *)
NoFile == [old |-> FALSE, id |-> 0]
Old(n) == [old |-> TRUE, id |-> n]
New(k) == [old |-> FALSE, id |-> k]
Contents == {Old(n) : n \in Number} \cup {New(k) : k \in 1..MaxCreated}

NoName == MaxNumber + 1    \* loadedN is missing or empty

ASSUME BoundsAssumption ==
    /\ MaxNumber \in Nat /\ MaxCount \in Nat \ {0} /\ MaxCreated \in Nat
    /\ Others \in Nat
    /\ Fails \subseteq {"opendir", "rename", "unlink", "fopen"}
ASSUME DriveAssumption == IsFiniteSet(Drive)

VARIABLES
    index,      \* does the file "index" exist?
    drive,      \* contents of driveN
    loaded,     \* the name in loadedN
    volume,     \* contents of the volume with each number
    pc,         \* where the process is
    seen,       \* the drives this pass over the directory has come to
    slots,      \* the numbers of the volumes in the magazine's slots
    numSlots,   \* how many slots it has
    left,       \* volumes CREATEVOLS has still to create
    start,      \* the number it tries next
    created,    \* how many volumes were ever created
    failed,     \* the old volumes whose rename failed, or has no name
    kept,       \* the drives whose loadedN a conversion failed to delete
    reach       \* how far CREATEVOLS looked for numbers in use

files == <<index, drive, loaded, volume>>
process == <<pc, seen, slots, numSlots, left, start>>
history == <<created, failed, kept, reach>>
vars == <<files, process, history>>

Present(file) == file # NoFile

TypeOK ==
    /\ index \in BOOLEAN
    /\ drive \in [Drive -> Contents \cup {NoFile}]
    /\ loaded \in [Drive -> Number \cup {NoName}]
    /\ volume \in [Number -> Contents \cup {NoFile}]
    /\ pc \in {"idle", "rename", "delete", "list", "mounted", "create"}
    /\ seen \in SUBSET Drive
    /\ slots \in SUBSET Number
    /\ numSlots \in Nat
    /\ left \in 0..MaxCount
    /\ start \in 0..MaxNumber + 1
    /\ created \in 0..MaxCreated
    /\ failed \in SUBSET Contents
    /\ kept \in SUBSET Drive
    /\ reach \in Nat

(* A magazine the old version left: each volume is in one place, and the   *)
(* one in a drive has its name in loadedN, or was left without.            *)
Init ==
    /\ \E in \in SUBSET Number, where \in [Drive -> Number \cup {NoName}] :
        /\ index = (\E d \in Drive : where[d] # NoName)
        /\ \A c, d \in Drive : where[c] = where[d] /\ where[c] # NoName => c = d
        /\ \A d \in Drive : where[d] \notin in
        /\ drive = [d \in Drive |->
                        IF where[d] = NoName THEN NoFile ELSE Old(where[d])]
        /\ volume = [n \in Number |-> IF n \in in THEN Old(n) ELSE NoFile]
        /\ \E lost \in SUBSET Drive :
            /\ loaded = [d \in Drive |-> IF d \in lost THEN NoName ELSE where[d]]
            /\ failed = {drive[d] : d \in lost} \ {NoFile}
    /\ pc = "idle" /\ seen = {}
    /\ slots = {} /\ numSlots = 0
    /\ left = 0 /\ start = 0
    /\ created = 0 /\ kept = {} /\ reach = 0

-----------------------------------------------------------------------------
GoTo(from, to) == pc = from /\ pc' = to

Volumes == {n \in Number : Present(volume[n])}
Strays == {d \in Drive : Present(drive[d])}
Leftovers == {d \in Drive : loaded[d] # NoName}

(* The magazine is mounted, and its directory is writable.                 *)
Mount ==
    /\ GoTo("idle", IF index THEN "rename" ELSE "list")
    /\ seen' = {}
    /\ UNCHANGED <<files, slots, numSlots, left, start, history>>

(* UpdateMagazineFormat() cannot read the directory and gives up.  Mount() *)
(* does not look at its result, and goes on.                               *)
MountUnconverted ==
    /\ index
    /\ "opendir" \in Fails
    /\ GoTo("idle", "list")
    /\ failed' = failed \cup {drive[d] : d \in Strays}
    /\ kept' = Drive
    /\ UNCHANGED <<files, seen, slots, numSlots, left, start, created, reach>>

(***************************************************************************)
(* UpdateMagazineFormat().  readdir() comes to the files in any order.     *)
(* rename() replaces a file that has the new name already.                 *)
(***************************************************************************)
Come(d) ==
    /\ pc = "rename"
    /\ d \notin seen
    /\ Present(drive[d])
    /\ seen' = seen \cup {d}

Rename(d) ==
    /\ Come(d)
    /\ loaded[d] # NoName
    /\ volume' = [volume EXCEPT ![loaded[d]] = drive[d]]
    /\ drive' = [drive EXCEPT ![d] = NoFile]
    /\ UNCHANGED <<index, loaded, pc, slots, numSlots, left, start, history>>

KeepDrive(d) ==
    /\ Come(d)
    /\ loaded[d] = NoName \/ "rename" \in Fails
    /\ failed' = failed \cup {drive[d]}
    /\ UNCHANGED <<files, pc, slots, numSlots, left, start, created, kept, reach>>

AllCome == \A d \in Drive : Present(drive[d]) => d \in seen

EndPass(to) ==
    /\ pc' = to
    /\ seen' = {}
    /\ UNCHANGED <<drive, loaded, volume, slots, numSlots, left, start, history>>

EndRenamesAnytime ==
    /\ pc = "rename"
    /\ EndPass("delete")
    /\ UNCHANGED index
EndRenames ==
    /\ pc = "rename"
    /\ AllCome
    /\ EndPass("delete")
    /\ UNCHANGED index

KeepLoaded(d) ==
    /\ pc = "delete"
    /\ d \notin seen
    /\ seen' = seen \cup {d}
    /\ UNCHANGED <<files, pc, slots, numSlots, left, start, history>>
DeleteLoaded(d) ==
    /\ pc = "delete"
    /\ d \notin seen
    /\ seen' = seen \cup {d}
    /\ loaded' = [loaded EXCEPT ![d] = NoName]
    /\ UNCHANGED <<index, drive, volume, pc, slots, numSlots, left, start,
                   history>>

DeleteLoadedFails(d) ==
    /\ "unlink" \in Fails
    /\ pc = "delete"
    /\ d \notin seen
    /\ seen' = seen \cup {d}
    /\ kept' = kept \cup {d}
    /\ UNCHANGED <<files, pc, slots, numSlots, left, start, created, failed, reach>>

DeleteIndex ==
    /\ pc = "delete"
    /\ seen = Drive
    /\ index' \in IF "unlink" \in Fails THEN BOOLEAN ELSE {FALSE}
    /\ EndPass("list")

(***************************************************************************)
(* Every writable regular file that is there now gets a slot.              *)
(***************************************************************************)
List ==
    /\ GoTo("list", "mounted")
    /\ slots' = Volumes
    /\ numSlots' = Cardinality(Volumes) + Cardinality(Strays) + Cardinality(Leftovers)
                   + (IF index THEN 1 ELSE 0) + Others
    /\ UNCHANGED <<files, seen, left, start, history>>

-----------------------------------------------------------------------------
(***************************************************************************)
(* CREATEVOLS.  Without a start it looks for the highest number in use,    *)
(* beginning at five times the number of slots.                            *)
(***************************************************************************)
UpTo(n) == {i \in slots : 0 < i /\ i <= n}
UpToSlots == UpTo(numSlots)
InReach == UpTo(numSlots * 5)

HighestInReach(n) == n \in InReach \cup {0} /\ \A m \in InReach : m <= n

CreateVolumes ==
    /\ GoTo("mounted", "create")
    /\ left' \in 1..MaxCount
    /\ start' \in Number
    /\ \/ HighestInReach(start') /\ reach' = numSlots * 5
       \/ reach' = 0
    /\ UNCHANGED <<files, seen, slots, numSlots, created, failed, kept>>

(* The numbers of volumes in the magazine's slots are skipped.             *)
FirstNumber(n) == n = start
NextNumber(n) ==
    n >= start /\ n \notin slots /\ \A m \in start..(n - 1) : m \in slots

(***************************************************************************)
(* CreateVolume(): a file that exists is refused, a new one is created.    *)
(***************************************************************************)
CreatingOneMore == pc = "create"
Creating == pc = "create" /\ left > 0
Free(n) == ~Present(volume[n])

CreateVolume ==
    /\ Creating
    /\ created < MaxCreated
    /\ \E n \in Number :
        /\ NextNumber(n) /\ Free(n)
        /\ volume' = [volume EXCEPT ![n] = New(created + 1)]
        /\ slots' = slots \cup {n}
        /\ start' = n + 1
    /\ created' = created + 1
    /\ numSlots' = numSlots + 1
    /\ left' = left - 1
    /\ UNCHANGED <<index, drive, loaded, pc, seen, failed, kept, reach>>

(* The bounds of this model are one more way to fail.                      *)
CreateFails ==
    /\ Creating
    /\ \/ "fopen" \in Fails
       \/ \E n \in Number : NextNumber(n) /\ ~Free(n)
       \/ created = MaxCreated \/ start..MaxNumber \subseteq slots
    /\ left' = 0
    /\ UNCHANGED <<files, pc, seen, slots, numSlots, start, history>>

(* The process ends, is killed, or the machine stops.                      *)
Forget ==
    /\ pc' = "idle" /\ seen' = {}
    /\ slots' = {} /\ numSlots' = 0
    /\ left' = 0 /\ start' = 0 /\ reach' = 0
    /\ UNCHANGED <<files, created, failed, kept>>

Exit == pc \in {"mounted", "create"} /\ left = 0 /\ Forget
Crash == pc # "idle" /\ Forget

Next ==
    \/ Mount \/ MountUnconverted \/ EndRenames \/ DeleteIndex \/ List
    \/ \E d \in Drive :
        Rename(d) \/ KeepDrive(d) \/ DeleteLoaded(d) \/ DeleteLoadedFails(d)
    \/ CreateVolumes \/ CreateVolume \/ CreateFails
    \/ Exit \/ Crash

Spec == Init /\ [][Next]_vars

-----------------------------------------------------------------------------
Stored == {drive[d] : d \in Drive} \cup {volume[n] : n \in Number}

(***************************************************************************)
(* No step loses the contents of a volume that the old changer wrote, and  *)
(* CREATEVOLS opens no existing file for writing.  A volume it created is  *)
(* replaced only by a conversion that renames a driveN to the name of that *)
(* volume, after an earlier one was taken as done though it could not read *)
(* the directory, or neither rename driveN nor delete loadedN and "index". *)
(***************************************************************************)
NameGivenTwice(k) ==
    \E d \in kept :
        /\ drive[d] \in failed
        /\ loaded[d] # NoName /\ volume[loaded[d]] = New(k)

NoVolumeLost ==
    [][/\ \A n \in Number : Old(n) \in Stored => Old(n) \in Stored'
       /\ \A k \in 1..MaxCreated :
              New(k) \in Stored => New(k) \in Stored' \/ NameGivenTwice(k)]_vars

(***************************************************************************)
(* Once the magazine counts as converted, every volume has the name it had *)
(* in the old changer, unless a rename of it failed or its loadedN was not *)
(* there; also if conversions were killed anywhere and begun again.        *)
(***************************************************************************)
ConvertedKeepNames ==
    ~index => \A n \in Number :
        Old(n) \in Stored \ failed => volume[n] = Old(n)

(***************************************************************************)
(* CREATEVOLS never comes to a name that is taken: the slots it skips are  *)
(* the volumes on the magazine, after a conversion and after each volume   *)
(* it created.                                                             *)
(***************************************************************************)
NextIsFree ==
    Creating => \A n \in Number : NextNumber(n) => Free(n)

(***************************************************************************)
(* The volumes CREATEVOLS numbers by itself come after all those in its    *)
(* reach, which is five times the number of slots ("Find highest           *)
(* uniqueness number for this filename prefix", diskchanger.cpp:702; a     *)
(* volume with a number beyond is not found).                              *)
(***************************************************************************)
NewNumbersComeLast ==
    [][created' # created =>
           \A m, n \in Number :
               m \in slots /\ m <= reach /\ n \in slots' \ slots => m < n]_vars
=============================================================================
