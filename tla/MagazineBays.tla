---------------------------- MODULE MagazineBays ----------------------------
(***************************************************************************)
(* How the volumes of the mounted magazines get their virtual slots, from  *)
(* one invocation of vchanger to the next: class MagazineState and class   *)
(* DynamicConfig (src/src/changerstate.cpp), and the first half of         *)
(* DiskChanger::Initialize() and CreateVolumes() (src/src/diskchanger.cpp).*)
(*                                                                         *)
(* Which volumes a magazine has matters here only by their number: they    *)
(* get magazine slots 0, 1, ... in alphanumeric order, and the magazine a  *)
(* range of virtual slots.  One invocation runs at a time: CommandMutex.   *)
(*                                                                         *)
(* A state file that was created but not written (the process was killed,  *)
(* or the disk is full, which shows only in an fclose whose result is      *)
(* ignored) is empty, and is read as one that does not exist.              *)
(***************************************************************************)
EXTENDS SlotMap

CONSTANTS
    Bays,           \* number of magazines in the configuration file
    MaxVolumes,     \* bound: volume files on a magazine
    MinSlots,       \* DynamicConfig's least max_slot: 10 in the code
    Crashes,        \* may an invocation be killed?
    LossyWrites     \* may a state file be left empty?

ASSUME BaysAssumption == Bays \in Nat \ {0}
ASSUME MaxVolumesAssumption == MaxVolumes \in Nat
ASSUME MinSlotsAssumption == MinSlots \in Nat

Bay == 0 .. Bays - 1
NotMounted == -1
Contents == {NotMounted} \cup 0 .. MaxVolumes

(* A bay state file; one that is missing restores to all zeros.            *)
BayState == [num : Nat, start : Nat]
NoState == [num |-> 0, start |-> 0]
NoDynamicConf == 0
NoBay == -1

VARIABLES
    \* On disk
    files,        \* number of volume files at the mountpoint of each magazine
    bayFile,      \* the files bay_state-N
    dynFile,      \* max_used_slot in the file dynamic.conf
    \* In the memory of the running invocation
    pc, m,
    volumes,      \* num_slots of each MagazineState, as found by Mount()
    prev, start,  \* prev_num_slots and prev_start_slot; start_slot
    size, vslot,  \* the array of virtual slots
    needsUpdate,  \* DiskChanger::needs_update
    making,       \* the magazine of a CREATEVOLS command, and how far it is
    \* Observed
    reported,     \* what the last initialized changer answered to SLOTS
    settled       \* the last mapping was saved, and no magazine changed since

disk == <<files, bayFile, dynFile>>
mapping == <<volumes, prev, start, size, vslot, needsUpdate>>
memory == <<pc, m, mapping, making>>
vars == <<disk, memory, reported, settled>>

TypeOK ==
    /\ files \in [Bay -> Contents]
    /\ bayFile \in [Bay -> BayState]
    /\ dynFile \in Nat
    /\ pc \in {"off", "keep", "assign", "save", "dynamic", "ready", "create", "done"}
    /\ m \in Bay
    /\ volumes \in [Bay -> Contents]
    /\ prev \in [Bay -> BayState]
    /\ start \in [Bay -> Nat]
    /\ size \in Nat \ {0}
    /\ vslot \in [0 .. size - 1 -> [bay : Bay \cup {NoBay}, mslot : Nat \cup {-1}]]
    /\ needsUpdate \in BOOLEAN
    /\ making \in [bay : Bay \cup {NoBay}, left : 0 .. MaxVolumes, made : 0 .. MaxVolumes]
    /\ reported \in Nat
    /\ settled \in BOOLEAN

(* No invocation runs: a value for the variables of its memory.            *)
NotMaking == [bay |-> NoBay, left |-> 0, made |-> 0]
Blank ==
    /\ pc = "off" /\ m = 0
    /\ volumes = [b \in Bay |-> NotMounted]
    /\ prev = [b \in Bay |-> NoState]
    /\ start = [b \in Bay |-> 0]
    /\ size = 1 /\ vslot = EmptySlots(1)
    /\ needsUpdate = FALSE
    /\ making = NotMaking

Init ==
    /\ files \in [Bay -> Contents]
    /\ bayFile = [b \in Bay |-> NoState]
    /\ dynFile = NoDynamicConf
    /\ Blank
    /\ reported = 0
    /\ settled = FALSE

-----------------------------------------------------------------------------
(***************************************************************************)
(* The operator mounts or unmounts a magazine, or puts volume files on it  *)
(* or removes some, or exchanges them for as many others.  An invocation   *)
(* looks at the magazines once, in Mount(), and CREATEVOLS only adds files:*)
(* a change made while it runs comes to the same as one made before        *)
(* Mount(), or one made when it has ended (a magazine that is pulled out   *)
(* makes CreateVolume() fail, which it may).                               *)
(***************************************************************************)
ChangeMagazine(b) ==
    /\ pc = "off"
    /\ \E content \in Contents : files' = [files EXCEPT ![b] = content]
    /\ settled' = FALSE
    /\ UNCHANGED <<bayFile, dynFile, memory, reported>>

(***************************************************************************)
(* dconf.restore(), and for each magazine SetBay(), restore() and Mount(). *)
(* restore() deletes a file whose start slot is not positive.              *)
(***************************************************************************)
RestoredAboveOne(state) == IF state.start > 1 THEN state ELSE NoState
Restored(state) == IF state.start > 0 THEN state ELSE NoState
MaxSlotForgotten == MinSlots
MaxSlot == Larger(dynFile, MinSlots)

Begin ==
    /\ pc = "off"
    /\ pc' = "keep" /\ m' = 0
    /\ prev' = [b \in Bay |-> Restored(bayFile[b])]
    /\ bayFile' = prev'
    /\ volumes' = files
    /\ start' = [b \in Bay |-> 0]
    /\ size' = MaxSlot + 1
    /\ vslot' = EmptySlots(size')
    /\ needsUpdate' = FALSE
    /\ UNCHANGED <<files, dynFile, making, reported, settled>>

(* for (m = 0; m < magazine.size(); m++)                                   *)
ForEachBay(loop, after) ==
    /\ pc = loop
    /\ IF m + 1 < Bays THEN m' = m + 1 /\ pc' = pc
                       ELSE m' = 0 /\ pc' = after

(***************************************************************************)
(* First loop of InitializeVirtSlots(): a magazine that has as many        *)
(* volumes as it had gets the slots it had, unless a magazine before it in *)
(* the configuration got one of them.                                      *)
(***************************************************************************)
PrevRange(b) == SlotRange(prev[b].start, prev[b].num)
SameCount(b) == volumes[b] = prev[b].num
CanKeepTaken(b) == SameCount(b)
CanKeepOffByOne(b) ==
    SameCount(b) /\ SlotRange(prev[b].start, prev[b].num + 1) \cap Taken(vslot) = {}
CanKeep(b) == SameCount(b) /\ PrevRange(b) \cap Taken(vslot) = {}

MovedWhileMounted(b) == volumes[b] # NotMounted /\ ~CanKeep(b)
MovedOrGone(b) == IF volumes[b] = NotMounted THEN prev[b].start > 0 ELSE ~CanKeep(b)

Keep ==
    /\ ForEachBay("keep", "assign")
    /\ needsUpdate' = (needsUpdate \/ MovedOrGone(m))
    /\ size' = Larger(size, prev[m].start + prev[m].num)
    /\ LET grown == Grown(vslot, size') IN
       IF volumes[m] # NotMounted /\ CanKeep(m)
       THEN /\ start' = [start EXCEPT ![m] = prev[m].start]
            /\ vslot' = Assigned(grown, m, prev[m].start, volumes[m])
       ELSE /\ vslot' = grown
            /\ UNCHANGED start
    /\ UNCHANGED <<disk, volumes, prev, making, reported, settled>>

(***************************************************************************)
(* Second loop: the mounted magazines with volumes that got no slots get   *)
(* the lowest range that is free.                                          *)
(***************************************************************************)
NeedsRange(b) == volumes[b] > 0 /\ start[b] = 0

AssignWithoutGrowing ==
    /\ ForEachBay("assign", "save")
    /\ IF NeedsRange(m)
       THEN LET first == FindEmptySlotRange(Taken(vslot), size, volumes[m]) IN
            /\ start' = [start EXCEPT ![m] = first]
            /\ size' = Larger(size, first + volumes[m])
            /\ vslot' = Assigned(vslot, m, first, volumes[m])
       ELSE UNCHANGED <<start, size, vslot>>
    /\ UNCHANGED <<disk, volumes, prev, needsUpdate, making, reported, settled>>
Assign ==
    /\ ForEachBay("assign", "save")
    /\ IF NeedsRange(m)
       THEN LET first == FindEmptySlotRange(Taken(vslot), size, volumes[m]) IN
            /\ start' = [start EXCEPT ![m] = first]
            /\ size' = Larger(size, first + volumes[m])
            /\ vslot' = Assigned(Grown(vslot, size'), m, first, volumes[m])
       ELSE UNCHANGED <<start, size, vslot>>
    /\ UNCHANGED <<disk, volumes, prev, needsUpdate, making, reported, settled>>

(***************************************************************************)
(* Third loop: MagazineState::save().  A magazine that is not mounted or   *)
(* has no volumes has no state file.                                       *)
(***************************************************************************)
Saved(b) == IF volumes[b] > 0 THEN [num |-> volumes[b], start |-> start[b]]
                              ELSE NoState

Write(file, value, lost) == file' = value \/ (LossyWrites /\ file' = lost)
SaveBay(b) == Write(bayFile, [bayFile EXCEPT ![b] = Saved(b)],
                             [bayFile EXCEPT ![b] = NoState])

SaveBays ==
    /\ ForEachBay("save", "dynamic")
    /\ SaveBay(m)
    /\ settled' = (settled /\ bayFile'[m] = Saved(m))
    /\ UNCHANGED <<files, dynFile, mapping, making, reported>>

(* DynamicConfig::save(), and the answer to SLOTS from now on.             *)
SaveDynamic ==
    /\ pc = "dynamic"
    /\ pc' = "ready"
    /\ IF size >= MaxSlot THEN Write(dynFile, Larger(size - 1, MinSlots), NoDynamicConf)
                          ELSE UNCHANGED dynFile
    /\ reported' = size - 1
    /\ settled' = \A b \in Bay : bayFile[b] = Saved(b)
    /\ UNCHANGED <<files, bayFile, m, mapping, making>>

-----------------------------------------------------------------------------
(***************************************************************************)
(* CREATEVOLS: CreateVolume() makes one volume file after another and      *)
(* counts them in num_slots, without giving them slots.  It fails when the *)
(* magazine is not there, when the name exists, or on an I/O error.        *)
(***************************************************************************)
CreateVolumes(b, count) ==
    /\ pc = "ready"
    /\ pc' = "create"
    /\ making' = [bay |-> b, left |-> count, made |-> 0]
    /\ settled' = FALSE
    /\ UNCHANGED <<disk, m, mapping, reported>>

CreateVolume ==
    /\ pc = "create"
    /\ making.left > 0
    /\ LET b == making.bay IN
       /\ volumes[b] # NotMounted /\ volumes[b] < MaxVolumes
       /\ files' = [files EXCEPT ![b] = @ + 1]
       /\ volumes' = [volumes EXCEPT ![b] = @ + 1]
    /\ making' = [making EXCEPT !.left = @ - 1, !.made = @ + 1]
    /\ UNCHANGED <<bayFile, dynFile, pc, m, prev, start, size, vslot, needsUpdate,
                   reported, settled>>

(* The end of the process, whose memory is gone: Blank in the next state.  *)
Exit ==
    /\ pc' = "off" /\ m' = 0
    /\ volumes' = [b \in Bay |-> NotMounted]
    /\ prev' = [b \in Bay |-> NoState]
    /\ start' = [b \in Bay |-> 0]
    /\ size' = 1 /\ vslot' = EmptySlots(1)
    /\ needsUpdate' = FALSE
    /\ making' = NotMaking

CreateFails ==
    /\ pc = "create"
    /\ making.left > 0
    /\ IF making.made > 0 THEN SaveBay(making.bay) ELSE UNCHANGED bayFile
    /\ Exit
    /\ UNCHANGED <<files, dynFile, reported, settled>>

CreateSucceeds ==
    /\ pc = "create"
    /\ making.left = 0
    /\ pc' = "done"
    /\ SaveBay(making.bay)
    /\ needsUpdate' = TRUE
    /\ UNCHANGED <<files, dynFile, m, volumes, prev, start, size, vslot, making,
                   reported, settled>>

(* Every other command leaves the mapping as it is.                        *)
Finish ==
    /\ pc \in {"ready", "done"}
    /\ Exit
    /\ UNCHANGED <<disk, reported, settled>>

Crash ==
    /\ Crashes
    /\ pc # "off"
    /\ Exit
    /\ UNCHANGED <<disk, reported, settled>>

Next ==
    \/ \E b \in Bay : ChangeMagazine(b)
    \/ Begin \/ Keep \/ Assign \/ SaveBays \/ SaveDynamic
    \/ \E b \in Bay, count \in 1 .. MaxVolumes : CreateVolumes(b, count)
    \/ CreateVolume \/ CreateFails \/ CreateSucceeds
    \/ Finish \/ Crash

Spec == Init /\ [][Next]_vars

-----------------------------------------------------------------------------
Assigning == pc \in {"save", "dynamic", "ready"}
Holds(b) == IF volumes[b] > 0 THEN SlotRange(start[b], volumes[b]) ELSE {}

(***************************************************************************)
(* When InitializeVirtSlots() has assigned the slots, the virtual slots    *)
(* and the volumes of the mounted magazines correspond one to one: volume  *)
(* i of a magazine is in slot start + i, no slot below 1 is used, and no   *)
(* slot holds a volume that is not mounted.                                *)
(***************************************************************************)
SlotsMatchVolumes ==
    Assigning =>
        /\ \A b \in Bay : volumes[b] > 0 => start[b] > 0
        /\ \A b \in Bay : \A s \in Holds(b) :
              s \in DOMAIN vslot /\ vslot[s] = [bay |-> b, mslot |-> s - start[b]]
        /\ \A s \in Taken(vslot) : \E b \in Bay : s \in Holds(b)

(***************************************************************************)
(* "State information kept in the work directory is used to keep           *)
(* volume-to-slot mapping as consistent as possible": a magazine with as   *)
(* many volumes as before keeps its slots, whatever happens to the other   *)
(* magazines, unless one before it in the configuration kept some of them. *)
(***************************************************************************)
KeepsSlots ==
    Assigning =>
        \A b \in Bay :
            volumes[b] > 0 /\ SameCount(b) /\ start[b] # prev[b].start =>
                \E c \in 0 .. b - 1 :
                    /\ SameCount(c) /\ start[c] = prev[c].start
                    /\ Holds(c) \cap PrevRange(b) # {}

(***************************************************************************)
(* 'update slots' is found to be needed exactly when the slots of some     *)
(* magazine are not the ones its state file had.                           *)
(***************************************************************************)
UpdateIffRangesChange ==
    Assigning => (needsUpdate <=> \E b \in Bay : Saved(b) # prev[b])

(***************************************************************************)
(* Initializing again is the identity: if the last invocation saved its    *)
(* mapping and no magazine changed since, every magazine is where it was   *)
(* and nothing needs to be updated, whatever invocations were killed in    *)
(* between.  (Otherwise every command Bacula gives would lead to another   *)
(* 'update slots'.)                                                        *)
(***************************************************************************)
RefreshIsIdempotent ==
    settled /\ pc \in {"save", "dynamic"} =>
        /\ ~needsUpdate
        /\ \A b \in Bay : volumes[b] > 0 => start[b] = prev[b].start

(***************************************************************************)
(* "The number of slots [...] will increase as needed when multiple        *)
(* magazines are simultaneously attached, but it will never decrease"      *)
(* (doc/vchangerHowto.html:864).                                           *)
(***************************************************************************)
SlotsNeverDecrease == [][reported' >= reported]_vars
=============================================================================
