-------------------------- MODULE VirtualDrivesProofs --------------------------
(***************************************************************************)
(* Theorems about VirtualDrives, for any numbers of slots and drives, any  *)
(* volumes and mountpoints.                                                *)
(***************************************************************************)
EXTENDS VirtualDrives, TLAPS

(* No file operation of the work directory fails.                          *)
NoDiskErrors == ~DiskErrors

(* No two volume files have the same name.                                 *)
DistinctNames == \A v, w \in Volume : LabelOf[v] = LabelOf[w] => v = w

-----------------------------------------------------------------------------
(***************************************************************************)
(* The inductive invariant.  It holds at every step of an invocation,      *)
(* where DrivesAgree speaks of the settled ones only, so it says of each   *)
(* drive how far the invocation has come with it.                          *)
(***************************************************************************)
Restoring == pc \in {"restore", "forget", "link"} /\ ~loading
Loading == pc \in {"link", "save"} /\ loading

(* The drives of which symlink, file and tables need not agree yet.        *)
InHand(d) ==
    \/ Restoring /\ d >= n
    \/ (Loading \/ pc = "unload") /\ d = n

Agrees(d) ==
    IF vs[d] = NoSlot
    THEN drvFile[d] = NoVolume
    ELSE /\ drvFile[d] = at[vs[d]]
         /\ slotDrv[vs[d]] = d
         /\ link[d] = Target(d)

(* Holds also between two invocations, and after a crash.                  *)
FilesDiffer ==
    \A d, e \in Drive : drvFile[d] \in Volume /\ drvFile[d] = drvFile[e] => d = e

Tables ==
    /\ \A d \in Drive : ~InHand(d) => Agrees(d)
    /\ \A d \in Drive, s \in Slot : slotDrv[s] = d => vs[d] = s /\ ~InHand(d)
    /\ \A d \in Drive : d >= drives => drvFile[d] = NoVolume /\ vs[d] = NoSlot

(* The drive an invocation is at work on.                                  *)
AtHand ==
    /\ Restoring =>
          /\ n < drives
          /\ \A d \in Drive : d > n => vs[d] = NoSlot
    /\ pc \in {"restore", "forget"} => vs[n] = NoSlot
    /\ pc = "forget" => drvFile[n] = NoVolume
    /\ pc = "link" /\ ~loading =>
          vs[n] # NoSlot /\ at[vs[n]] # NoVolume /\ drvFile[n] = at[vs[n]]
    /\ Loading =>
          /\ n < drives
          /\ vs[n] # NoSlot /\ at[vs[n]] # NoVolume
          /\ slotDrv[vs[n]] = NoDrive
          /\ drvFile[n] = NoVolume
    /\ pc = "save" => loading /\ link[n] = Target(n)
    /\ pc = "unload" => vs[n] = NoSlot /\ n < drives
    /\ pc \in {"restore", "forget", "unload", "ready"} => ~loading

(* The drives that were found unloaded have no symlink.                    *)
LinksRemoved ==
    /\ Restoring => \A d \in Drive : d < n /\ vs[d] = NoSlot => link[d] = NoLink
    /\ pc = "ready" => \A d \in Drive : d < drives /\ vs[d] = NoSlot => link[d] = NoLink

IInv ==
    /\ TypeOK
    /\ at \in Mapping
    /\ FilesDiffer
    /\ pc # "off" => Tables /\ AtHand /\ LinksRemoved
    /\ pc # "unread"

-----------------------------------------------------------------------------
(* The drive that is being linked has a volume: what CreateDriveSymlink()  *)
(* needs for the target of the symlink.                                    *)
TypeInv ==
    /\ TypeOK
    /\ pc \in {"link", "save"} => vs[n] \in Slot /\ at[vs[n]] \in Volume

LEMMA BlankMemory ==
  /\ NothingLoaded \in [Drive -> Slot \cup {NoSlot}]
  /\ NoneInDrive \in [Slot -> Drive \cup {NoDrive}]
  /\ 0 \in Drive
  /\ 0 \in 0 .. Drives
  /\ \A max \in Drive : max + 1 \in 0 .. Drives
<1>1. 0 \in Drive /\ 0 \in 0 .. Drives /\ \A max \in Drive : max + 1 \in 0 .. Drives
  BY DrivesAssumption DEF Drive
<1>2. QED
  BY <1>1 DEF NothingLoaded, NoneInDrive

LEMMA TypeInit == Init => TypeInv
BY BlankMemory DEF Init, TypeInv, TypeOK, Mapping

LEMMA TypeNext == TypeInv /\ [Next]_vars => TypeInv'
<1> SUFFICES ASSUME TypeInv, [Next]_vars
             PROVE  TypeInv'
  OBVIOUS
<1> USE SlotsAssumption, DrivesAssumption DEF TypeInv, TypeOK
<1>exit. ASSUME Exit, UNCHANGED outside,
                drvFile' \in [Drive -> Volume \cup {NoVolume, Empty}],
                link' \in [Drive -> Path \cup {NoLink}]
         PROVE  TypeInv'
  BY <1>exit, BlankMemory DEF Exit, outside
<1>next. ASSUME NextDrive
         PROVE  n' \in Drive /\ pc' \in {"restore", "ready"}
  BY <1>next DEF NextDrive, Drive
<1>1. CASE UNCHANGED vars
  BY <1>1 DEF vars, outside, disk, memory
<1>2. CASE Remap
  BY <1>2 DEF Remap, Mapping, disk, memory
<1>3. CASE Initialize
  <2>1. CASE Begin
    BY <2>1, BlankMemory DEF Begin, outside, disk
  <2>2. CASE RestoreUnloaded
    BY <2>2, <1>next DEF RestoreUnloaded, TryRemoveLink, outside
  <2>3. CASE RestoreUnreadable
    BY <2>3, <1>next DEF RestoreUnreadable, outside, disk
  <2>4. CASE RestoreGone \/ RestoreUnread
    BY <2>4 DEF RestoreGone, RestoreUnread, TryDeleteState, outside
  <2>5. CASE ForgetLink \/ ForgetUnread
    BY <2>5, <1>next DEF ForgetLink, ForgetUnread, TryRemoveLink, outside
  <2>6. CASE RestoreLoaded
    BY <2>6 DEF RestoreLoaded, SlotsWithLabel, outside, disk
  <2>7. QED
    BY <1>3, <2>1, <2>2, <2>3, <2>4, <2>5, <2>6 DEF Initialize
<1>4. CASE Linking
  <2>target. pc = "link" => Target(n) \in Path
    BY DEF Target, Path
  <2>linked. ASSUME pc = "link", Linked
             PROVE  /\ n' \in Drive
                    /\ slotDrv' \in [Slot -> Drive \cup {NoDrive}]
                    /\ pc' \in {"save", "restore", "ready"}
                    /\ pc' = "save" => n' = n
    BY <2>linked, <1>next DEF Linked
  <2>1. CASE LinkFound
    BY <2>1, <2>linked DEF LinkFound, outside, disk
  <2>2. CASE RemoveOldLink
    BY <2>2 DEF RemoveOldLink, outside, memory
  <2>3. CASE CreateLink
    BY <2>3, <2>target, <2>linked DEF CreateLink, outside
  <2>4. CASE LinkFails
    <3>1. CASE loading
      BY <2>4, <3>1, <1>exit DEF LinkFails, outside, disk
    <3>2. CASE ~loading
      BY <2>4, <3>2, <1>next DEF LinkFails, outside, disk
    <3>3. QED
      BY <3>1, <3>2
  <2>5. QED
    BY <1>4, <2>1, <2>2, <2>3, <2>4 DEF Linking
<1>5. CASE Saving
  <2>1. CASE SaveLoaded
    BY <2>1 DEF SaveLoaded, outside
  <2>2. CASE SaveFails
    BY <2>2, <1>exit DEF SaveFails, TryRemoveLink
  <2>3. CASE CrashInSave
    BY <2>3, <1>exit DEF CrashInSave, outside
  <2>4. QED
    BY <1>5, <2>1, <2>2, <2>3 DEF Saving
<1>6. CASE DeleteState
  BY <1>6 DEF DeleteState, TryDeleteState, outside
<1>7. ASSUME NEW d \in Drive, NEW s \in 1 .. Slots + 1,
             RefuseLoad(d, s) \/ LoadAgain(d, s) \/ Load(d, s)
      PROVE  TypeInv'
  <2>1. CASE RefuseLoad(d, s)
    BY <2>1, <1>exit DEF RefuseLoad, outside, disk
  <2>2. CASE LoadAgain(d, s)
    BY <2>2 DEF LoadAgain, outside, disk
  <2>3. CASE Load(d, s)
    BY <2>3 DEF Load, MayLoad, Larger, Drive, Slot, outside, disk
  <2>4. QED
    BY <1>7, <2>1, <2>2, <2>3
<1>8. ASSUME NEW d \in Drive, UnloadEmpty(d) \/ Unload(d) \/ UnloadFails(d)
      PROVE  TypeInv'
  <2>1. CASE UnloadEmpty(d)
    BY <2>1 DEF UnloadEmpty, Larger, Drive, outside, disk
  <2>2. CASE Unload(d)
    BY <2>2 DEF Unload, outside
  <2>3. CASE UnloadFails(d)
    BY <2>3, <1>exit DEF UnloadFails, outside, disk
  <2>4. QED
    BY <1>8, <2>1, <2>2, <2>3
<1>9. CASE Finish \/ Crash
  BY <1>9, <1>exit DEF Finish, Crash, outside, disk
<1>10. QED
  BY <1>1, <1>2, <1>3, <1>4, <1>5, <1>6, <1>7, <1>8, <1>9 DEF Next

(* The state files, the symlinks and the memory of an invocation stay in   *)
(* their domains, whatever is killed or fails.                             *)
THEOREM TypeCorrect == Spec => []TypeOK
<1>1. TypeInv => TypeOK
  BY DEF TypeInv
<1>2. QED
  BY TypeInit, TypeNext, <1>1, PTL DEF Spec

-----------------------------------------------------------------------------
(* Whatever an invocation was at, what it leaves on disk is in order.      *)
LEMMA ExitKeeps ==
  ASSUME IInv, TypeOK', Exit, UNCHANGED at, FilesDiffer'
  PROVE  IInv'
BY DEF IInv, Exit

(***************************************************************************)
(* Initialize() goes on to the next drive, or is finished, when it has     *)
(* brought drive n into agreement and left the other drives alone.         *)
(***************************************************************************)
LEMMA DriveRestored ==
  ASSUME IInv, TypeOK', Restoring, NextDrive, NEW k \in Drive, k = n,
         UNCHANGED <<at, mount, drives, loading>>,
         \A d \in Drive \ {k} : /\ drvFile'[d] = drvFile[d]
                               /\ link'[d] = link[d]
                               /\ vs'[d] = vs[d],
         FilesDiffer',
         Agrees(k)',
         vs'[k] = NoSlot => link'[k] = NoLink,
         \A s \in Slot : slotDrv'[s] = IF s = vs'[k] THEN k ELSE slotDrv[s],
         \A d \in Drive \ {k} : vs[d] # NoSlot => vs[d] # vs'[k]
  PROVE  IInv'
<1>1. n \in Drive /\ drives \in 0 .. Drives /\ n < drives /\ ~loading /\ pc # "off"
  BY DEF TypeOK, IInv, AtHand, Restoring
<1>type. vs \in [Drive -> Slot \cup {NoSlot}]
  BY DEF IInv, TypeOK
<1>2. \A d \in Drive : InHand(d) <=> d >= n
  BY <1>1 DEF InHand, Restoring, Loading, Drive
<1>3. /\ \A d \in Drive : d < n => Agrees(d)
      /\ \A d \in Drive : d > n => vs[d] = NoSlot
      /\ \A d \in Drive, s \in Slot : slotDrv[s] = d => vs[d] = s /\ d < n
      /\ \A d \in Drive : d >= drives => drvFile[d] = NoVolume /\ vs[d] = NoSlot
      /\ \A d \in Drive : d < n /\ vs[d] = NoSlot => link[d] = NoLink
  BY <1>1, <1>2 DEF IInv, Tables, AtHand, LinksRemoved, Restoring, Drive
<1>4. \A d \in Drive : d <= n => Agrees(d)'
  <2>1. TAKE d \in Drive
  <2>2. CASE d < n
    BY <1>1, <1>3, <1>type, <2>2 DEF Agrees, Target, Drive
  <2>3. QED
    BY <1>1, <2>2 DEF Drive
<1>5. \A d \in Drive, s \in Slot : slotDrv'[s] = d => vs'[d] = s /\ d <= n
  BY <1>1, <1>3 DEF Drive
<1>6. \A d \in Drive : d >= drives => drvFile'[d] = NoVolume /\ vs'[d] = NoSlot
  BY <1>1, <1>3 DEF Drive
<1>7. \A d \in Drive : d <= n /\ vs'[d] = NoSlot => link'[d] = NoLink
  BY <1>1, <1>3 DEF Drive
<1>8. CASE n + 1 < drives
  <2>1. pc' = "restore" /\ n' = n + 1 /\ ~loading' /\ Restoring' /\ ~Loading'
    BY <1>1, <1>8 DEF NextDrive, Loading, Restoring
  <2>2. \A d \in Drive : InHand(d)' <=> d > n
    BY <1>1, <2>1 DEF InHand, Drive
  <2>3. Tables'
    BY <1>1, <1>4, <1>5, <1>6, <2>2 DEF Tables, Drive
  <2>4. \A d \in Drive : d > n => vs'[d] = NoSlot
    <3>1. n \in Int /\ \A d \in Drive : d > n => d # k
      BY <1>1 DEF Drive
    <3>2. QED
      BY <1>3, <3>1
  <2>5. AtHand'
    <3>1. n + 1 \in Drive /\ n' < drives'
      BY DrivesAssumption, <1>1, <1>8, <2>1 DEF Drive
    <3>2. \A d \in Drive : d > n + 1 => d > n
      BY <1>1 DEF Drive
    <3>3. n + 1 > n
      BY <1>1 DEF Drive
    <3>4. vs'[n'] = NoSlot /\ \A d \in Drive : d > n' => vs'[d] = NoSlot
      BY <2>1, <2>4, <3>1, <3>2, <3>3
    <3>5. QED
      BY <2>1, <3>1, <3>4 DEF AtHand
  <2>6. \A d \in Drive : d < n + 1 <=> d <= n
    BY <1>1 DEF Drive
  <2>7. LinksRemoved'
    BY <1>7, <2>1, <2>6 DEF LinksRemoved
  <2>8. QED
    BY <2>1, <2>3, <2>5, <2>7 DEF IInv
<1>9. CASE n + 1 >= drives
  <2>1. pc' = "ready" /\ ~loading' /\ ~Restoring' /\ ~Loading'
    BY <1>1, <1>9 DEF NextDrive, Loading, Restoring, Drive
  <2>2. \A d \in Drive : ~InHand(d)'
    BY <2>1 DEF InHand
  <2>3. \A d \in Drive : d <= n \/ d >= drives
    BY <1>1, <1>9 DEF Drive
  <2>4. \A d \in Drive : Agrees(d)'
    BY <1>4, <1>6, <2>3 DEF Agrees
  <2>5. Tables'
    BY <1>5, <1>6, <2>2, <2>4 DEF Tables
  <2>6. AtHand'
    BY <2>1 DEF AtHand
  <2>7. LinksRemoved'
    BY <1>1, <1>7, <1>9, <2>1 DEF LinksRemoved, Drive
  <2>8. QED
    BY <2>1, <2>5, <2>6, <2>7 DEF IInv
<1>10. QED
  BY <1>1, <1>8, <1>9 DEF Drive

-----------------------------------------------------------------------------
LEMMA IInvInit == Init => IInv
<1> SUFFICES ASSUME Init PROVE IInv
  OBVIOUS
<1>1. TypeOK
  BY TypeInit DEF TypeInv
<1>2. FilesDiffer
  BY NothingAssumption DEF Init, FilesDiffer
<1>3. QED
  BY <1>1, <1>2 DEF Init, IInv

(* What the drive table says when no drive is at hand.                     *)
LEMMA AtRest ==
  ASSUME IInv, pc \in {"ready", "done"}
  PROVE  /\ \A d \in Drive : ~InHand(d) /\ Agrees(d)
         /\ \A d \in Drive, s \in Slot : slotDrv[s] = d => vs[d] = s
         /\ \A d \in Drive : d >= drives => drvFile[d] = NoVolume /\ vs[d] = NoSlot
BY DEF IInv, Tables, InHand, Restoring, Loading

LEMMA InitializeKeeps ==
  ASSUME NoDiskErrors, DistinctNames, TypeOK', IInv, Initialize
  PROVE  IInv'
<1> USE DEF IInv, TypeOK
<1>number. n \in Drive /\ Drive \subseteq Int /\ NoSlot \notin Slot
  BY DEF Drive, Slot, NoSlot
<1>1. CASE Begin
  <2>1. /\ pc' = "restore" /\ n' = 0 /\ ~loading' /\ Restoring' /\ ~Loading'
        /\ vs' = NothingLoaded /\ slotDrv' = NoneInDrive
        /\ UNCHANGED <<at, mount, drvFile, link>>
    BY <1>1 DEF Begin, Restoring, Loading, outside, disk
  <2>2. \A d \in Drive : InHand(d)' /\ vs'[d] = NoSlot /\ ~(d < n')
    BY <2>1 DEF InHand, Drive, NothingLoaded
  <2>3. \A d \in Drive, s \in Slot : slotDrv'[s] # d
    BY <2>1 DEF NoneInDrive, NoDrive, Drive
  <2>4. n' < drives' /\ \A d \in Drive : d >= drives' => drvFile'[d] = NoVolume
    <3>1. PICK max \in Drive : /\ \A d \in Drive : HasStateFile(d) => d <= max
                               /\ drives' = max + 1
      BY <1>1 DEF Begin
    <3>2. QED
      BY <2>1, <3>1 DEF HasStateFile, Drive
  <2>5. FilesDiffer'
    BY <2>1 DEF FilesDiffer
  <2>6. n' \in Drive
    BY <2>1, BlankMemory
  <2>7. Tables' /\ AtHand' /\ LinksRemoved'
    BY <2>1, <2>2, <2>3, <2>4, <2>6 DEF Tables, AtHand, LinksRemoved
  <2>8. QED
    BY <2>1, <2>5, <2>7
<1>2. CASE RestoreUnloaded \/ ForgetLink
  <2>1. /\ pc \in {"restore", "forget"} /\ Restoring
        /\ vs[n] = NoSlot /\ drvFile[n] = NoVolume
    BY <1>2 DEF RestoreUnloaded, ForgetLink, HasStateFile, Restoring, AtHand
  <2>2. /\ NextDrive
        /\ UNCHANGED <<at, mount, drvFile, drives, vs, slotDrv, loading>>
        /\ link' = [link EXCEPT ![n] = NoLink]
    BY <1>2 DEF RestoreUnloaded, ForgetLink, TryRemoveLink, NoDiskErrors, outside
  <2>3. PICK k \in Drive : k = n
    BY <1>number
  <2>4. /\ Agrees(k)'
        /\ vs'[k] = NoSlot /\ link'[k] = NoLink
        /\ \A d \in Drive \ {k} : link'[d] = link[d]
        /\ FilesDiffer'
    BY <2>1, <2>2, <2>3 DEF Agrees, FilesDiffer
  <2>5. \A s \in Slot : slotDrv'[s] = IF s = vs'[k] THEN k ELSE slotDrv[s]
    BY <1>number, <2>2, <2>4
  <2>6. \A d \in Drive \ {k} : vs[d] # NoSlot => vs[d] # vs'[k]
    BY <2>4
  <2>7. QED
    BY <2>1, <2>2, <2>3, <2>4, <2>5, <2>6, DriveRestored
<1>3. CASE RestoreGone
  <2>1. /\ pc = "restore" /\ pc' = "forget"
        /\ drvFile' = [drvFile EXCEPT ![n] = NoVolume]
        /\ UNCHANGED <<at, mount, link, n, drives, vs, slotDrv, loading>>
    BY <1>3 DEF RestoreGone, TryDeleteState, NoDiskErrors, outside
  <2>2. ~loading /\ Restoring /\ Restoring' /\ ~Loading /\ ~Loading'
    BY <2>1 DEF Restoring, Loading, AtHand
  <2>3. \A d \in Drive : (InHand(d)' <=> InHand(d)) /\ (InHand(d) <=> d >= n)
    BY <2>1, <2>2 DEF InHand
  <2>4. \A d \in Drive : ~InHand(d) => d # n /\ Agrees(d)'
    BY <1>number, <2>1, <2>3 DEF Tables, Agrees, Target
  <2>5. Tables'
    BY <2>1, <2>3, <2>4 DEF Tables
  <2>6. FilesDiffer'
    BY <2>1, NothingAssumption DEF FilesDiffer
  <2>7. AtHand' /\ LinksRemoved'
    BY <2>1, <2>2 DEF AtHand, LinksRemoved
  <2>8. QED
    BY <2>1, <2>5, <2>6, <2>7
<1>4. CASE RestoreLoaded
  <2>1. PICK s \in SlotsWithLabel(n) : vs' = [vs EXCEPT ![n] = s]
    BY <1>4 DEF RestoreLoaded
  <2>2. /\ pc = "restore" /\ pc' = "link"
        /\ UNCHANGED <<at, mount, drvFile, link, n, drives, slotDrv, loading>>
    BY <1>4 DEF RestoreLoaded, outside, disk
  <2>3. ~loading /\ Restoring /\ Restoring' /\ ~Loading /\ ~Loading' /\ vs[n] = NoSlot
    BY <2>2 DEF Restoring, Loading, AtHand
  <2>4. s \in Slot /\ at[s] # NoVolume /\ drvFile[n] = at[s]
    BY <1>number DEF SlotsWithLabel, DistinctNames
  <2>5. \A d \in Drive : (InHand(d)' <=> InHand(d)) /\ (InHand(d) <=> d >= n)
    BY <2>2, <2>3 DEF InHand
  <2>6. \A d \in Drive : d # n => vs'[d] = vs[d]
    BY <2>1
  <2>7. \A d \in Drive : ~InHand(d) => d # n /\ Agrees(d)'
    BY <1>number, <2>2, <2>5, <2>6 DEF Tables, Agrees, Target
  <2>8. \A d \in Drive, t \in Slot : slotDrv'[t] = d => vs'[d] = t /\ ~InHand(d)'
    BY <1>number, <2>2, <2>5, <2>7, <2>6 DEF Tables
  <2>9. n < drives /\ \A d \in Drive : d >= drives => d > n
    BY <2>2, <2>3, <1>number, DrivesAssumption DEF AtHand
  <2>10. \A d \in Drive : d > n => d # n /\ vs'[d] = NoSlot
    BY <2>2, <2>3, <2>6, <1>number DEF AtHand
  <2>11. Tables'
    BY <2>2, <2>5, <2>7, <2>8, <2>9, <2>10 DEF Tables
  <2>12. vs'[n] = s
    BY <2>1, <1>number
  <2>13. AtHand'
    BY <2>2, <2>3, <2>4, <2>9, <2>10, <2>12, <1>number DEF AtHand
  <2>14. \A d \in Drive : d < n => d # n
    BY <1>number
  <2>15. LinksRemoved'
    BY <2>2, <2>3, <2>6, <2>14 DEF LinksRemoved
  <2>16. QED
    BY <2>2, <2>11, <2>13, <2>15 DEF FilesDiffer
<1>5. CASE RestoreUnreadable \/ RestoreUnread \/ ForgetUnread
  BY <1>5 DEF RestoreUnreadable, RestoreUnread, ForgetUnread, NoDiskErrors
<1>6. QED
  BY <1>1, <1>2, <1>3, <1>4, <1>5 DEF Initialize

(* The volume about to be linked in drive n is in no other drive.          *)
LEMMA NotElsewhere ==
  ASSUME IInv, TypeInv, pc \in {"link", "save"}, NEW d \in Drive, d # n, vs[d] # NoSlot
  PROVE  /\ vs[d] # vs[n]
         /\ ~InHand(d) /\ Agrees(d)
<1> USE DEF IInv, TypeInv, TypeOK
<1>number. n \in Drive /\ d \in Int /\ n \in Int
  BY DEF Drive
<1>1. ~InHand(d)
  BY <1>number DEF InHand, Restoring, Loading, AtHand
<1>2. Agrees(d) /\ drvFile[d] = at[vs[d]] /\ slotDrv[vs[d]] = d
  BY <1>1 DEF Tables, Agrees
<1>3. vs[d] # vs[n]
  <2>1. CASE loading
    <3>1. slotDrv[vs[n]] = NoDrive
      BY <2>1 DEF AtHand, Loading
    <3>2. d # NoDrive
      BY DEF Drive, NoDrive
    <3>3. QED
      BY <1>2, <3>1, <3>2
  <2>2. CASE ~loading
    <3>1. drvFile[n] = at[vs[n]]
      BY <2>2 DEF AtHand
    <3>2. QED
      BY <1>2, <3>1, <1>number DEF FilesDiffer
  <2>3. QED
    BY <2>1, <2>2
<1>4. QED
  BY <1>1, <1>2, <1>3

(* The volume about to be saved as loaded is in no state file yet.         *)
LEMMA InNoStateFile ==
  ASSUME IInv, TypeInv, pc = "save"
  PROVE  \A d \in Drive : drvFile[d] # at[vs[n]]
<1> USE DEF IInv, TypeInv, TypeOK
<1> TAKE d \in Drive
<1>1. at[vs[n]] \in Volume /\ vs[n] \in Slot
  OBVIOUS
<1>2. CASE d = n
  BY <1>1, <1>2, NothingAssumption DEF AtHand, Loading
<1>3. CASE d # n /\ vs[d] = NoSlot
  <2>1. ~InHand(d)
    BY <1>3 DEF InHand, Restoring, Loading
  <2>2. QED
    BY <1>1, <1>3, <2>1, NothingAssumption DEF Tables, Agrees
<1>4. CASE d # n /\ vs[d] # NoSlot
  <2>1. vs[d] # vs[n] /\ drvFile[d] = at[vs[d]]
    BY <1>4, NotElsewhere DEF Agrees
  <2>2. QED
    BY <1>1, <1>4, <2>1, NothingAssumption DEF Mapping
<1>5. QED
  BY <1>2, <1>3, <1>4

LEMMA LinkingKeeps ==
  ASSUME NoDiskErrors, TypeOK', TypeInv, IInv, Linking
  PROVE  IInv'
<1> USE DEF IInv, TypeInv, TypeOK
<1>1. /\ pc = "link" /\ vs[n] \in Slot /\ at[vs[n]] \in Volume /\ n \in Drive
      /\ UNCHANGED <<at, mount, drvFile, drives, vs, loading>>
  BY DEF Linking, LinkFound, RemoveOldLink, CreateLink, LinkFails, NoDiskErrors,
         outside, disk, memory
<1>number. NoSlot \notin Slot /\ NoDrive \notin Drive
  BY DEF Slot, Drive, NoSlot, NoDrive
<1>2. FilesDiffer'
  BY <1>1 DEF FilesDiffer
<1>3. CASE RemoveOldLink
  <2>1. link' = [link EXCEPT ![n] = NoLink] /\ UNCHANGED <<pc, n, slotDrv>>
    BY <1>3 DEF RemoveOldLink, memory
  <2>2. \A d \in Drive : InHand(d)' <=> InHand(d)
    BY <1>1, <2>1 DEF InHand, Restoring, Loading
  <2>3. InHand(n)
    BY <1>1 DEF InHand, Restoring, Loading, Drive
  <2>4. \A d \in Drive : d # n => link'[d] = link[d]
    BY <2>1
  <2>5. \A d \in Drive : ~InHand(d) => Agrees(d)'
    BY <1>1, <2>1, <2>3, <2>4 DEF Tables, Agrees, Target
  <2>6. Tables'
    BY <1>1, <2>1, <2>2, <2>5 DEF Tables
  <2>7. AtHand'
    BY <1>1, <2>1 DEF AtHand, Restoring, Loading
  <2>8. LinksRemoved'
    BY <1>1, <2>1 DEF LinksRemoved, Restoring
  <2>9. QED
    BY <1>1, <1>2, <2>1, <2>6, <2>7, <2>8
<1>4. CASE LinkFound \/ CreateLink
  <2>1. link' = [link EXCEPT ![n] = Target(n)] /\ Linked
    BY <1>4 DEF LinkFound, CreateLink, disk
  <2>2. Target(n)' = [volume |-> at[vs[n']], mount |-> mount[at[vs[n']]]]
    BY <1>1 DEF Target
  <2>3. \A d \in Drive : d # n => link'[d] = link[d]
    BY <2>1
  <2>4. CASE ~loading
    <3>1. PICK k \in Drive : k = n
      BY <1>1
    <3>2. NextDrive /\ slotDrv' = [slotDrv EXCEPT ![vs[n]] = n]
      BY <2>1, <2>4 DEF Linked
    <3>3. Restoring
      BY <1>1, <2>4 DEF Restoring
    <3>4. /\ vs[n] # NoSlot /\ drvFile[n] = at[vs[n]]
      BY <1>1, <2>4 DEF AtHand
    <3>5. Agrees(k)'
      BY <1>1, <2>1, <3>1, <3>2, <3>4 DEF Agrees, Target
    <3>6. \A s \in Slot : slotDrv'[s] = IF s = vs'[k] THEN k ELSE slotDrv[s]
      BY <1>1, <3>1, <3>2
    <3>7. \A d \in Drive \ {k} : vs[d] # NoSlot => vs[d] # vs'[k]
      BY <1>1, <3>1, NotElsewhere
    <3>8. vs'[k] # NoSlot
      BY <1>1, <3>1, <3>4
    <3>9. \A d \in Drive \ {k} : drvFile'[d] = drvFile[d] /\ link'[d] = link[d] /\ vs'[d] = vs[d]
      BY <1>1, <2>3, <3>1
    <3>10. QED
      BY <1>1, <1>2, <3>1, <3>2, <3>3, <3>5, <3>6, <3>7, <3>8, <3>9, DriveRestored
  <2>5. CASE loading
    <3>1. pc' = "save" /\ UNCHANGED <<n, slotDrv>>
      BY <2>1, <2>5 DEF Linked
    <3>2. Loading /\ Loading' /\ ~Restoring /\ ~Restoring'
      BY <1>1, <2>5, <3>1 DEF Loading, Restoring
    <3>3. \A d \in Drive : (InHand(d)' <=> InHand(d)) /\ (InHand(d) <=> d = n)
      BY <1>1, <3>1, <3>2 DEF InHand
    <3>4. \A d \in Drive : d # n => Agrees(d)'
      BY <1>1, <2>3, <3>1, <3>3 DEF Tables, Agrees, Target
    <3>5. Tables'
      BY <1>1, <3>1, <3>3, <3>4 DEF Tables
    <3>6. link'[n'] = Target(n)'
      BY <1>1, <2>1, <2>2, <3>1 DEF Target
    <3>7. AtHand'
      BY <1>1, <3>1, <3>2, <3>6, <2>5 DEF AtHand
    <3>8. LinksRemoved'
      BY <3>1, <3>2 DEF LinksRemoved
    <3>9. QED
      BY <1>1, <1>2, <3>1, <3>5, <3>7, <3>8
  <2>6. QED
    BY <2>4, <2>5
<1>5. CASE LinkFails
  BY <1>5 DEF LinkFails, NoDiskErrors
<1>6. QED
  BY <1>3, <1>4, <1>5 DEF Linking

LEMMA SavingKeeps ==
  ASSUME NoDiskErrors, TypeOK', TypeInv, IInv, Saving
  PROVE  IInv'
<1> USE DEF IInv, TypeInv, TypeOK
<1>number. NoSlot \notin Slot /\ NoDrive \notin Drive
  BY DEF Slot, Drive, NoSlot, NoDrive
<1>1. CASE SaveLoaded
  <2>1. /\ pc = "save" /\ pc' = "done" /\ loading /\ Loading
        /\ vs[n] \in Slot /\ at[vs[n]] \in Volume /\ n \in Drive
        /\ link[n] = Target(n) /\ n < drives
        /\ drvFile' = [drvFile EXCEPT ![n] = at[vs[n]]]
        /\ slotDrv' = [slotDrv EXCEPT ![vs[n]] = n]
        /\ UNCHANGED <<at, mount, link, n, drives, vs, loading>>
    BY <1>1 DEF SaveLoaded, NoDiskErrors, AtHand, Loading, outside
  <2>2. \A d \in Drive : ~InHand(d)' /\ (InHand(d) <=> d = n)
    BY <2>1 DEF InHand, Restoring, Loading
  <2>3. \A d \in Drive : d # n => Agrees(d) /\ Agrees(d)'
    <3>1. TAKE d \in Drive
    <3>2. HAVE d # n
    <3>3. Agrees(d)
      BY <2>2, <2>1, <3>2 DEF Tables
    <3>4. vs[d] # NoSlot => vs[d] # vs[n]
      BY <2>1, <3>2, NotElsewhere
    <3>5. QED
      BY <2>1, <3>2, <3>3, <3>4 DEF Agrees, Target
  <2>4. \A d \in Drive : d = n => Agrees(d)'
    BY <1>number, <2>1 DEF Agrees, Target
  <2>5. \A d \in Drive, s \in Slot : slotDrv'[s] = d => vs'[d] = s
    BY <2>1, <2>2 DEF Tables
  <2>6. \A d \in Drive : d >= drives => d # n
    BY <2>1, DrivesAssumption DEF Drive
  <2>7. Tables'
    BY <2>1, <2>2, <2>3, <2>4, <2>5, <2>6 DEF Tables
  <2>8. AtHand' /\ LinksRemoved'
    BY <2>1 DEF AtHand, LinksRemoved, Restoring, Loading
  <2>9. \A d \in Drive : d # n => drvFile[d] # at[vs[n]]
    BY <2>1, InNoStateFile
  <2>10. FilesDiffer'
    BY <2>1, <2>9 DEF FilesDiffer
  <2>11. QED
    BY <2>1, <2>7, <2>8, <2>10
<1>2. CASE SaveFails
  BY <1>2 DEF SaveFails, NoDiskErrors
<1>3. CASE CrashInSave
  <2>1. FilesDiffer'
    BY <1>3, NothingAssumption DEF CrashInSave, FilesDiffer
  <2>2. QED
    BY <1>3, <2>1, ExitKeeps DEF CrashInSave, outside
<1>4. QED
  BY <1>1, <1>2, <1>3 DEF Saving

LEMMA LoadingKeeps ==
  ASSUME TypeOK', IInv, NEW d \in Drive, NEW s \in 1 .. Slots + 1,
         RefuseLoad(d, s) \/ LoadAgain(d, s) \/ Load(d, s)
  PROVE  IInv'
<1> USE DEF IInv, TypeOK
<1>1. CASE RefuseLoad(d, s)
  BY <1>1, ExitKeeps DEF RefuseLoad, FilesDiffer, outside, disk
<1>2. CASE LoadAgain(d, s)
  <2>1. /\ pc = "ready" /\ pc' = "done" /\ ~loading
        /\ UNCHANGED <<at, mount, drvFile, link, n, drives, vs, slotDrv, loading>>
    BY <1>2 DEF LoadAgain, AtHand, outside, disk
  <2>2. \A e \in Drive : ~InHand(e)' /\ Agrees(e)'
    BY <2>1, AtRest DEF InHand, Restoring, Loading, Agrees, Target
  <2>3. Tables'
    BY <2>1, <2>2, AtRest DEF Tables
  <2>4. AtHand' /\ LinksRemoved' /\ FilesDiffer'
    BY <2>1 DEF AtHand, LinksRemoved, FilesDiffer, Restoring, Loading
  <2>5. QED
    BY <2>1, <2>3, <2>4
<1>3. CASE Load(d, s)
  <2>1. /\ pc = "ready" /\ pc' = "link" /\ n' = d /\ loading'
        /\ drives' = Larger(drives, d + 1)
        /\ vs' = [vs EXCEPT ![d] = s]
        /\ s \in Slot /\ vs[d] = NoSlot /\ slotDrv[s] = NoDrive /\ at[s] # NoVolume
        /\ UNCHANGED <<at, mount, drvFile, link, slotDrv>>
    BY <1>3 DEF Load, MayLoad, outside, disk
  <2>2. Loading' /\ ~Restoring' /\ \A e \in Drive : InHand(e)' <=> e = d
    BY <2>1 DEF InHand, Restoring, Loading
  <2>3. drvFile[d] = NoVolume
    BY <2>1, AtRest DEF Agrees
  <2>4. \A e \in Drive : e # d => vs'[e] = vs[e] /\ Agrees(e)'
    BY <2>1, AtRest DEF Agrees, Target
  <2>5. /\ d < drives'
        /\ \A e \in Drive : e >= drives' => e >= drives /\ e # d
    BY <2>1, DrivesAssumption DEF Larger, Drive
  <2>6. \A e \in Drive, t \in Slot : slotDrv'[t] = e => e # d /\ vs'[e] = t
    BY <2>1, <2>4, AtRest DEF Slot, NoSlot
  <2>7. Tables'
    BY <2>1, <2>2, <2>4, <2>5, <2>6, AtRest DEF Tables
  <2>8. vs'[d] = s /\ s # NoSlot
    BY <2>1 DEF Slot, NoSlot
  <2>9. AtHand'
    BY <2>1, <2>2, <2>3, <2>5, <2>8 DEF AtHand
  <2>10. LinksRemoved' /\ FilesDiffer'
    BY <2>1, <2>2 DEF LinksRemoved, FilesDiffer
  <2>11. QED
    BY <2>1, <2>7, <2>9, <2>10
<1>4. QED
  BY <1>1, <1>2, <1>3

LEMMA UnloadingKeeps ==
  ASSUME NoDiskErrors, TypeOK', IInv, NEW d \in Drive,
         UnloadEmpty(d) \/ Unload(d) \/ UnloadFails(d)
  PROVE  IInv'
<1> USE DEF IInv, TypeOK
<1>1. CASE UnloadEmpty(d)
  <2>1. /\ pc = "ready" /\ pc' = "done" /\ ~loading
        /\ drives' = Larger(drives, d + 1)
        /\ UNCHANGED <<at, mount, drvFile, link, n, vs, slotDrv, loading>>
    BY <1>1 DEF UnloadEmpty, AtHand, outside, disk
  <2>2. \A e \in Drive : ~InHand(e)' /\ Agrees(e)'
    BY <2>1, AtRest DEF InHand, Restoring, Loading, Agrees, Target
  <2>3. \A e \in Drive : e >= drives' => e >= drives
    BY <2>1, DrivesAssumption DEF Larger, Drive
  <2>4. Tables'
    BY <2>1, <2>2, <2>3, AtRest DEF Tables
  <2>5. AtHand' /\ LinksRemoved' /\ FilesDiffer'
    BY <2>1 DEF AtHand, LinksRemoved, FilesDiffer, Restoring, Loading
  <2>6. QED
    BY <2>1, <2>4, <2>5
<1>2. CASE Unload(d)
  <2>1. /\ pc = "ready" /\ pc' = "unload" /\ n' = d /\ ~loading
        /\ link' = [link EXCEPT ![d] = NoLink]
        /\ slotDrv' = [slotDrv EXCEPT ![vs[d]] = NoDrive]
        /\ vs' = [vs EXCEPT ![d] = NoSlot]
        /\ vs[d] # NoSlot
        /\ UNCHANGED <<at, mount, drvFile, drives, loading>>
    BY <1>2 DEF Unload, AtHand, outside
  <2>2. ~Loading' /\ ~Restoring' /\ \A e \in Drive : InHand(e)' <=> e = d
    BY <2>1 DEF InHand, Restoring, Loading
  <2>3. \A e \in Drive : e # d => vs'[e] = vs[e] /\ link'[e] = link[e]
    BY <2>1
  <2>4. \A e \in Drive : e # d /\ vs[e] # NoSlot => slotDrv'[vs[e]] = e
    BY <2>1, AtRest DEF Agrees
  <2>5. \A e \in Drive : e # d => Agrees(e)'
    BY <2>1, <2>3, <2>4, AtRest DEF Agrees, Target
  <2>6. \A e \in Drive, t \in Slot : slotDrv'[t] = e => e # d /\ vs'[e] = t
    BY <2>1, <2>3, AtRest DEF NoDrive, Drive
  <2>7. d < drives /\ \A e \in Drive : e >= drives => e # d
    BY <2>1, AtRest, DrivesAssumption DEF Drive
  <2>8. Tables'
    BY <2>1, <2>2, <2>3, <2>5, <2>6, <2>7, AtRest DEF Tables
  <2>9. AtHand'
    BY <2>1, <2>2, <2>7 DEF AtHand
  <2>10. LinksRemoved' /\ FilesDiffer'
    BY <2>1, <2>2 DEF LinksRemoved, FilesDiffer
  <2>11. QED
    BY <2>1, <2>8, <2>9, <2>10
<1>3. CASE UnloadFails(d)
  BY <1>3 DEF UnloadFails, NoDiskErrors
<1>4. QED
  BY <1>1, <1>2, <1>3

LEMMA DeleteStateKeeps ==
  ASSUME NoDiskErrors, TypeOK', IInv, DeleteState
  PROVE  IInv'
<1> USE DEF IInv, TypeOK
<1>1. /\ pc = "unload" /\ pc' = "done" /\ ~loading
      /\ drvFile' = [drvFile EXCEPT ![n] = NoVolume] /\ vs[n] = NoSlot
      /\ UNCHANGED <<at, mount, link, n, drives, vs, slotDrv, loading>>
  BY DEF DeleteState, TryDeleteState, NoDiskErrors, AtHand, outside
<1>2. \A d \in Drive : ~InHand(d)' /\ (InHand(d) <=> d = n)
  BY <1>1 DEF InHand, Restoring, Loading
<1>3. \A d \in Drive : Agrees(d)'
  BY <1>1, <1>2 DEF Tables, Agrees, Target
<1>4. Tables'
  BY <1>1, <1>2, <1>3 DEF Tables
<1>5. AtHand' /\ LinksRemoved'
  BY <1>1 DEF AtHand, LinksRemoved, Restoring, Loading
<1>6. FilesDiffer'
  BY <1>1, NothingAssumption DEF FilesDiffer
<1>7. QED
  BY <1>1, <1>4, <1>5, <1>6

LEMMA IInvNext ==
  ASSUME NoDiskErrors, DistinctNames, TypeInv, TypeInv', IInv, [Next]_vars
  PROVE  IInv'
<1>1. TypeOK'
  BY DEF TypeInv
<1>2. CASE UNCHANGED vars
  BY <1>1, <1>2 DEF vars, outside, disk, memory, IInv, FilesDiffer, Tables, AtHand,
     LinksRemoved, InHand, Restoring, Loading, Agrees, Target
<1>3. CASE Remap
  BY <1>1, <1>3 DEF Remap, IInv, FilesDiffer, disk, memory
<1>4. CASE Finish \/ Crash
  BY <1>1, <1>4, ExitKeeps DEF Finish, Crash, IInv, FilesDiffer, outside, disk
<1>5. CASE Initialize \/ Linking \/ Saving \/ DeleteState
  BY <1>1, <1>5, InitializeKeeps, LinkingKeeps, SavingKeeps, DeleteStateKeeps
<1>6. CASE \E d \in Drive, s \in 1 .. Slots + 1 : RefuseLoad(d, s) \/ LoadAgain(d, s) \/ Load(d, s)
  BY <1>1, <1>6, LoadingKeeps
<1>7. CASE \E d \in Drive : UnloadEmpty(d) \/ Unload(d) \/ UnloadFails(d)
  BY <1>1, <1>7, UnloadingKeeps
<1>8. QED
  BY <1>2, <1>3, <1>4, <1>5, <1>6, <1>7 DEF Next

LEMMA Always ==
  ASSUME NoDiskErrors, DistinctNames
  PROVE  Spec => [](TypeInv /\ IInv)
<1>1. Init => TypeInv /\ IInv
  BY TypeInit, IInvInit
<1>2. (TypeInv /\ IInv) /\ [Next]_vars => (TypeInv /\ IInv)'
  BY TypeNext, IInvNext
<1>3. QED
  BY <1>1, <1>2, PTL DEF Spec

(* The symlinks, the state files and the two tables agree whenever LOAD    *)
(* or UNLOAD look at them, after any number of killed invocations, if no   *)
(* file operation fails and no two magazines have a volume of the same     *)
(* name.                                                                   *)
THEOREM DrivesAgreeAlways ==
  ASSUME NoDiskErrors, DistinctNames
  PROVE  Spec => []DrivesAgree
<1>1. IInv => DrivesAgree
  <2> SUFFICES ASSUME IInv, Settled PROVE DrivesAgree
    BY DEF DrivesAgree
  <2>1. \A d \in Drive : Agrees(d)
    BY AtRest DEF Settled
  <2>2. drives \in 0 .. Drives /\ \A d \in 0 .. drives - 1 : d \in Drive /\ d < drives
    BY DrivesAssumption DEF IInv, TypeOK, Drive
  <2>3. \A d \in 0 .. drives - 1 :
           vs[d] # NoSlot => link[d] = Target(d) /\ drvFile[d] = at[vs[d]]
    BY <2>1, <2>2 DEF Agrees
  <2>4. \A d \in 0 .. drives - 1 :
           vs[d] = NoSlot => drvFile[d] = NoVolume /\ (pc = "ready" => link[d] = NoLink)
    BY <2>1, <2>2 DEF Agrees, IInv, LinksRemoved
  <2>5. \A d \in Drive, s \in Slot : slotDrv[s] = d <=> vs[d] = s
    BY <2>1, AtRest DEF Agrees, Settled, Slot, NoSlot
  <2>6. QED
    BY <2>3, <2>4, <2>5 DEF DrivesAgree
<1>2. QED
  BY Always, <1>1, PTL

(* No volume is ever in two drives, on the same conditions.                *)
THEOREM NeverInTwoDrives ==
  ASSUME NoDiskErrors, DistinctNames
  PROVE  Spec => []NoSlotInTwoDrives
<1>1. IInv => NoSlotInTwoDrives
  <2> SUFFICES ASSUME IInv, Settled,
                      NEW d \in Drive, NEW e \in Drive, vs[d] = vs[e], vs[d] # NoSlot
               PROVE  d = e
    BY DEF NoSlotInTwoDrives
  <2>1. slotDrv[vs[d]] = d /\ slotDrv[vs[e]] = e
    BY AtRest DEF Settled, Agrees
  <2>2. QED
    BY <2>1
<1>2. QED
  BY Always, <1>1, PTL

-----------------------------------------------------------------------------
(* The refinement mapping of VirtualDrives.                                *)
InChanger == {v \in Volume : \E s \in Slot : at[s] = v}
InDrive == [d \in Drive |-> IF drvFile[d] \in Volume THEN drvFile[d] ELSE NoVolume]

(* A step that writes no state file and leaves the slots alone is no step  *)
(* of the autochanger.                                                     *)
LEMMA Stutter ==
  ASSUME UNCHANGED <<at, drvFile>>
  PROVE  UNCHANGED Changer!vars
BY DEF Changer!vars

(* Volumes are loaded, unloaded and lost as in an autochanger.             *)
LEMMA StepIsChangerStep ==
  ASSUME NoDiskErrors, DistinctNames, TypeInv, IInv, [Next]_vars
  PROVE  [Changer!Next]_(Changer!vars)
<1> USE DEF IInv, TypeInv, TypeOK
<1>1. CASE UNCHANGED vars
  BY <1>1, Stutter DEF vars, outside, disk
<1>2. CASE Remap
  BY <1>2 DEF Remap, disk, Mapping, Changer!Next, Changer!Exchange
<1>3. CASE Initialize
  <2>1. CASE RestoreGone
    <3>1. /\ drvFile' = [drvFile EXCEPT ![n] = NoVolume] /\ UNCHANGED at
          /\ SlotsWithLabel(n) = {}
      BY <2>1 DEF RestoreGone, TryDeleteState, NoDiskErrors, outside
    <3>2. InDrive[n] \notin InChanger
      BY <3>1, NothingAssumption DEF InDrive, InChanger, SlotsWithLabel
    <3>3. InDrive' = [InDrive EXCEPT ![n] = NoVolume]
      BY <3>1, NothingAssumption DEF InDrive
    <3>4. \E d \in Drive : Changer!Release(d)
      BY <3>1, <3>2, <3>3 DEF Changer!Release, InDrive, InChanger
    <3>5. QED
      BY <3>4 DEF Changer!Next
  <2>2. CASE Begin \/ RestoreUnloaded \/ RestoreUnreadable \/ RestoreUnread \/ ForgetLink
             \/ ForgetUnread \/ RestoreLoaded
    BY <2>2, Stutter DEF Begin, RestoreUnloaded, RestoreUnreadable, RestoreUnread, ForgetLink,
       ForgetUnread, RestoreLoaded, NoDiskErrors, outside, disk
  <2>3. QED
    BY <1>3, <2>1, <2>2 DEF Initialize
<1>4. CASE Linking
  BY <1>4, Stutter DEF Linking, LinkFound, RemoveOldLink, CreateLink, LinkFails, outside, disk
<1>5. CASE Saving
  <2>1. CASE SaveLoaded
    <3>1. /\ pc = "save" /\ vs[n] \in Slot /\ at[vs[n]] \in Volume /\ n \in Drive
          /\ drvFile' = [drvFile EXCEPT ![n] = at[vs[n]]] /\ UNCHANGED at
      BY <2>1 DEF SaveLoaded, NoDiskErrors, outside
    <3>2. InDrive' = [InDrive EXCEPT ![n] = at[vs[n]]]
      BY <3>1 DEF InDrive
    <3>3. /\ at[vs[n]] \in InChanger
          /\ \A e \in Drive : InDrive[e] # at[vs[n]]
      BY <3>1, InNoStateFile, NothingAssumption DEF InDrive, InChanger
    <3>4. InDrive[n] = NoVolume
      BY <3>1, NothingAssumption DEF InDrive, AtHand, Loading
    <3>5. \E d \in Drive, v \in Volume : Changer!Load(d, v)
      <4>1. PICK d \in Drive, v \in Volume : d = n /\ v = at[vs[n]]
        BY <3>1
      <4>2. /\ v \in InChanger /\ InDrive[d] = NoVolume /\ UNCHANGED InChanger
            /\ \A e \in Drive : InDrive[e] # v
            /\ InDrive' = [InDrive EXCEPT ![d] = v]
        BY <3>1, <3>2, <3>3, <3>4, <4>1 DEF InChanger
      <4>3. Changer!Load(d, v)
        BY <4>2 DEF Changer!Load, InDrive, InChanger
      <4>4. QED
        BY <4>3
    <3>6. QED
      BY <3>5 DEF Changer!Next
  <2>2. CASE CrashInSave
    <3>1. /\ drvFile' = [drvFile EXCEPT ![n] = Empty] /\ UNCHANGED at
          /\ drvFile[n] = NoVolume
      BY <2>2 DEF CrashInSave, outside, AtHand, Loading
    <3>2. InDrive' = InDrive
      BY <3>1, NothingAssumption DEF InDrive
    <3>3. QED
      BY <3>1, <3>2 DEF Changer!vars, InDrive
  <2>3. CASE SaveFails
    BY <2>3 DEF SaveFails, NoDiskErrors
  <2>4. QED
    BY <1>5, <2>1, <2>2, <2>3 DEF Saving
<1>6. CASE DeleteState
  <2>1. drvFile' = [drvFile EXCEPT ![n] = NoVolume] /\ UNCHANGED at
    BY <1>6 DEF DeleteState, TryDeleteState, NoDiskErrors, outside
  <2>2. InDrive' = [InDrive EXCEPT ![n] = NoVolume]
    BY <2>1, NothingAssumption DEF InDrive
  <2>3. \E d \in Drive : Changer!Unload(d) \/ Changer!Release(d)
    BY <2>1, <2>2 DEF Changer!Unload, Changer!Release, InDrive, InChanger
  <2>4. QED
    BY <2>3 DEF Changer!Next
<1>7. ASSUME NEW d \in Drive, NEW s \in 1 .. Slots + 1,
             RefuseLoad(d, s) \/ LoadAgain(d, s) \/ Load(d, s)
      PROVE  UNCHANGED Changer!vars
  BY <1>7, Stutter DEF RefuseLoad, LoadAgain, Load, outside, disk
<1>8. ASSUME NEW d \in Drive, UnloadEmpty(d) \/ Unload(d) \/ UnloadFails(d)
      PROVE  UNCHANGED Changer!vars
  BY <1>8, Stutter DEF UnloadEmpty, Unload, UnloadFails, outside, disk
<1>9. CASE Finish \/ Crash
  BY <1>9, Stutter DEF Finish, Crash, outside, disk
<1>10. QED
  BY <1>1, <1>2, <1>3, <1>4, <1>5, <1>6, <1>7, <1>8, <1>9 DEF Next

(* To Bacula the virtual drives are those of an autochanger.               *)
THEOREM ImplementsAutochanger ==
  ASSUME NoDiskErrors, DistinctNames
  PROVE  Spec => IsAutochanger
<1>1. Init => Changer!Init
  BY NothingAssumption DEF Init, Changer!Init
<1>2. TypeInv /\ IInv /\ [Next]_vars => [Changer!Next]_(Changer!vars)
  BY StepIsChangerStep
<1>3. QED
  BY <1>1, <1>2, Always, PTL DEF Spec, IsAutochanger, Changer!Spec

-----------------------------------------------------------------------------
(***************************************************************************)
(* What survives failing file operations: not that an unloaded drive has   *)
(* no files, but that a loaded one is loaded.  Of the drive at hand it     *)
(* says how far the restore or the LOAD has come.                          *)
(***************************************************************************)
AtWork(d) == pc \in {"link", "save"} /\ d = n

LoadedInv ==
    pc # "off" =>
        /\ \A d \in Drive :
              vs[d] # NoSlot /\ ~AtWork(d) =>
                  /\ link[d] = Target(d)
                  /\ drvFile[d] = at[vs[d]] \/ (JustLoaded(d) /\ drvFile[d] = Empty)
        /\ pc \in {"restore", "forget", "unread"} => \A d \in Drive : d >= n => vs[d] = NoSlot
        /\ pc = "forget" => drvFile[n] = NoVolume \/ SlotsWithLabel(n) = {}
        /\ pc = "link" /\ ~loading =>
              drvFile[n] = at[vs[n]] /\ \A d \in Drive : d > n => vs[d] = NoSlot
        /\ pc = "save" => loading /\ link[n] = Target(n)
        /\ pc = "unload" => vs[n] = NoSlot /\ link[n] = NoLink
        /\ pc \in {"restore", "forget", "unread", "unload", "ready"} => ~loading

(* Initialize() goes on when drive k is loaded or left alone.              *)
LEMMA LoadedOrLeft ==
  ASSUME TypeInv, LoadedInv, pc \in {"restore", "forget", "unread", "link"}, ~loading,
         NextDrive, NEW k \in Drive, k = n, ~loading',
         UNCHANGED <<at, mount>>,
         \A d \in Drive \ {k} : /\ drvFile'[d] = drvFile[d]
                               /\ link'[d] = link[d]
                               /\ vs'[d] = vs[d],
         vs'[k] # NoSlot => link'[k] = Target(k)' /\ drvFile'[k] = at[vs'[k]]
  PROVE  LoadedInv'
<1> USE DEF TypeInv, TypeOK
<1>1. n \in Int /\ Drive \subseteq Int
  BY DEF Drive
<1>2. \A d \in Drive : d > n => vs'[d] = NoSlot
  BY <1>1 DEF LoadedInv
<1>3. \A d \in Drive : vs'[d] # NoSlot => link'[d] = Target(d)' /\ drvFile'[d] = at'[vs'[d]]
  <2>1. TAKE d \in Drive
  <2>2. CASE d # k
    BY <2>2 DEF LoadedInv, AtWork, JustLoaded, Target
  <2>3. QED
    BY <2>2
<1>4. CASE pc' = "restore" /\ n' = n + 1
  BY <1>1, <1>2, <1>3, <1>4 DEF LoadedInv, AtWork
<1>5. CASE pc' = "ready"
  BY <1>3, <1>5 DEF LoadedInv, AtWork
<1>6. QED
  BY <1>4, <1>5 DEF NextDrive

LEMMA LoadedNext ==
  ASSUME DistinctNames, TypeInv, LoadedInv, [Next]_vars
  PROVE  LoadedInv'
<1> USE DEF TypeInv, TypeOK
<1>number. n \in Drive /\ Drive \subseteq Int /\ NoSlot \notin Slot
  BY DEF Drive, Slot, NoSlot
<1>exit. ASSUME Exit PROVE LoadedInv'
  BY <1>exit DEF Exit, LoadedInv
<1>1. CASE UNCHANGED vars
  BY <1>1 DEF vars, outside, disk, memory, LoadedInv, AtWork, JustLoaded, Target, SlotsWithLabel
<1>2. CASE Remap
  BY <1>2 DEF Remap, memory, LoadedInv
<1>3. CASE Begin
  BY <1>3 DEF Begin, LoadedInv, NothingLoaded, AtWork
<1>4. CASE RestoreUnloaded \/ RestoreUnreadable \/ ForgetLink \/ ForgetUnread
  <2>1. /\ pc \in {"restore", "forget", "unread"} /\ ~loading /\ ~loading' /\ vs[n] = NoSlot
        /\ NextDrive /\ UNCHANGED <<at, mount, drvFile, vs>>
        /\ \A d \in Drive : d # n => link'[d] = link[d]
    BY <1>4, <1>number DEF RestoreUnloaded, RestoreUnreadable, ForgetLink, ForgetUnread,
       TryRemoveLink, LoadedInv, outside, disk
  <2>2. PICK k \in Drive : k = n
    BY <1>number
  <2>3. QED
    BY <2>1, <2>2, LoadedOrLeft
<1>5. CASE RestoreGone \/ RestoreUnread
  <2>1. /\ pc = "restore" /\ pc' \in {"forget", "unread"} /\ ~loading
        /\ pc' = "forget" => SlotsWithLabel(n) = {}
        /\ drvFile' = [drvFile EXCEPT ![n] = NoVolume] \/ UNCHANGED drvFile
        /\ UNCHANGED <<at, mount, link, n, vs, loading>>
    BY <1>5 DEF RestoreGone, RestoreUnread, TryDeleteState, LoadedInv, outside
  <2>2. \A d \in Drive : d >= n => vs'[d] = NoSlot
    BY <2>1 DEF LoadedInv
  <2>3. \A d \in Drive : vs[d] # NoSlot => drvFile'[d] = drvFile[d]
    BY <1>number, <2>1 DEF LoadedInv
  <2>4. pc' = "forget" => drvFile'[n'] = NoVolume \/ SlotsWithLabel(n)' = {}
    <3>1. CASE UNCHANGED drvFile
      <4>1. SlotsWithLabel(n)' = SlotsWithLabel(n)
        BY <2>1, <3>1 DEF SlotsWithLabel
      <4>2. QED
        BY <2>1, <4>1
    <3>2. CASE drvFile' = [drvFile EXCEPT ![n] = NoVolume]
      BY <1>number, <2>1, <3>2
    <3>3. QED
      BY <2>1, <3>1, <3>2
  <2>5. \A d \in Drive : vs'[d] # NoSlot => link'[d] = Target(d)' /\ drvFile'[d] = at'[vs'[d]]
    BY <2>1, <2>3 DEF LoadedInv, AtWork, JustLoaded, Target
  <2>6. QED
    BY <2>1, <2>2, <2>4, <2>5 DEF LoadedInv, AtWork
<1>6. CASE RestoreLoaded
  <2>1. PICK s \in SlotsWithLabel(n) : vs' = [vs EXCEPT ![n] = s]
    BY <1>6 DEF RestoreLoaded
  <2>2. /\ pc = "restore" /\ pc' = "link" /\ ~loading
        /\ UNCHANGED <<at, mount, drvFile, link, n, loading>>
    BY <1>6 DEF RestoreLoaded, LoadedInv, outside, disk
  <2>3. s \in Slot /\ drvFile[n] = at[s]
    BY DistinctNames DEF DistinctNames, SlotsWithLabel
  <2>4. drvFile'[n'] = at'[vs'[n']] /\ \A d \in Drive : d > n' => vs'[d] = NoSlot
    BY <1>number, <2>1, <2>2, <2>3 DEF LoadedInv
  <2>5. \A d \in Drive : d # n => vs'[d] = vs[d]
    BY <2>1
  <2>6. QED
    BY <2>2, <2>4, <2>5 DEF LoadedInv, AtWork, JustLoaded, Target
<1>7. ASSUME pc = "link", Linked, link'[n] = Target(n),
             \A d \in Drive : d # n => link'[d] = link[d],
             UNCHANGED <<at, mount, drvFile, vs, loading>>
      PROVE  LoadedInv'
  <2>1. CASE loading
    <3>1. pc' = "save" /\ n' = n /\ loading'
      BY <1>7, <2>1 DEF Linked
    <3>2. QED
      BY <1>7, <3>1 DEF LoadedInv, AtWork, JustLoaded, Target
  <2>2. CASE ~loading
    <3>1. NextDrive /\ ~loading'
      BY <1>7, <2>2 DEF Linked
    <3>2. PICK k \in Drive : k = n
      BY <1>number
    <3>3. link'[k] = Target(k)' /\ drvFile'[k] = at[vs'[k]]
      BY <1>7, <2>2, <3>2 DEF Target, LoadedInv
    <3>4. QED
      BY <1>7, <2>2, <3>1, <3>2, <3>3, LoadedOrLeft
  <2>3. QED
    BY <2>1, <2>2
<1>8. CASE LinkFound \/ CreateLink
  <2>1. /\ pc = "link" /\ Linked
        /\ link'[n] = Target(n) /\ \A d \in Drive : d # n => link'[d] = link[d]
        /\ UNCHANGED <<at, mount, drvFile, vs, loading>>
    BY <1>8, <1>number DEF LinkFound, CreateLink, outside, disk
  <2>2. QED
    BY <2>1, <1>7
<1>9. CASE RemoveOldLink
  BY <1>9 DEF RemoveOldLink, LoadedInv, AtWork, JustLoaded, Target, outside, memory
<1>10. CASE LinkFails
  <2>1. CASE loading
    BY <1>10, <2>1, <1>exit DEF LinkFails
  <2>2. CASE ~loading
    <3>1. /\ pc = "link" /\ NextDrive /\ vs' = [vs EXCEPT ![n] = NoSlot] /\ ~loading'
          /\ UNCHANGED <<at, mount, drvFile, link>>
      BY <1>10, <2>2 DEF LinkFails, outside, disk
    <3>2. PICK k \in Drive : k = n
      BY <1>number
    <3>3. QED
      BY <2>2, <3>1, <3>2, LoadedOrLeft
  <2>3. QED
    BY <2>1, <2>2
<1>11. CASE SaveLoaded
  <2>1. /\ pc = "save" /\ pc' = "done" /\ link[n] = Target(n)
        /\ loading
        /\ \/ drvFile' = [drvFile EXCEPT ![n] = at[vs[n]]]
           \/ drvFile' = [drvFile EXCEPT ![n] = Empty]
        /\ UNCHANGED <<at, mount, link, n, vs, loading>>
    BY <1>11 DEF SaveLoaded, LoadedInv, outside
  <2>2. QED
    BY <1>number, <2>1 DEF LoadedInv, AtWork, JustLoaded, Target
<1>12. CASE SaveFails \/ CrashInSave \/ Finish \/ Crash
  BY <1>12, <1>exit DEF SaveFails, CrashInSave, Finish, Crash
<1>13. CASE DeleteState
  <2>1. /\ pc = "unload" /\ pc' = "done" /\ vs[n] = NoSlot
        /\ \A d \in Drive : d # n => drvFile'[d] = drvFile[d]
        /\ UNCHANGED <<at, mount, link, n, vs, loading>>
    BY <1>13 DEF DeleteState, TryDeleteState, LoadedInv, outside
  <2>2. QED
    BY <2>1 DEF LoadedInv, AtWork, JustLoaded, Target
<1>14. ASSUME NEW d \in Drive, NEW s \in 1 .. Slots + 1,
              RefuseLoad(d, s) \/ LoadAgain(d, s) \/ Load(d, s)
       PROVE  LoadedInv'
  <2>1. CASE RefuseLoad(d, s)
    BY <2>1, <1>exit DEF RefuseLoad
  <2>2. CASE LoadAgain(d, s)
    BY <2>2 DEF LoadAgain, LoadedInv, AtWork, JustLoaded, Target, outside, disk
  <2>3. CASE Load(d, s)
    <3>1. /\ pc = "ready" /\ pc' = "link" /\ n' = d /\ loading'
          /\ \A e \in Drive : e # d => vs'[e] = vs[e]
          /\ UNCHANGED <<at, mount, drvFile, link>>
      BY <2>3 DEF Load, outside, disk
    <3>2. QED
      BY <3>1 DEF LoadedInv, AtWork, JustLoaded, Target
  <2>4. QED
    BY <1>14, <2>1, <2>2, <2>3
<1>15. ASSUME NEW d \in Drive, UnloadEmpty(d) \/ Unload(d) \/ UnloadFails(d)
       PROVE  LoadedInv'
  <2>1. CASE UnloadEmpty(d)
    BY <2>1 DEF UnloadEmpty, LoadedInv, AtWork, JustLoaded, Target, outside, disk
  <2>2. CASE Unload(d)
    <3>1. /\ pc = "ready" /\ pc' = "unload" /\ n' = d /\ ~loading /\ ~loading'
          /\ vs'[d] = NoSlot /\ link'[d] = NoLink
          /\ \A e \in Drive : e # d => vs'[e] = vs[e] /\ link'[e] = link[e]
          /\ UNCHANGED <<at, mount, drvFile>>
      BY <2>2 DEF Unload, LoadedInv, outside
    <3>2. QED
      BY <3>1 DEF LoadedInv, AtWork, JustLoaded, Target
  <2>3. CASE UnloadFails(d)
    BY <2>3, <1>exit DEF UnloadFails
  <2>4. QED
    BY <1>15, <2>1, <2>2, <2>3
<1>16. QED
  BY <1>1, <1>2, <1>3, <1>4, <1>5, <1>6, <1>8, <1>9, <1>10, <1>11, <1>12, <1>13, <1>14, <1>15
  DEF Next, Initialize, Linking, Saving

LEMMA LoadedAlways ==
  ASSUME DistinctNames
  PROVE  Spec => [](TypeInv /\ LoadedInv)
<1>1. Init => TypeInv /\ LoadedInv
  BY TypeInit DEF Init, LoadedInv
<1>2. (TypeInv /\ LoadedInv) /\ [Next]_vars => (TypeInv /\ LoadedInv)'
  BY TypeNext, LoadedNext
<1>3. QED
  BY <1>1, <1>2, PTL DEF Spec

(* A drive the changer believes loaded is loaded, whatever was killed and  *)
(* whichever file operations failed, if no two magazines have a volume of  *)
(* the same name; but for the state file of the drive just loaded, which   *)
(* fclose() may have left empty.                                           *)
THEOREM LoadedAgreeAlways ==
  ASSUME DistinctNames
  PROVE  Spec => []LoadedDrivesAgree
<1>1. TypeInv /\ LoadedInv => LoadedDrivesAgree
  <2>1. drives \in 0 .. Drives => \A d \in 0 .. drives - 1 : d \in Drive
    BY DrivesAssumption DEF Drive
  <2>2. QED
    BY <2>1 DEF TypeInv, TypeOK, LoadedInv, LoadedDrivesAgree, Settled, AtWork
<1>2. QED
  BY LoadedAlways, <1>1, PTL

(* On the same condition the symlink and the state file of a loaded drive  *)
(* are left alone by every other command and by every restore, whatever    *)
(* else fails, except a restore that could not stat() or read that file.   *)
THEOREM LinkStaysHolds ==
  ASSUME DistinctNames
  PROVE  Spec => LinkStaysWithItsDrive
<1> DEFINE Stays == \A d \in Drive :
                       LoadedFromHere(d) /\ Touched(d) =>
                          \/ pc = "ready" /\ n' = d
                          \/ loading /\ n = d
                          \/ CouldNotRead(d)
<1>1. ASSUME TypeInv, LoadedInv, [Next]_vars, NEW d \in Drive,
             LoadedFromHere(d), Touched(d)
      PROVE  (pc = "ready" /\ n' = d) \/ (loading /\ n = d) \/ CouldNotRead(d)
  <2> USE DEF TypeInv, TypeOK, Touched
  <2>1. PICK s \in Slot : at[s] = drvFile[d] /\ at[s] \in Volume
    BY <1>1, NothingAssumption DEF LoadedFromHere
  <2>2. /\ link[d] = [volume |-> drvFile[d], mount |-> mount[drvFile[d]]]
        /\ link[d] # NoLink
    <3>1. [volume |-> drvFile[d], mount |-> mount[drvFile[d]]] \in Path
      BY <1>1, <2>1 DEF Path
    <3>2. QED
      BY <1>1, <3>1, NoLinkAssumption DEF LoadedFromHere, Path
  <2>3. SlotsWithLabel(d) # {} /\ drvFile[d] # NoVolume
    BY <2>1, NothingAssumption DEF SlotsWithLabel
  <2>4. CASE RestoreUnloaded \/ RestoreGone \/ ForgetLink
    <3>1. d = n
      BY <1>1, <2>4 DEF RestoreUnloaded, RestoreGone, ForgetLink, TryRemoveLink, TryDeleteState
    <3>2. drvFile[n] = NoVolume \/ SlotsWithLabel(n) = {}
      BY <1>1, <2>4 DEF RestoreUnloaded, RestoreGone, ForgetLink, HasStateFile, LoadedInv
    <3>3. QED
      BY <2>3, <3>1, <3>2
  <2>5. CASE RestoreUnread \/ ForgetUnread
    BY <1>1, <2>5 DEF RestoreUnread, ForgetUnread, TryRemoveLink, TryDeleteState, CouldNotRead
  <2>6. CASE RemoveOldLink \/ CreateLink
    <3>1. pc = "link" /\ d = n /\ link[n] # Target(n)
      BY <1>1, <2>2, <2>6 DEF RemoveOldLink, CreateLink
    <3>2. CASE ~loading
      BY <1>1, <2>2, <3>1, <3>2 DEF LoadedInv, Target
    <3>3. QED
      BY <3>1, <3>2
  <2>7. CASE SaveLoaded \/ SaveFails \/ CrashInSave
    BY <1>1, <2>7 DEF SaveLoaded, SaveFails, CrashInSave, TryRemoveLink, LoadedInv, Exit
  <2>8. CASE \E e \in Drive : Unload(e)
    BY <1>1, <2>8 DEF Unload
  <2>9. CASE DeleteState
    <3>1. d = n /\ pc = "unload"
      BY <1>1, <2>9 DEF DeleteState, TryDeleteState
    <3>2. QED
      BY <1>1, <2>2, <3>1 DEF LoadedInv
  <2>10. CASE \/ UNCHANGED vars \/ Remap \/ Begin \/ RestoreUnreadable
              \/ RestoreLoaded \/ LinkFound \/ LinkFails \/ Finish \/ Crash
    BY <1>1, <2>10 DEF vars, disk, Remap, Begin, RestoreUnreadable, RestoreLoaded,
       LinkFound, LinkFails, Finish, Crash
  <2>11. CASE \E e \in Drive, t \in 1 .. Slots + 1 :
                RefuseLoad(e, t) \/ LoadAgain(e, t) \/ Load(e, t)
    BY <1>1, <2>11 DEF RefuseLoad, LoadAgain, Load, disk
  <2>12. CASE \E e \in Drive : UnloadEmpty(e) \/ UnloadFails(e)
    BY <1>1, <2>12 DEF UnloadEmpty, UnloadFails, disk
  <2>13. QED
    BY <1>1, <2>4, <2>5, <2>6, <2>7, <2>8, <2>9, <2>10, <2>11, <2>12
    DEF Next, Initialize, Linking, Saving
<1>2. TypeInv /\ LoadedInv /\ [Next]_vars => [Stays]_vars
  BY <1>1
<1>3. QED
  BY LoadedAlways, <1>2, PTL DEF Spec, LinkStaysWithItsDrive
=============================================================================
