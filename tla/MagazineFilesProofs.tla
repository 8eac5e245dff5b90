------------------------- MODULE MagazineFilesProofs ------------------------
(***************************************************************************)
(* Proofs about MagazineFiles, for any number of old drives, any names and *)
(* every fault.                                                            *)
(*                                                                         *)
(* While a driveN and its loadedN are there, nothing else has that name    *)
(* (NamesApart): the name belongs to the volume in the drive alone, since  *)
(* volumes are created only after all loadedN are gone; unless one could   *)
(* not be deleted, and then it is a created volume that has the name.  And *)
(* a driveN that is still there after a pass of renames is one whose       *)
(* rename failed (LeftBehind).  Last, CREATEVOLS starts at or after every  *)
(* number in its reach (StartIsAhead).                                     *)
(***************************************************************************)
EXTENDS MagazineFiles, FiniteSetTheorems, TLAPS

Opened == {"list", "mounted", "create"}    \* the conversion is over

DriveHoldsItsName ==
    \A d \in Drive : Present(drive[d]) =>
        /\ \E n \in Number : drive[d] = Old(n)
        /\ loaded[d] # NoName => drive[d] = Old(loaded[d])

VolumeHasItsName ==
    \A m, n \in Number : volume[m] = Old(n) => m = n

NamesApart ==
    \A d \in Drive : Present(drive[d]) /\ loaded[d] # NoName =>
        /\ Present(volume[loaded[d]]) =>
               /\ \E k \in 1..MaxCreated : volume[loaded[d]] = New(k)
               /\ d \in kept /\ drive[d] \in failed
        /\ \A c \in Drive : Present(drive[c]) /\ loaded[c] = loaded[d] => c = d

NoLoadedLeft ==
    /\ ~index \/ pc \in Opened => \A d \in Drive : loaded[d] = NoName \/ d \in kept
    /\ pc = "delete" => \A d \in seen : loaded[d] = NoName \/ d \in kept

LeftBehind ==
    /\ pc = "rename" => \A d \in seen : Present(drive[d]) => drive[d] \in failed
    /\ ~index \/ pc \in Opened \cup {"delete"} =>
           \A d \in Drive : Present(drive[d]) => drive[d] \in failed

SlotsAreVolumes == pc \in {"mounted", "create"} => slots = Volumes

StartIsAhead ==
    pc = "create" => \A m \in slots : m <= reach => m <= start

FilesInv ==
    /\ TypeOK
    /\ DriveHoldsItsName /\ VolumeHasItsName /\ NamesApart
    /\ NoLoadedLeft /\ LeftBehind /\ SlotsAreVolumes /\ StartIsAhead

-----------------------------------------------------------------------------
(* What a file holds: nothing, an old volume, or a created one.            *)
LEMMA ContentsDiffer ==
    /\ \A n \in Number : Old(n) \in Contents /\ Old(n) # NoFile
    /\ \A k \in 1..MaxCreated : New(k) \in Contents
    /\ \A k \in Nat \ {0} : New(k) # NoFile
    /\ \A m, n : Old(m) = Old(n) => m = n
    /\ \A m, k : Old(m) # New(k)
<1>1. \A n \in Number : Old(n) \in Contents
  BY DEF Contents
<1>2. \A k \in 1..MaxCreated : New(k) \in Contents
  BY DEF Contents
<1>3. \A n : Old(n) # NoFile
  BY DEF Old, NoFile
<1>4. \A k \in Nat \ {0} : New(k) # NoFile
  BY DEF New, NoFile
<1>5. \A m, n : Old(m) = Old(n) => m = n
  BY DEF Old
<1>6. \A m, k : Old(m) # New(k)
  BY DEF Old, New
<1> QED
  BY <1>1, <1>2, <1>3, <1>4, <1>5, <1>6

(* A magazine has finitely many files.                                     *)
LEMMA FilesAreCounted ==
    /\ Cardinality(Volumes) \in Nat
    /\ Cardinality(Strays) \in Nat /\ Cardinality(Leftovers) \in Nat
<1>1. IsFiniteSet(Number)
  BY BoundsAssumption, FS_Interval DEF Number
<1>2. Volumes \subseteq Number /\ Strays \subseteq Drive /\ Leftovers \subseteq Drive
  BY DEF Volumes, Strays, Leftovers
<1>3. IsFiniteSet(Volumes) /\ IsFiniteSet(Strays) /\ IsFiniteSet(Leftovers)
  BY <1>1, <1>2, DriveAssumption, FS_Subset
<1> QED
  BY <1>3, FS_CardinalityType

(* Every step keeps the variables in their domains.                        *)
LEMMA TypeStep == FilesInv /\ [Next]_vars => TypeOK'
<1> SUFFICES ASSUME FilesInv, [Next]_vars PROVE TypeOK'
  OBVIOUS
<1> USE BoundsAssumption DEF FilesInv, TypeOK, Number, NoName, GoTo, files, process,
    history
<1>1. CASE Mount
  BY <1>1, SMTT(30) DEF Mount
<1>2. CASE EndRenames
  BY <1>2, SMTT(30) DEF EndRenames, EndPass
<1>3. CASE DeleteIndex
  <2>1. index' \in BOOLEAN
    BY <1>3, Zenon DEF DeleteIndex
  <2>2. UNCHANGED <<drive, loaded, volume, slots, numSlots, left, start, history>>
        /\ pc' = "list" /\ seen' = {}
    BY <1>3 DEF DeleteIndex, EndPass
  <2> QED
    BY <2>1, <2>2
<1>4. CASE List
  <2>1. numSlots' \in Nat
    BY <1>4, FilesAreCounted, SMTT(30) DEF List
  <2>2. slots' \subseteq Number
    BY <1>4 DEF List, Volumes
  <2> QED
    BY <1>4, <2>1, <2>2, SMTT(30) DEF List
<1>5. CASE CreateVolumes
  BY <1>5, SMTT(30) DEF CreateVolumes
<1>6. CASE CreateVolume
  <2>1. PICK n \in Number :
           /\ volume' = [volume EXCEPT ![n] = New(created + 1)]
           /\ slots' = slots \cup {n}
           /\ start' = n + 1
    BY <1>6 DEF CreateVolume
  <2>2. created + 1 \in 1..MaxCreated
    BY <1>6, SMTT(30) DEF CreateVolume
  <2>3. volume' \in [Number -> Contents \cup {NoFile}]
    BY <2>1, <2>2, ContentsDiffer
  <2>4. slots' \in SUBSET Number /\ start' \in 0..MaxNumber + 1
    BY <2>1, SMTT(30)
  <2>5. /\ created' \in 0..MaxCreated /\ left' \in 0..MaxCount
        /\ numSlots' \in Nat
    BY <1>6, <2>2, SMTT(30) DEF CreateVolume, Creating
  <2> QED
    BY <1>6, <2>3, <2>4, <2>5 DEF CreateVolume
<1>7. CASE CreateFails
  BY <1>7, SMTT(30) DEF CreateFails, Creating
<1>8. CASE Exit
  BY <1>8, SMTT(30) DEF Exit, Forget
<1>9. CASE Crash
  BY <1>9, SMTT(30) DEF Crash, Forget
<1>10. ASSUME NEW d \in Drive, Rename(d) PROVE TypeOK'
  BY <1>10, SMTT(30) DEF Rename, Come
<1>11. ASSUME NEW d \in Drive, KeepDrive(d) PROVE TypeOK'
  <2>1. drive[d] \in Contents
    BY <1>11 DEF KeepDrive, Come, Present
  <2> QED
    BY <1>11, <2>1, SMTT(30) DEF KeepDrive, Come
<1>12. ASSUME NEW d \in Drive, DeleteLoaded(d) PROVE TypeOK'
  BY <1>12, SMTT(30) DEF DeleteLoaded
<1>13. CASE UNCHANGED vars
  BY <1>13, SMTT(30) DEF vars
<1>14. CASE MountUnconverted
  <2>1. \A d \in Strays : drive[d] \in Contents
    BY DEF Strays, Present
  <2>2. failed' \in SUBSET Contents
    BY <1>14, <2>1 DEF MountUnconverted
  <2> QED
    BY <1>14, <2>2 DEF MountUnconverted
<1>15. ASSUME NEW d \in Drive, DeleteLoadedFails(d) PROVE TypeOK'
  BY <1>15, SMTT(30) DEF DeleteLoadedFails
<1> QED
  BY <1>1, <1>2, <1>3, <1>4, <1>5, <1>6, <1>7, <1>8, <1>9, <1>10, <1>11, <1>12, <1>13,
     <1>14, <1>15 DEF Next

(* What a driveN holds is the volume that loadedN names.                   *)
LEMMA DriveStep == FilesInv /\ [Next]_vars => DriveHoldsItsName'
<1> SUFFICES ASSUME FilesInv, [Next]_vars PROVE DriveHoldsItsName'
  OBVIOUS
<1> USE BoundsAssumption, ContentsDiffer DEF FilesInv, TypeOK, DriveHoldsItsName,
    Present, GoTo, files, process, history
<1>1. CASE Mount
  BY <1>1, SMTT(30) DEF Mount
<1>2. CASE EndRenames
  BY <1>2, SMTT(30) DEF EndRenames, EndPass
<1>3. CASE DeleteIndex
  BY <1>3, SMTT(30) DEF DeleteIndex, EndPass
<1>4. CASE List
  BY <1>4, SMTT(30) DEF List
<1>5. CASE CreateVolumes
  BY <1>5, SMTT(30) DEF CreateVolumes
<1>6. CASE CreateVolume
  BY <1>6, SMTT(30) DEF CreateVolume, Creating
<1>7. CASE CreateFails
  BY <1>7, SMTT(30) DEF CreateFails, Creating
<1>8. CASE Exit
  BY <1>8, SMTT(30) DEF Exit, Forget
<1>9. CASE Crash
  BY <1>9, SMTT(30) DEF Crash, Forget
<1>10. ASSUME NEW d \in Drive, Rename(d) PROVE DriveHoldsItsName'
  BY <1>10, SMTT(30) DEF Rename, Come
<1>11. ASSUME NEW d \in Drive, KeepDrive(d) PROVE DriveHoldsItsName'
  BY <1>11, SMTT(30) DEF KeepDrive, Come
<1>12. ASSUME NEW d \in Drive, DeleteLoaded(d) PROVE DriveHoldsItsName'
  BY <1>12, SMTT(30) DEF DeleteLoaded
<1>13. CASE UNCHANGED vars
  BY <1>13, SMTT(30) DEF vars
<1>14. CASE MountUnconverted
  BY <1>14, SMTT(30) DEF MountUnconverted
<1>15. ASSUME NEW d \in Drive, DeleteLoadedFails(d) PROVE DriveHoldsItsName'
  BY <1>15, SMTT(30) DEF DeleteLoadedFails
<1> QED
  BY <1>1, <1>2, <1>3, <1>4, <1>5, <1>6, <1>7, <1>8, <1>9, <1>10, <1>11, <1>12, <1>13,
     <1>14, <1>15 DEF Next

(* No old volume gets another volume's name.                               *)
LEMMA VolumeStep == FilesInv /\ [Next]_vars => VolumeHasItsName'
<1> SUFFICES ASSUME FilesInv, [Next]_vars PROVE VolumeHasItsName'
  OBVIOUS
<1> USE BoundsAssumption, ContentsDiffer DEF FilesInv, TypeOK, DriveHoldsItsName,
    VolumeHasItsName, Present, Number, NoName, GoTo, files, process, history
<1>1. CASE Mount
  BY <1>1, SMTT(30) DEF Mount
<1>2. CASE EndRenames
  BY <1>2, SMTT(30) DEF EndRenames, EndPass
<1>3. CASE DeleteIndex
  BY <1>3, SMTT(30) DEF DeleteIndex, EndPass
<1>4. CASE List
  BY <1>4, SMTT(30) DEF List
<1>5. CASE CreateVolumes
  BY <1>5, SMTT(30) DEF CreateVolumes
<1>6. CASE CreateVolume
  BY <1>6, SMTT(30) DEF CreateVolume, Creating
<1>7. CASE CreateFails
  BY <1>7, SMTT(30) DEF CreateFails, Creating
<1>8. CASE Exit
  BY <1>8, SMTT(30) DEF Exit, Forget
<1>9. CASE Crash
  BY <1>9, SMTT(30) DEF Crash, Forget
<1>10. ASSUME NEW d \in Drive, Rename(d) PROVE VolumeHasItsName'
  BY <1>10, SMTT(30) DEF Rename, Come
<1>11. ASSUME NEW d \in Drive, KeepDrive(d) PROVE VolumeHasItsName'
  BY <1>11, SMTT(30) DEF KeepDrive, Come
<1>12. ASSUME NEW d \in Drive, DeleteLoaded(d) PROVE VolumeHasItsName'
  BY <1>12, SMTT(30) DEF DeleteLoaded
<1>13. CASE UNCHANGED vars
  BY <1>13, SMTT(30) DEF vars
<1>14. CASE MountUnconverted
  BY <1>14, SMTT(30) DEF MountUnconverted
<1>15. ASSUME NEW d \in Drive, DeleteLoadedFails(d) PROVE VolumeHasItsName'
  BY <1>15, SMTT(30) DEF DeleteLoadedFails
<1> QED
  BY <1>1, <1>2, <1>3, <1>4, <1>5, <1>6, <1>7, <1>8, <1>9, <1>10, <1>11, <1>12, <1>13,
     <1>14, <1>15 DEF Next

(* The name in a loadedN stays free until its driveN gets it.              *)
LEMMA ApartStep == FilesInv /\ [Next]_vars => NamesApart'
<1> SUFFICES ASSUME FilesInv, [Next]_vars PROVE NamesApart'
  OBVIOUS
<1> USE BoundsAssumption, ContentsDiffer DEF FilesInv, TypeOK, NamesApart,
    NoLoadedLeft, Opened, Present, Number, NoName, GoTo, files, process, history
<1>1. CASE Mount
  BY <1>1, SMTT(30) DEF Mount
<1>2. CASE EndRenames
  BY <1>2, SMTT(30) DEF EndRenames, EndPass
<1>3. CASE DeleteIndex
  BY <1>3, SMTT(30) DEF DeleteIndex, EndPass
<1>4. CASE List
  BY <1>4, SMTT(30) DEF List
<1>5. CASE CreateVolumes
  BY <1>5, SMTT(30) DEF CreateVolumes
<1>6. CASE CreateVolume
  <2>1. UNCHANGED <<drive, loaded, kept, failed>> /\ pc = "create"
    BY <1>6 DEF CreateVolume, Creating
  <2>2. PICK n \in Number : volume' = [volume EXCEPT ![n] = New(created + 1)]
    BY <1>6 DEF CreateVolume
  <2>3. created + 1 \in 1..MaxCreated
    BY <1>6, SMTT(30) DEF CreateVolume
  <2>4. volume'[n] = New(created + 1) /\ \A m \in Number : m # n => volume'[m] = volume[m]
    BY <2>2
  <2>5. \A d \in Drive :
            Present(drive[d]) /\ loaded[d] # NoName => d \in kept /\ drive[d] \in failed
    BY <2>1 DEF LeftBehind
  <2> HIDE DEF Number, NoName
  <2>6. ASSUME NEW d \in Drive, Present(drive[d]), loaded[d] # NoName,
               Present(volume'[loaded[d]])
        PROVE  \E k \in 1..MaxCreated : volume'[loaded[d]] = New(k)
    <3>1. CASE loaded[d] = n
      BY <2>3, <2>4, <3>1
    <3>2. CASE loaded[d] # n
      BY <2>4, <2>6, <3>2
    <3> QED
      BY <3>1, <3>2
  <2> QED
    BY <2>1, <2>5, <2>6
<1>7. CASE CreateFails
  BY <1>7, SMTT(30) DEF CreateFails, Creating
<1>8. CASE Exit
  BY <1>8, SMTT(30) DEF Exit, Forget
<1>9. CASE Crash
  BY <1>9, SMTT(30) DEF Crash, Forget
<1>10. ASSUME NEW d \in Drive, Rename(d) PROVE NamesApart'
  BY <1>10, SMTT(30) DEF Rename, Come
<1>11. ASSUME NEW d \in Drive, KeepDrive(d) PROVE NamesApart'
  BY <1>11, SMTT(30) DEF KeepDrive, Come
<1>12. ASSUME NEW d \in Drive, DeleteLoaded(d) PROVE NamesApart'
  BY <1>12, SMTT(30) DEF DeleteLoaded
<1>13. CASE UNCHANGED vars
  BY <1>13, SMTT(30) DEF vars
<1>14. CASE MountUnconverted
  BY <1>14, SMTT(30) DEF MountUnconverted, Strays
<1>15. ASSUME NEW d \in Drive, DeleteLoadedFails(d) PROVE NamesApart'
  BY <1>15, SMTT(30) DEF DeleteLoadedFails
<1> QED
  BY <1>1, <1>2, <1>3, <1>4, <1>5, <1>6, <1>7, <1>8, <1>9, <1>10, <1>11, <1>12, <1>13,
     <1>14, <1>15 DEF Next

(* A magazine without index has no loadedN but those that were kept.       *)
LEMMA LoadedStep == FilesInv /\ [Next]_vars => NoLoadedLeft'
<1> SUFFICES ASSUME FilesInv, [Next]_vars PROVE NoLoadedLeft'
  OBVIOUS
<1> USE DEF FilesInv, TypeOK, NoLoadedLeft, Opened, GoTo, files, process, history
<1>1. CASE Mount
  BY <1>1, SMTT(30) DEF Mount
<1>2. CASE EndRenames
  BY <1>2, SMTT(30) DEF EndRenames, EndPass
<1>3. CASE DeleteIndex
  BY <1>3, SMTT(30) DEF DeleteIndex, EndPass
<1>4. CASE List
  BY <1>4, SMTT(30) DEF List
<1>5. CASE CreateVolumes
  BY <1>5, SMTT(30) DEF CreateVolumes
<1>6. CASE CreateVolume
  BY <1>6, SMTT(30) DEF CreateVolume, Creating
<1>7. CASE CreateFails
  BY <1>7, SMTT(30) DEF CreateFails, Creating
<1>8. CASE Exit
  BY <1>8, SMTT(30) DEF Exit, Forget
<1>9. CASE Crash
  BY <1>9, SMTT(30) DEF Crash, Forget
<1>10. ASSUME NEW d \in Drive, Rename(d) PROVE NoLoadedLeft'
  BY <1>10, SMTT(30) DEF Rename, Come
<1>11. ASSUME NEW d \in Drive, KeepDrive(d) PROVE NoLoadedLeft'
  BY <1>11, SMTT(30) DEF KeepDrive, Come
<1>12. ASSUME NEW d \in Drive, DeleteLoaded(d) PROVE NoLoadedLeft'
  BY <1>12, SMTT(30) DEF DeleteLoaded
<1>13. CASE UNCHANGED vars
  BY <1>13, SMTT(30) DEF vars
<1>14. CASE MountUnconverted
  BY <1>14, SMTT(30) DEF MountUnconverted
<1>15. ASSUME NEW d \in Drive, DeleteLoadedFails(d) PROVE NoLoadedLeft'
  BY <1>15, SMTT(30) DEF DeleteLoadedFails
<1> QED
  BY <1>1, <1>2, <1>3, <1>4, <1>5, <1>6, <1>7, <1>8, <1>9, <1>10, <1>11, <1>12, <1>13,
     <1>14, <1>15 DEF Next

(* What a pass of renames leaves behind has failed.                        *)
LEMMA LeftStep == FilesInv /\ [Next]_vars => LeftBehind'
<1> SUFFICES ASSUME FilesInv, [Next]_vars PROVE LeftBehind'
  OBVIOUS
<1> USE DEF FilesInv, TypeOK, LeftBehind, Opened, Present, AllCome, GoTo, files,
    process, history
<1>1. CASE Mount
  BY <1>1, SMTT(30) DEF Mount
<1>2. CASE EndRenames
  BY <1>2, SMTT(30) DEF EndRenames, EndPass
<1>3. CASE DeleteIndex
  BY <1>3, SMTT(30) DEF DeleteIndex, EndPass
<1>4. CASE List
  BY <1>4, SMTT(30) DEF List
<1>5. CASE CreateVolumes
  BY <1>5, SMTT(30) DEF CreateVolumes
<1>6. CASE CreateVolume
  BY <1>6, SMTT(30) DEF CreateVolume, Creating
<1>7. CASE CreateFails
  BY <1>7, SMTT(30) DEF CreateFails, Creating
<1>8. CASE Exit
  BY <1>8, SMTT(30) DEF Exit, Forget
<1>9. CASE Crash
  BY <1>9, SMTT(30) DEF Crash, Forget
<1>10. ASSUME NEW d \in Drive, Rename(d) PROVE LeftBehind'
  BY <1>10, SMTT(30) DEF Rename, Come
<1>11. ASSUME NEW d \in Drive, KeepDrive(d) PROVE LeftBehind'
  BY <1>11, SMTT(30) DEF KeepDrive, Come
<1>12. ASSUME NEW d \in Drive, DeleteLoaded(d) PROVE LeftBehind'
  BY <1>12, SMTT(30) DEF DeleteLoaded
<1>13. CASE UNCHANGED vars
  BY <1>13, SMTT(30) DEF vars
<1>14. CASE MountUnconverted
  BY <1>14, SMTT(30) DEF MountUnconverted, Strays
<1>15. ASSUME NEW d \in Drive, DeleteLoadedFails(d) PROVE LeftBehind'
  BY <1>15, SMTT(30) DEF DeleteLoadedFails
<1> QED
  BY <1>1, <1>2, <1>3, <1>4, <1>5, <1>6, <1>7, <1>8, <1>9, <1>10, <1>11, <1>12, <1>13,
     <1>14, <1>15 DEF Next

(* The slots are the volumes that are there.                               *)
LEMMA SlotsStep == FilesInv /\ [Next]_vars => SlotsAreVolumes'
<1> SUFFICES ASSUME FilesInv, [Next]_vars PROVE SlotsAreVolumes'
  OBVIOUS
<1> USE BoundsAssumption, ContentsDiffer DEF FilesInv, TypeOK, SlotsAreVolumes,
    Volumes, Present, Number, GoTo, files, process, history
<1>1. CASE Mount
  BY <1>1, SMTT(30) DEF Mount
<1>2. CASE EndRenames
  BY <1>2, SMTT(30) DEF EndRenames, EndPass
<1>3. CASE DeleteIndex
  BY <1>3, SMTT(30) DEF DeleteIndex, EndPass
<1>4. CASE List
  BY <1>4, SMTT(30) DEF List
<1>5. CASE CreateVolumes
  BY <1>5, SMTT(30) DEF CreateVolumes
<1>6. CASE CreateVolume
  BY <1>6, SMTT(30) DEF CreateVolume, Creating
<1>7. CASE CreateFails
  BY <1>7, SMTT(30) DEF CreateFails, Creating
<1>8. CASE Exit
  BY <1>8, SMTT(30) DEF Exit, Forget
<1>9. CASE Crash
  BY <1>9, SMTT(30) DEF Crash, Forget
<1>10. ASSUME NEW d \in Drive, Rename(d) PROVE SlotsAreVolumes'
  BY <1>10, SMTT(30) DEF Rename, Come
<1>11. ASSUME NEW d \in Drive, KeepDrive(d) PROVE SlotsAreVolumes'
  BY <1>11, SMTT(30) DEF KeepDrive, Come
<1>12. ASSUME NEW d \in Drive, DeleteLoaded(d) PROVE SlotsAreVolumes'
  BY <1>12, SMTT(30) DEF DeleteLoaded
<1>13. CASE UNCHANGED vars
  BY <1>13, SMTT(30) DEF vars
<1>14. CASE MountUnconverted
  BY <1>14, SMTT(30) DEF MountUnconverted
<1>15. ASSUME NEW d \in Drive, DeleteLoadedFails(d) PROVE SlotsAreVolumes'
  BY <1>15, SMTT(30) DEF DeleteLoadedFails
<1> QED
  BY <1>1, <1>2, <1>3, <1>4, <1>5, <1>6, <1>7, <1>8, <1>9, <1>10, <1>11, <1>12, <1>13,
     <1>14, <1>15 DEF Next

(* CREATEVOLS has passed all numbers in its reach.                         *)
LEMMA AheadStep == FilesInv /\ [Next]_vars => StartIsAhead'
<1> SUFFICES ASSUME FilesInv, [Next]_vars PROVE StartIsAhead'
  OBVIOUS
<1> USE BoundsAssumption DEF FilesInv, TypeOK, StartIsAhead, Number, GoTo, files,
    process, history
<1>1. CASE Mount
  BY <1>1, SMTT(30) DEF Mount
<1>2. CASE EndRenames
  BY <1>2, SMTT(30) DEF EndRenames, EndPass
<1>3. CASE DeleteIndex
  BY <1>3, SMTT(30) DEF DeleteIndex, EndPass
<1>4. CASE List
  BY <1>4, SMTT(30) DEF List
<1>5. CASE CreateVolumes
  BY <1>5, SMTT(30) DEF CreateVolumes, HighestInReach, InReach, UpTo
<1>6. CASE CreateVolume
  BY <1>6, SMTT(30) DEF CreateVolume, NextNumber
<1>7. CASE CreateFails
  BY <1>7, SMTT(30) DEF CreateFails, Creating
<1>8. CASE Exit
  BY <1>8, SMTT(30) DEF Exit, Forget
<1>9. CASE Crash
  BY <1>9, SMTT(30) DEF Crash, Forget
<1>10. ASSUME NEW d \in Drive, Rename(d) PROVE StartIsAhead'
  BY <1>10, SMTT(30) DEF Rename, Come
<1>11. ASSUME NEW d \in Drive, KeepDrive(d) PROVE StartIsAhead'
  BY <1>11, SMTT(30) DEF KeepDrive, Come
<1>12. ASSUME NEW d \in Drive, DeleteLoaded(d) PROVE StartIsAhead'
  BY <1>12, SMTT(30) DEF DeleteLoaded
<1>13. CASE UNCHANGED vars
  BY <1>13, SMTT(30) DEF vars
<1>14. CASE MountUnconverted
  BY <1>14, SMTT(30) DEF MountUnconverted
<1>15. ASSUME NEW d \in Drive, DeleteLoadedFails(d) PROVE StartIsAhead'
  BY <1>15, SMTT(30) DEF DeleteLoadedFails
<1> QED
  BY <1>1, <1>2, <1>3, <1>4, <1>5, <1>6, <1>7, <1>8, <1>9, <1>10, <1>11, <1>12, <1>13,
     <1>14, <1>15 DEF Next

(* A magazine the old version left satisfies the invariant.                *)
LEMMA FilesInit == Init => FilesInv
<1> SUFFICES ASSUME Init PROVE FilesInv
  OBVIOUS
<1> USE BoundsAssumption, ContentsDiffer
<1>1. PICK in \in SUBSET Number, where \in [Drive -> Number \cup {NoName}],
           lost \in SUBSET Drive :
        /\ index = (\E d \in Drive : where[d] # NoName)
        /\ \A c, d \in Drive : where[c] = where[d] /\ where[c] # NoName => c = d
        /\ \A d \in Drive : where[d] \notin in
        /\ drive = [d \in Drive |->
                        IF where[d] = NoName THEN NoFile ELSE Old(where[d])]
        /\ volume = [n \in Number |-> IF n \in in THEN Old(n) ELSE NoFile]
        /\ loaded = [d \in Drive |-> IF d \in lost THEN NoName ELSE where[d]]
        /\ failed = {drive[d] : d \in lost} \ {NoFile}
  BY Zenon DEF Init
<1>2. /\ pc = "idle" /\ seen = {} /\ slots = {} /\ numSlots = 0
      /\ left = 0 /\ start = 0 /\ created = 0 /\ kept = {} /\ reach = 0
  BY DEF Init
<1>3. TypeOK
  <2>1. drive \in [Drive -> Contents \cup {NoFile}]
    BY <1>1
  <2>2. volume \in [Number -> Contents \cup {NoFile}]
    BY <1>1
  <2>3. loaded \in [Drive -> Number \cup {NoName}]
    BY <1>1
  <2>4. failed \in SUBSET Contents
    BY <1>1, <2>1
  <2>5. index \in BOOLEAN
    BY <1>1
  <2> QED
    BY <1>2, <2>1, <2>2, <2>3, <2>4, <2>5, SMTT(30) DEF TypeOK
<1>4. DriveHoldsItsName
  BY <1>1 DEF DriveHoldsItsName, Present
<1>5. VolumeHasItsName
  BY <1>1 DEF VolumeHasItsName
<1>6. NamesApart
  BY <1>1 DEF NamesApart, Present
<1>7. NoLoadedLeft
  BY <1>1, <1>2 DEF NoLoadedLeft, Opened
<1>8. LeftBehind
  BY <1>1, <1>2 DEF LeftBehind, Opened, Present
<1> QED
  BY <1>2, <1>3, <1>4, <1>5, <1>6, <1>7, <1>8
     DEF FilesInv, SlotsAreVolumes, StartIsAhead

(* The invariant holds in every state of every behaviour.                  *)
LEMMA Invariant == Spec => []FilesInv
<1>1. FilesInv /\ [Next]_vars => FilesInv'
  BY TypeStep, DriveStep, VolumeStep, ApartStep, LoadedStep, LeftStep,
     SlotsStep, AheadStep DEF FilesInv
<1> QED
  BY <1>1, FilesInit, PTL DEF Spec

-----------------------------------------------------------------------------
(* Files, slots and counters stay in their domains.                        *)
THEOREM TypeCorrect == Spec => []TypeOK
<1>1. FilesInv => TypeOK
  BY DEF FilesInv
<1> QED
  BY <1>1, Invariant, PTL

(* A converted magazine has each volume under the name it had, unless its  *)
(* own rename failed, whatever conversions were killed before.             *)
THEOREM ConvertedKeepNamesHolds == Spec => []ConvertedKeepNames
<1>1. FilesInv => ConvertedKeepNames
  <2> SUFFICES ASSUME FilesInv, ~index, NEW n \in Number,
                      Old(n) \in Stored, Old(n) \notin failed
               PROVE volume[n] = Old(n)
    BY DEF ConvertedKeepNames
  <2>1. \A d \in Drive : drive[d] # Old(n)
    BY ContentsDiffer DEF FilesInv, LeftBehind, Present
  <2>2. PICK m \in Number : volume[m] = Old(n)
    BY <2>1 DEF Stored
  <2> QED
    BY <2>2 DEF FilesInv, VolumeHasItsName
<1> QED
  BY <1>1, Invariant, PTL

(* CREATEVOLS never comes to a name that is taken.                         *)
THEOREM NextIsFreeHolds == Spec => []NextIsFree
<1>1. FilesInv => NextIsFree
  BY DEF FilesInv, SlotsAreVolumes, NextIsFree, NextNumber, Creating, Free,
     Volumes
<1> QED
  BY <1>1, Invariant, PTL

(* No step loses an old volume; and one that CREATEVOLS made is replaced   *)
(* only through the name in a loadedN that a failed conversion kept.       *)
THEOREM NoVolumeLostHolds == Spec => NoVolumeLost
<1>1. ASSUME FilesInv, [Next]_vars, NEW c \in Contents, c \in Stored,
             c \notin Stored'
      PROVE  \E k \in 1..MaxCreated : c = New(k) /\ NameGivenTwice(k)
  <2>0. c # NoFile /\ Next
    BY <1>1, BoundsAssumption, SMTT(30)
       DEF Contents, Old, New, NoFile, vars, files, Stored
  <2>1. ~UNCHANGED <<drive, volume>>
    BY <1>1 DEF Stored
  <2>2. ASSUME NEW d \in Drive, Rename(d)
        PROVE  \E k \in 1..MaxCreated : c = New(k) /\ NameGivenTwice(k)
    <3>1. /\ volume' = [volume EXCEPT ![loaded[d]] = drive[d]]
          /\ drive' = [drive EXCEPT ![d] = NoFile]
          /\ loaded[d] \in Number /\ loaded[d] # NoName /\ Present(drive[d])
      BY <1>1, <2>2 DEF Rename, Come, FilesInv, TypeOK
    <3>2. volume'[loaded[d]] = drive[d]
      BY <1>1, <3>1 DEF FilesInv, TypeOK
    <3>3. \A n \in Number : n # loaded[d] => volume'[n] = volume[n]
      BY <1>1, <3>1 DEF FilesInv, TypeOK
    <3>4. \A e \in Drive : e # d => drive'[e] = drive[e]
      BY <1>1, <3>1 DEF FilesInv, TypeOK
    <3>5. \A e \in Drive : drive[e] # c
      BY <1>1, <3>1, <3>2, <3>4 DEF Stored
    <3>6. c = volume[loaded[d]]
      BY <1>1, <3>3, <3>5 DEF Stored
    <3>7. PICK k \in 1..MaxCreated : volume[loaded[d]] = New(k)
      BY <1>1, <2>0, <3>1, <3>6 DEF FilesInv, NamesApart, Present
    <3>8. d \in kept /\ drive[d] \in failed
      BY <1>1, <2>0, <3>1, <3>6 DEF FilesInv, NamesApart, Present
    <3> QED
      BY <3>1, <3>6, <3>7, <3>8 DEF NameGivenTwice
  <2>3. ~CreateVolume
    <3> SUFFICES ASSUME CreateVolume PROVE FALSE
      OBVIOUS
    <3>1. PICK n \in Number :
             /\ volume[n] = NoFile
             /\ volume' = [volume EXCEPT ![n] = New(created + 1)]
      BY DEF CreateVolume, Free, Present
    <3>2. UNCHANGED drive
      BY DEF CreateVolume
    <3>3. \A m \in Number : volume[m] = c => volume'[m] = c
      BY <1>1, <2>0, <3>1 DEF FilesInv, TypeOK
    <3> QED
      BY <1>1, <3>2, <3>3 DEF Stored
  <2> QED
    BY <2>0, <2>1, <2>2, <2>3
       DEF Next, Mount, MountUnconverted, EndRenames, DeleteIndex, List, KeepDrive,
           DeleteLoaded, DeleteLoadedFails, CreateVolumes, CreateFails, Exit, Crash,
           Forget, EndPass, files
<1>2. FilesInv /\ [Next]_vars =>
          [/\ \A n \in Number : Old(n) \in Stored => Old(n) \in Stored'
           /\ \A k \in 1..MaxCreated :
                  New(k) \in Stored => New(k) \in Stored' \/ NameGivenTwice(k)]_vars
  <2> SUFFICES ASSUME FilesInv, [Next]_vars
               PROVE  /\ \A n \in Number : Old(n) \in Stored => Old(n) \in Stored'
                      /\ \A k \in 1..MaxCreated :
                             New(k) \in Stored => New(k) \in Stored' \/ NameGivenTwice(k)
    OBVIOUS
  <2>1. ASSUME NEW n \in Number, Old(n) \in Stored PROVE Old(n) \in Stored'
    BY <1>1, <2>1, ContentsDiffer
  <2>2. ASSUME NEW k \in 1..MaxCreated, New(k) \in Stored, New(k) \notin Stored'
        PROVE  NameGivenTwice(k)
    <3>1. PICK j \in 1..MaxCreated : New(k) = New(j) /\ NameGivenTwice(j)
      BY <1>1, <2>2, ContentsDiffer
    <3>2. NameGivenTwice(k)
      BY <3>1 DEF NameGivenTwice
    <3> QED
      BY <3>2
  <2> QED
    BY <2>1, <2>2
<1> QED
  BY <1>2, Invariant, PTL DEF Spec, NoVolumeLost

(* The numbers CREATEVOLS finds by itself come after those in its reach.   *)
THEOREM NewNumbersComeLastHolds == Spec => NewNumbersComeLast
<1>1. FilesInv /\ [Next]_vars =>
          [created' # created =>
             \A m, n \in Number :
                m \in slots /\ m <= reach /\ n \in slots' \ slots => m < n]_vars
  <2> SUFFICES ASSUME FilesInv, Next, created' # created,
                      NEW m \in Number, NEW n \in Number,
                      m \in slots, m <= reach, n \in slots' \ slots
               PROVE m < n
    OBVIOUS
  <2>1. CreateVolume
    BY DEF Next, Mount, MountUnconverted, EndRenames, DeleteIndex, List, KeepDrive,
       DeleteLoaded, DeleteLoadedFails, Rename, CreateVolumes, CreateFails, Exit, Crash,
       Forget, EndPass, history
  <2>2. NextNumber(n)
    BY <2>1 DEF CreateVolume
  <2>3. m <= start
    BY <2>1 DEF CreateVolume, Creating, FilesInv, StartIsAhead
  <2> QED
    BY <2>2, <2>3, BoundsAssumption, SMTT(30)
       DEF NextNumber, FilesInv, TypeOK, Number
<1> QED
  BY <1>1, Invariant, PTL DEF Spec, NewNumbersComeLast
=============================================================================
