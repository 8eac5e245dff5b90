--------------------------- MODULE DiskChangerProofs ---------------------------
(***************************************************************************)
(* Theorems about DiskChanger, for any magazines, names, drives and        *)
(* mountpoints, with crashes and lost writes.  They come in two parts: the *)
(* bays and their virtual slots (MagazineBays, which DiskChanger extends), *)
(* and the changer as a whole.                                             *)
(***************************************************************************)
EXTENDS DiskChanger, FiniteSetTheorems, WellFoundedInduction, TLAPS

-----------------------------------------------------------------------------
(***************************************************************************)
(* Part 1: the bays, for any magazines, bounds and faults.                 *)
(***************************************************************************)
(* Of an array of sz slots the search finds the lowest at which k volumes  *)
(* fit: the one after the array always does.                               *)
LEMMA FitFound ==
  ASSUME NEW T, NEW sz \in Nat \ {0}, T \subseteq 0 .. sz - 1, NEW k \in Nat
  PROVE  /\ FindEmptySlotRange(T, sz, k) \in 1 .. sz
         /\ Fits(T, FindEmptySlotRange(T, sz, k), k)
         /\ \A lower \in 1 .. FindEmptySlotRange(T, sz, k) - 1 : ~Fits(T, lower, k)
<1> DEFINE F == {f \in 1 .. sz : Fits(T, f, k)}
           Lowest(f) == /\ Fits(T, f, k)
                        /\ \A lower \in 1 .. f - 1 : ~Fits(T, lower, k)
<1>1. sz \in F
  BY DEF Fits, SlotRange
<1> DEFINE Less == {ss \in Nat \X Nat : ss[1] < ss[2]}
<1>2. PICK first \in F : \A f \in F : ~(<<f, first>> \in Less)
  <2>1. IsWellFoundedOn(Less, Nat)
    BY NatLessThanWellFounded DEF OpToRel
  <2>2. F \subseteq Nat /\ F # {}
    BY <1>1
  <2> HIDE DEF Less, F
  <2>3. QED
    BY <2>1, <2>2, WFMin
<1>3. \A f \in F : ~(f < first)
  <2>1. SUFFICES ASSUME NEW f \in F, f < first
                 PROVE  <<f, first>> \in Less
    BY <1>2
  <2>2. f \in Nat /\ first \in Nat
    OBVIOUS
  <2> HIDE DEF F
  <2>3. QED
    BY <2>1, <2>2
<1>4. first \in 1 .. sz /\ Lowest(first)
  <2> HIDE DEF Fits
  <2>1. QED
    BY <1>3
<1> HIDE DEF Lowest
<1>5. /\ (CHOOSE f \in 1 .. sz : Lowest(f)) \in 1 .. sz
      /\ Lowest(CHOOSE f \in 1 .. sz : Lowest(f))
  BY <1>4
<1>6. FindEmptySlotRange(T, sz, k) = CHOOSE f \in 1 .. sz : Lowest(f)
  BY DEF FindEmptySlotRange, Lowest
<1>7. QED
  BY <1>5, <1>6 DEF Lowest

-----------------------------------------------------------------------------
(* An invocation knows what is on the magazines.  CREATEVOLS makes no more *)
(* volumes than it was asked for, on the magazine it was asked for.        *)
Making ==
    /\ pc # "off" => volumes = files
    /\ pc = "create" => making.bay \in Bay
    /\ making.left + making.made <= MaxVolumes

TypeInv == TypeOK /\ Making

SlotArray(sz) == [0 .. sz - 1 -> [bay : Bay \cup {NoBay}, mslot : Nat \cup {-1}]]

LEMMA SlotArrays ==
  /\ \A sz \in Nat : EmptySlots(sz) \in SlotArray(sz)
  /\ \A sz, k \in Nat : \A v \in SlotArray(sz) : Grown(v, k) \in SlotArray(k)
  /\ \A sz, first, k \in Nat, b \in Bay : \A v \in SlotArray(sz) :
        Assigned(v, b, first, k) \in SlotArray(sz)
<1>1. EmptySlot \in [bay : Bay \cup {NoBay}, mslot : Nat \cup {-1}]
  BY DEF EmptySlot, NoBay
<1>2. QED
  BY <1>1 DEF SlotArray, EmptySlots, Grown, Assigned, SlotRange

LEMMA NothingRuns ==
  /\ 0 \in Bay
  /\ [b \in Bay |-> NotMounted] \in [Bay -> Contents]
  /\ NoState \in BayState
  /\ [b \in Bay |-> NoState] \in [Bay -> BayState]
  /\ [b \in Bay |-> 0] \in [Bay -> Nat]
  /\ EmptySlots(1) \in SlotArray(1)
  /\ NotMaking \in [bay : Bay \cup {NoBay}, left : 0 .. MaxVolumes, made : 0 .. MaxVolumes]
  /\ NotMaking.left + NotMaking.made <= MaxVolumes
BY BaysAssumption, MaxVolumesAssumption, SlotArrays
   DEF Bay, Contents, NoState, BayState, NotMaking

LEMMA TypeInit == Init => TypeInv
<1> SUFFICES ASSUME Init PROVE TypeInv
  OBVIOUS
<1>1. vslot \in SlotArray(size) /\ size \in Nat \ {0}
  BY NothingRuns DEF Init, Blank
<1>2. Making
  BY NothingRuns DEF Init, Blank, Making
<1>3. QED
  BY <1>1, <1>2, NothingRuns DEF Init, Blank, TypeInv, TypeOK, SlotArray, NoDynamicConf

LEMMA NextBay ==
  ASSUME TypeInv, NEW loop, NEW after, ForEachBay(loop, after)
  PROVE  m' \in Bay /\ pc' \in {loop, after} /\ pc = loop
BY BaysAssumption DEF TypeInv, TypeOK, ForEachBay, Bay

LEMMA SavedType ==
  ASSUME TypeInv
  PROVE  NoState \in BayState /\ \A b \in Bay : Saved(b) \in BayState
<1>1. ASSUME NEW b \in Bay
      PROVE  Saved(b) \in BayState
  <2>1. start[b] \in Nat /\ (volumes[b] > 0 => volumes[b] \in Nat)
    BY MaxVolumesAssumption DEF TypeInv, TypeOK, Contents, NotMounted
  <2>2. QED
    BY <2>1, NothingRuns DEF Saved, BayState
<1>2. QED
  BY <1>1, NothingRuns

LEMMA ExitType ==
  ASSUME TypeInv, Exit, files' \in [Bay -> Contents], bayFile' \in [Bay -> BayState],
         UNCHANGED <<dynFile, reported, settled>>
  PROVE  TypeInv'
<1>1. vslot' \in SlotArray(size') /\ size' \in Nat \ {0}
  BY NothingRuns DEF Exit
<1>2. Making'
  BY NothingRuns DEF Exit, Making
<1>3. QED
  BY <1>1, <1>2, NothingRuns DEF Exit, TypeInv, TypeOK, SlotArray

(* The slots the second loop finds are free, and there.                    *)
LEMMA FreeRange ==
  ASSUME TypeInv, NEW b \in Bay, NeedsRange(b)
  PROVE  LET first == FindEmptySlotRange(Taken(vslot), size, volumes[b]) IN
         /\ first \in 1 .. size
         /\ Fits(Taken(vslot), first, volumes[b])
         /\ volumes[b] \in Nat \ {0}
<1>1. volumes[b] \in Nat \ {0}
  BY DEF TypeInv, TypeOK, NeedsRange, Contents, NotMounted
<1>2. Taken(vslot) \subseteq 0 .. size - 1 /\ size \in Nat \ {0}
  BY DEF TypeInv, TypeOK, Taken
<1>3. QED
  BY <1>1, <1>2, FitFound

(* What the first two loops do to the array keeps it an array.             *)
LEMMA ArrayType ==
  ASSUME TypeInv, Keep \/ Assign
  PROVE  /\ size' \in Nat \ {0} /\ size' >= size
         /\ vslot' \in SlotArray(size')
         /\ start' \in [Bay -> Nat]
<1> USE DEF TypeInv, TypeOK
<1>1. vslot \in SlotArray(size) /\ size \in Nat \ {0} /\ m \in Bay
  BY DEF SlotArray
<1>2. CASE Keep
  <2>1. prev[m].start \in Nat /\ prev[m].num \in Nat
    BY DEF BayState
  <2>2. size' = Larger(size, prev[m].start + prev[m].num)
    BY <1>2 DEF Keep
  <2>3. size' \in Nat \ {0} /\ size' >= size
    BY <1>1, <2>1, <2>2 DEF Larger
  <2>4. Grown(vslot, size') \in SlotArray(size')
    BY <1>1, <2>3, SlotArrays
  <2>5. CASE volumes[m] # NotMounted /\ CanKeep(m)
    <3>1. volumes[m] \in Nat
      BY <2>1, <2>5 DEF CanKeep, SameCount
    <3>2. /\ vslot' = Assigned(Grown(vslot, size'), m, prev[m].start, volumes[m])
          /\ start' = [start EXCEPT ![m] = prev[m].start]
      BY <1>2, <2>5 DEF Keep
    <3>3. QED
      BY <1>1, <2>1, <2>3, <2>4, <3>1, <3>2, SlotArrays
  <2>6. CASE ~(volumes[m] # NotMounted /\ CanKeep(m))
    BY <1>2, <2>3, <2>4, <2>6 DEF Keep
  <2>7. QED
    BY <2>5, <2>6
<1>3. CASE Assign
  <2>1. CASE NeedsRange(m)
    <3> DEFINE first == FindEmptySlotRange(Taken(vslot), size, volumes[m])
    <3>1. first \in 1 .. size /\ volumes[m] \in Nat
      BY <1>1, <2>1, FreeRange
    <3>2. /\ size' = Larger(size, first + volumes[m])
          /\ vslot' = Assigned(Grown(vslot, size'), m, first, volumes[m])
          /\ start' = [start EXCEPT ![m] = first]
      BY <1>3, <2>1 DEF Assign
    <3> HIDE DEF first
    <3>3. size' \in Nat \ {0} /\ size' >= size /\ first \in Nat
      BY <1>1, <3>1, <3>2 DEF Larger
    <3>4. Grown(vslot, size') \in SlotArray(size')
      BY <1>1, <3>3, SlotArrays
    <3>5. QED
      BY <1>1, <3>1, <3>2, <3>3, <3>4, SlotArrays
  <2>2. CASE ~NeedsRange(m)
    BY <1>1, <1>3, <2>2 DEF Assign
  <2>3. QED
    BY <2>1, <2>2
<1>4. QED
  BY <1>2, <1>3

LEMMA TypeNext == TypeInv /\ [Next]_vars => TypeInv'
<1> SUFFICES ASSUME TypeInv, [Next]_vars
             PROVE  TypeInv'
  OBVIOUS
<1> USE DEF TypeInv, TypeOK, Making
<1>1. CASE UNCHANGED vars
  BY <1>1 DEF vars, disk, memory, mapping
<1>2. ASSUME NEW b \in Bay, ChangeMagazine(b)
      PROVE  TypeInv'
  BY <1>2 DEF ChangeMagazine, memory, mapping
<1>3. CASE Begin
  <2>1. prev' \in [Bay -> BayState] /\ bayFile' = prev'
    BY <1>3, NothingRuns DEF Begin, Restored
  <2>2. size' \in Nat \ {0} /\ vslot' \in SlotArray(size')
    <3>1. MaxSlot \in Nat
      BY MinSlotsAssumption DEF MaxSlot, Larger
    <3>2. QED
      BY <1>3, <3>1, SlotArrays DEF Begin
  <2>3. QED
    BY <1>3, <2>1, <2>2, NothingRuns DEF Begin, SlotArray
<1>4. CASE Keep
  <2>1. m' \in Bay /\ pc' \in {"keep", "assign"} /\ pc = "keep"
    BY <1>4, NextBay DEF Keep
  <2>2. needsUpdate' \in BOOLEAN
    BY <1>4 DEF Keep
  <2>3. /\ size' \in Nat \ {0} /\ vslot' \in SlotArray(size') /\ start' \in [Bay -> Nat]
        /\ UNCHANGED <<disk, volumes, prev, making, reported, settled>>
    BY <1>4, ArrayType DEF Keep
  <2>4. QED
    BY <2>1, <2>2, <2>3 DEF disk, SlotArray
<1>5. CASE Assign
  <2>1. m' \in Bay /\ pc' \in {"assign", "save"} /\ pc = "assign"
    BY <1>5, NextBay DEF Assign
  <2>2. /\ size' \in Nat \ {0} /\ vslot' \in SlotArray(size') /\ start' \in [Bay -> Nat]
        /\ UNCHANGED <<disk, volumes, prev, needsUpdate, making, reported, settled>>
    BY <1>5, ArrayType DEF Assign
  <2>3. QED
    BY <2>1, <2>2 DEF disk, SlotArray
<1>6. CASE SaveBays
  <2>1. bayFile' \in [Bay -> BayState]
    BY <1>6, SavedType DEF SaveBays, SaveBay, Write
  <2>2. m' \in Bay /\ pc' \in {"save", "dynamic"} /\ pc = "save"
    BY <1>6, NextBay DEF SaveBays
  <2>3. settled' \in BOOLEAN
    BY <1>6 DEF SaveBays
  <2>4. QED
    BY <1>6, <2>1, <2>2, <2>3 DEF SaveBays, mapping
<1>7. CASE SaveDynamic
  <2>1. dynFile' \in Nat
    BY <1>7, MinSlotsAssumption DEF SaveDynamic, Write, Larger, NoDynamicConf
  <2>2. reported' \in Nat /\ settled' \in BOOLEAN
    BY <1>7 DEF SaveDynamic
  <2>3. QED
    BY <1>7, <2>1, <2>2 DEF SaveDynamic, mapping
<1>8. ASSUME NEW b \in Bay, NEW count \in 1 .. MaxVolumes, CreateVolumes(b, count)
      PROVE  TypeInv'
  <2>1. making' = [bay |-> b, left |-> count, made |-> 0] /\ pc' = "create"
    BY <1>8 DEF CreateVolumes
  <2>2. /\ making' \in [bay : Bay \cup {NoBay}, left : 0 .. MaxVolumes, made : 0 .. MaxVolumes]
        /\ making'.bay \in Bay /\ making'.left + making'.made <= MaxVolumes
    BY <2>1, MaxVolumesAssumption
  <2>3. /\ pc = "ready" /\ settled' \in BOOLEAN
        /\ UNCHANGED <<disk, m, mapping, reported>>
    BY <1>8 DEF CreateVolumes
  <2>4. QED
    BY <2>1, <2>2, <2>3 DEF disk, mapping
<1>9. CASE CreateVolume
  <2>1. /\ making.bay \in Bay /\ making.left > 0
        /\ making.left \in 0 .. MaxVolumes /\ making.made \in 0 .. MaxVolumes
        /\ making.left + making.made <= MaxVolumes
    BY <1>9 DEF CreateVolume
  <2>2. /\ making' = [bay |-> making.bay, left |-> making.left - 1, made |-> making.made + 1]
        /\ pc' = pc
    BY <1>9 DEF CreateVolume
  <2>3. /\ making.left - 1 \in 0 .. MaxVolumes /\ making.made + 1 \in 0 .. MaxVolumes
        /\ making'.left + making'.made <= MaxVolumes
    BY <2>1, <2>2, MaxVolumesAssumption
  <2>4. volumes' \in [Bay -> Contents]
    BY <1>9, <2>1, MaxVolumesAssumption DEF CreateVolume, Contents, NotMounted
  <2>5. files' = volumes'
    BY <1>9 DEF CreateVolume
  <2>6. UNCHANGED <<bayFile, dynFile, pc, m, prev, start, size, vslot, needsUpdate,
                   reported, settled>>
    BY <1>9 DEF CreateVolume
  <2>7. making' \in [bay : Bay \cup {NoBay}, left : 0 .. MaxVolumes, made : 0 .. MaxVolumes]
    BY <2>1, <2>2, <2>3
  <2>8. QED
    BY <2>1, <2>2, <2>3, <2>4, <2>5, <2>6, <2>7
<1>10. CASE CreateFails
  <2>1. making.bay \in Bay /\ Saved(making.bay) \in BayState
    BY <1>10, SavedType DEF CreateFails
  <2>2. bayFile' \in [Bay -> BayState]
    <3>1. CASE making.made > 0
      BY <1>10, <2>1, <3>1, SavedType DEF CreateFails, SaveBay, Write
    <3>2. CASE ~(making.made > 0)
      BY <1>10, <3>2 DEF CreateFails
    <3>3. QED
      BY <3>1, <3>2
  <2>3. QED
    BY <1>10, <2>2, ExitType DEF CreateFails
<1>11. CASE CreateSucceeds
  <2>1. making.bay \in Bay /\ Saved(making.bay) \in BayState
    BY <1>11, SavedType DEF CreateSucceeds
  <2>2. bayFile' \in [Bay -> BayState]
    BY <1>11, <2>1, SavedType DEF CreateSucceeds, SaveBay, Write
  <2>3. QED
    BY <1>11, <2>2 DEF CreateSucceeds
<1>12. CASE Finish \/ Crash
  BY <1>12, ExitType DEF Finish, Crash, disk
<1>13. QED
  BY <1>1, <1>2, <1>3, <1>4, <1>5, <1>6, <1>7, <1>8, <1>9, <1>10, <1>11, <1>12 DEF Next

(* The counts, ranges and the array of virtual slots stay in their         *)
(* domains, whatever the operator does to the magazines and whatever is    *)
(* killed or lost: no index of the array is out of range.                  *)
THEOREM TypeCorrect == Spec => []TypeOK
<1>1. TypeInv => TypeOK
  BY DEF TypeInv
<1>2. QED
  BY TypeInit, TypeNext, <1>1, PTL DEF Spec

-----------------------------------------------------------------------------
(***************************************************************************)
(* The inductive invariant of the mapping.  SlotsMatchVolumes holds of the *)
(* magazines that have slots from the beginning of the first loop; the     *)
(* others have none yet, and it is their turn still to come.               *)
(***************************************************************************)
HasSlots(b) == volumes[b] > 0 /\ start[b] > 0

VolumesInSlots ==
    \A b \in Bay : HasSlots(b) =>
        \A s \in SlotRange(start[b], volumes[b]) :
            s \in DOMAIN vslot /\ vslot[s] = [bay |-> b, mslot |-> s - start[b]]

SlotsHoldVolumes ==
    \A s \in Taken(vslot) :
        \E b \in Bay : HasSlots(b) /\ s \in SlotRange(start[b], volumes[b])

Turn ==
    /\ pc = "keep" => \A b \in Bay : b >= m => start[b] = 0
    /\ pc = "assign" => \A b \in Bay : b < m /\ volumes[b] > 0 => start[b] > 0
    /\ Assigning => \A b \in Bay : volumes[b] > 0 => start[b] > 0

RestoredRanges == \A b \in Bay : prev[b].num > 0 => prev[b].start > 0

IInv ==
    /\ pc \in {"keep", "assign"} \/ Assigning => VolumesInSlots /\ SlotsHoldVolumes /\ Turn
    /\ pc # "off" => RestoredRanges

(* A range of slots that are free is mapped to the volumes of a magazine   *)
(* that has none, as both loops do.                                        *)
LEMMA RangeMapped ==
  ASSUME TypeInv, VolumesInSlots, SlotsHoldVolumes,
         NEW k \in Bay, start[k] = 0, volumes[k] \in Nat,
         NEW first \in Nat, Fits(Taken(vslot), first, volumes[k]),
         volumes[k] > 0 => first > 0,
         size' \in Nat, size' >= size, first + volumes[k] <= size',
         start' = [start EXCEPT ![k] = first],
         vslot' = Assigned(Grown(vslot, size'), k, first, volumes[k]),
         UNCHANGED volumes
  PROVE  VolumesInSlots' /\ SlotsHoldVolumes'
<1> DEFINE range == SlotRange(first, volumes[k])
<1>1. /\ DOMAIN vslot = 0 .. size - 1 /\ size \in Nat
      /\ start \in [Bay -> Nat]
      /\ Bay \subseteq Nat
  BY DEF TypeInv, TypeOK, Bay
<1>2. /\ DOMAIN vslot' = 0 .. size' - 1
      /\ \A s \in 0 .. size' - 1 :
            vslot'[s] = IF s \in range THEN [bay |-> k, mslot |-> s - first]
                        ELSE IF s \in DOMAIN vslot THEN vslot[s] ELSE EmptySlot
  BY DEF Assigned, Grown
<1>3. range \subseteq 0 .. size' - 1 /\ range \cap Taken(vslot) = {}
  BY DEF SlotRange, Fits
<1>4. \A b \in Bay : b # k => (HasSlots(b)' <=> HasSlots(b)) /\ start'[b] = start[b]
  BY <1>1 DEF HasSlots
<1>5. ~HasSlots(k)
  BY DEF HasSlots
<1>6. start'[k] = first
  BY <1>1
<1> HIDE DEF range
<1>7. ASSUME NEW b \in Bay, HasSlots(b)', NEW s \in SlotRange(start'[b], volumes'[b])
      PROVE  s \in DOMAIN vslot' /\ vslot'[s] = [bay |-> b, mslot |-> s - start'[b]]
  <2>1. CASE b = k
    BY <1>2, <1>3, <1>6, <1>7, <2>1 DEF range
  <2>2. CASE b # k
    <3>1. s \in DOMAIN vslot /\ vslot[s] = [bay |-> b, mslot |-> s - start[b]]
      BY <1>4, <1>7, <2>2 DEF VolumesInSlots
    <3>2. s \in Taken(vslot)
      BY <1>1, <3>1 DEF Taken, EmptySlot
    <3>3. s \notin range /\ s \in 0 .. size' - 1
      BY <1>1, <1>3, <3>1, <3>2
    <3>4. QED
      BY <1>2, <1>4, <2>2, <3>1, <3>3
  <2>3. QED
    BY <2>1, <2>2
<1>8. ASSUME NEW s \in Taken(vslot)'
      PROVE  \E b \in Bay : HasSlots(b)' /\ s \in SlotRange(start'[b], volumes'[b])
  <2>1. s \in 0 .. size' - 1 /\ vslot'[s] # EmptySlot
    BY <1>2, <1>8 DEF Taken
  <2>2. CASE s \in range
    <3>1. first > 0 /\ volumes[k] > 0
      BY <2>2 DEF range, SlotRange
    <3>2. HasSlots(k)' /\ s \in SlotRange(start'[k], volumes'[k])
      BY <1>6, <2>2, <3>1 DEF HasSlots, range
    <3>3. QED
      BY <3>2
  <2>3. CASE s \notin range
    <3>1. s \in Taken(vslot)
      BY <1>2, <2>1, <2>3 DEF Taken
    <3>2. PICK b \in Bay : HasSlots(b) /\ s \in SlotRange(start[b], volumes[b])
      BY <3>1 DEF SlotsHoldVolumes
    <3>3. b # k
      BY <1>5, <3>2
    <3>4. QED
      BY <1>4, <3>2, <3>3
  <2>4. QED
    BY <2>2, <2>3
<1>9. QED
  BY <1>7, <1>8 DEF VolumesInSlots, SlotsHoldVolumes

(* Free slots appended to the array change nothing.                        *)
LEMMA OnlyGrown ==
  ASSUME TypeInv, VolumesInSlots, SlotsHoldVolumes,
         size' \in Nat, size' >= size,
         vslot' = Grown(vslot, size') \/ vslot' = vslot,
         UNCHANGED <<volumes, start>>
  PROVE  VolumesInSlots' /\ SlotsHoldVolumes'
<1>1. DOMAIN vslot = 0 .. size - 1 /\ size \in Nat
  BY DEF TypeInv, TypeOK
<1>2. /\ DOMAIN vslot \subseteq DOMAIN vslot'
      /\ \A s \in DOMAIN vslot : vslot'[s] = vslot[s]
  BY <1>1 DEF Grown
<1>3. Taken(vslot)' = Taken(vslot)
  BY <1>1, <1>2 DEF Taken, Grown
<1>4. QED
  BY <1>2, <1>3 DEF VolumesInSlots, SlotsHoldVolumes, HasSlots

LEMMA KeepMaps ==
  ASSUME TypeInv, IInv, Keep
  PROVE  IInv'
<1> USE DEF TypeInv, TypeOK
<1>1. /\ m \in Bay /\ Bay \subseteq Nat /\ pc = "keep"
      /\ VolumesInSlots /\ SlotsHoldVolumes /\ Turn /\ RestoredRanges
      /\ UNCHANGED <<volumes, prev>>
  BY DEF Keep, ForEachBay, IInv, Bay
<1>2. /\ start[m] = 0 /\ \A b \in Bay : b > m => start[b] = 0
  BY <1>1 DEF Turn
<1>3. prev[m].start \in Nat /\ prev[m].num \in Nat
  BY <1>1 DEF BayState
<1>4. size' = Larger(size, prev[m].start + prev[m].num)
  BY DEF Keep
<1>5. size' \in Nat /\ size' >= size /\ prev[m].start + prev[m].num <= size'
  BY <1>3, <1>4 DEF Larger
<1>6. VolumesInSlots' /\ SlotsHoldVolumes' /\ \A b \in Bay : b > m => start'[b] = 0
  <2>1. CASE volumes[m] # NotMounted /\ CanKeep(m)
    <3>1. PICK k \in Bay : k = m
      BY <1>1
    <3>2. PICK first \in Nat : first = prev[m].start
      BY <1>3
    <3>3. /\ start' = [start EXCEPT ![k] = first]
          /\ vslot' = Assigned(Grown(vslot, size'), k, first, volumes[k])
      BY <2>1, <3>1, <3>2 DEF Keep
    <3>4. volumes[k] = prev[m].num
      BY <2>1, <3>1 DEF CanKeep, SameCount
    <3>5. Fits(Taken(vslot), first, volumes[k])
      BY <2>1, <3>1, <3>2, <3>4 DEF CanKeep, PrevRange, Fits
    <3>6. volumes[k] > 0 => first > 0
      BY <1>1, <3>2, <3>4 DEF RestoredRanges
    <3>7. /\ start[k] = 0 /\ volumes[k] \in Nat /\ first + volumes[k] <= size'
          /\ UNCHANGED volumes
      BY <1>1, <1>2, <1>3, <1>5, <3>1, <3>2, <3>4
    <3>8. VolumesInSlots' /\ SlotsHoldVolumes'
      BY <1>1, <1>5, <3>3, <3>5, <3>6, <3>7, RangeMapped
    <3>9. QED
      BY <1>1, <1>2, <3>1, <3>3, <3>8
  <2>2. CASE ~(volumes[m] # NotMounted /\ CanKeep(m))
    <3>1. vslot' = Grown(vslot, size') /\ UNCHANGED start
      BY <2>2 DEF Keep
    <3>2. QED
      BY <1>1, <1>2, <1>5, <3>1, OnlyGrown
  <2>3. QED
    BY <2>1, <2>2
<1>7. \/ pc' = "keep" /\ m' = m + 1
      \/ pc' = "assign" /\ m' = 0
  BY <1>1 DEF Keep, ForEachBay
<1>8. Turn'
  BY <1>1, <1>6, <1>7 DEF Turn, Assigning
<1>9. RestoredRanges'
  BY <1>1 DEF RestoredRanges
<1>10. QED
  BY <1>6, <1>8, <1>9 DEF IInv

LEMMA AssignMaps ==
  ASSUME TypeInv, IInv, Assign
  PROVE  IInv'
<1> USE DEF TypeInv, TypeOK
<1>1. /\ m \in Bay /\ Bay = 0 .. Bays - 1 /\ Bays \in Nat /\ pc = "assign"
      /\ VolumesInSlots /\ SlotsHoldVolumes /\ Turn /\ RestoredRanges
      /\ UNCHANGED <<volumes, prev>>
  BY BaysAssumption DEF Assign, ForEachBay, IInv, Bay
<1>2. /\ VolumesInSlots' /\ SlotsHoldVolumes'
      /\ volumes[m] > 0 => start'[m] > 0
      /\ \A b \in Bay : b # m => start'[b] = start[b]
  <2>1. CASE NeedsRange(m)
    <3>1. PICK k \in Bay : k = m
      BY <1>1
    <3>2. PICK first \in 1 .. size : first = FindEmptySlotRange(Taken(vslot), size, volumes[m])
      BY <2>1, <1>1, FreeRange
    <3>3. /\ size' = Larger(size, first + volumes[k])
          /\ start' = [start EXCEPT ![k] = first]
          /\ vslot' = Assigned(Grown(vslot, size'), k, first, volumes[k])
      BY <2>1, <3>1, <3>2 DEF Assign
    <3>4. Fits(Taken(vslot), first, volumes[k]) /\ volumes[k] \in Nat
      BY <1>1, <2>1, <3>1, <3>2, FreeRange
    <3>5. /\ size' \in Nat /\ size' >= size /\ first + volumes[k] <= size'
          /\ first \in Nat /\ first > 0 /\ start[k] = 0
          /\ UNCHANGED volumes
      BY <1>1, <2>1, <3>1, <3>3, <3>4 DEF Larger, NeedsRange
    <3>6. VolumesInSlots' /\ SlotsHoldVolumes'
      BY <1>1, <3>3, <3>4, <3>5, RangeMapped
    <3>7. QED
      BY <1>1, <3>1, <3>3, <3>5, <3>6
  <2>2. CASE ~NeedsRange(m)
    <3>1. UNCHANGED <<start, size, vslot>>
      BY <2>2 DEF Assign
    <3>2. volumes[m] > 0 => start[m] > 0
      BY <1>1, <2>2 DEF NeedsRange
    <3>3. QED
      BY <1>1, <3>1, <3>2, OnlyGrown
  <2>3. QED
    BY <2>1, <2>2
<1>3. \/ pc' = "assign" /\ m' = m + 1
      \/ pc' = "save" /\ m + 1 >= Bays
  BY <1>1 DEF Assign, ForEachBay
<1>4. \A b \in Bay : b <= m /\ volumes[b] > 0 => start'[b] > 0
  BY <1>1, <1>2 DEF Turn
<1>5. Turn'
  BY <1>1, <1>3, <1>4 DEF Turn, Assigning
<1>6. RestoredRanges'
  BY <1>1 DEF RestoredRanges
<1>7. QED
  BY <1>2, <1>5, <1>6 DEF IInv

LEMMA IInvNext ==
  ASSUME TypeInv, IInv, [Next]_vars
  PROVE  IInv'
<1> USE DEF IInv
<1>ended. ASSUME pc' \in {"off", "create", "done"}, UNCHANGED prev \/ pc' = "off", pc # "off"
          PROVE  IInv'
  BY <1>ended DEF Assigning, RestoredRanges
<1>same. ASSUME pc \in {"save", "dynamic"}, pc' \in {"save", "dynamic", "ready"},
                UNCHANGED <<volumes, prev, start, vslot>>
         PROVE  IInv'
  BY <1>same DEF Assigning, RestoredRanges, VolumesInSlots, SlotsHoldVolumes, HasSlots,
     Turn, Taken
<1>1. CASE UNCHANGED vars
  BY <1>1 DEF vars, memory, mapping, Assigning, RestoredRanges, VolumesInSlots,
     SlotsHoldVolumes, HasSlots, Turn, Taken
<1>2. ASSUME NEW b \in Bay, ChangeMagazine(b)
      PROVE  IInv'
  BY <1>2 DEF ChangeMagazine, memory, mapping, Assigning
<1>3. CASE Begin
  <2>1. /\ pc' = "keep" /\ vslot' = EmptySlots(size') /\ start' = [b \in Bay |-> 0]
        /\ prev' = [b \in Bay |-> Restored(bayFile[b])]
    BY <1>3 DEF Begin
  <2>2. \A b \in Bay : ~HasSlots(b)'
    BY <2>1 DEF HasSlots
  <2>3. Taken(vslot)' = {}
    BY <2>1 DEF Taken, EmptySlots
  <2>4. RestoredRanges'
    BY <2>1 DEF RestoredRanges, Restored, NoState, TypeInv, TypeOK, BayState
  <2>5. QED
    BY <2>1, <2>2, <2>3, <2>4 DEF Assigning, VolumesInSlots, SlotsHoldVolumes, Turn
<1>4. CASE Keep \/ Assign
  BY <1>4, KeepMaps, AssignMaps
<1>5. CASE SaveBays \/ SaveDynamic
  BY <1>5, <1>same DEF SaveBays, SaveDynamic, ForEachBay, mapping
<1>6. ASSUME NEW b \in Bay, NEW count \in 1 .. MaxVolumes, CreateVolumes(b, count)
      PROVE  IInv'
  BY <1>6, <1>ended DEF CreateVolumes, mapping
<1>7. CASE CreateVolume \/ CreateFails \/ CreateSucceeds \/ Finish \/ Crash
  BY <1>7, <1>ended DEF CreateVolume, CreateFails, CreateSucceeds, Finish, Crash, Exit
<1>8. QED
  BY <1>1, <1>2, <1>3, <1>4, <1>5, <1>6, <1>7 DEF Next

(***************************************************************************)
(* When the slots have been assigned, every volume of every mounted        *)
(* magazine is in the slot of its own, and every slot that is taken holds  *)
(* such a volume: for any magazines, any contents, and any state files     *)
(* that earlier invocations left, finished, killed or cheated of a write.  *)
(***************************************************************************)
THEOREM SlotsMatchVolumesHolds == Spec => []SlotsMatchVolumes
<1>1. Init => TypeInv /\ IInv
  BY TypeInit DEF Init, Blank, IInv, Assigning
<1>2. (TypeInv /\ IInv) /\ [Next]_vars => (TypeInv /\ IInv)'
  BY TypeNext, IInvNext
<1>3. TypeInv /\ IInv => SlotsMatchVolumes
  <2> SUFFICES ASSUME TypeInv, IInv, Assigning
               PROVE  SlotsMatchVolumes
    BY DEF SlotsMatchVolumes
  <2>1. VolumesInSlots /\ SlotsHoldVolumes /\ \A b \in Bay : volumes[b] > 0 => start[b] > 0
    BY DEF IInv, Turn
  <2>2. \A b \in Bay : \A s \in Holds(b) :
           s \in DOMAIN vslot /\ vslot[s] = [bay |-> b, mslot |-> s - start[b]]
    BY <2>1 DEF Holds, VolumesInSlots, HasSlots
  <2>3. \A s \in Taken(vslot) : \E b \in Bay : s \in Holds(b)
    BY <2>1 DEF Holds, SlotsHoldVolumes, HasSlots
  <2>4. QED
    BY <2>1, <2>2, <2>3 DEF SlotsMatchVolumes
<1>4. QED
  BY <1>1, <1>2, <1>3, PTL DEF Spec

-----------------------------------------------------------------------------
(* No state file is lost.                                                  *)
NoLostWrites == ~LossyWrites

(* dynamic.conf remembers what SLOTS answered, and the array never gets    *)
(* smaller than it says.                                                   *)
SlotsRemembered ==
    /\ reported <= MaxSlot
    /\ pc \in {"keep", "assign", "save", "dynamic"} => size > MaxSlot

LEMMA SlotsRememberedNext ==
  ASSUME NoLostWrites, TypeInv, SlotsRemembered, [Next]_vars
  PROVE  SlotsRemembered' /\ [reported' >= reported]_vars
<1> USE MinSlotsAssumption DEF TypeInv, TypeOK, SlotsRemembered
<1>1. MaxSlot \in Nat
  BY DEF MaxSlot, Larger
<1>same. ASSUME UNCHANGED <<dynFile, reported>>,
                \/ pc' \notin {"keep", "assign", "save", "dynamic"}
                \/ /\ pc \in {"keep", "assign", "save", "dynamic"}
                   /\ size' >= size /\ size' \in Nat
         PROVE  SlotsRemembered' /\ reported' >= reported
  BY <1>1, <1>same DEF MaxSlot
<1>2. CASE UNCHANGED vars
  BY <1>2 DEF vars, disk, memory, mapping, MaxSlot
<1>3. ASSUME NEW b \in Bay, ChangeMagazine(b)
      PROVE  SlotsRemembered' /\ reported' >= reported
  BY <1>3, <1>same DEF ChangeMagazine, memory
<1>4. CASE Begin
  BY <1>1, <1>4 DEF Begin, MaxSlot
<1>5. CASE Keep \/ Assign
  BY <1>5, <1>same, ArrayType DEF Keep, Assign, ForEachBay, disk
<1>6. CASE SaveBays
  BY <1>6, <1>same DEF SaveBays, ForEachBay, mapping
<1>7. CASE SaveDynamic
  <2>1. size > MaxSlot /\ reported' = size - 1 /\ pc' = "ready"
        /\ dynFile' = Larger(size - 1, MinSlots)
    BY <1>1, <1>7 DEF SaveDynamic, Write, NoLostWrites
  <2>2. QED
    BY <1>1, <2>1 DEF MaxSlot, Larger
<1>8. ASSUME NEW b \in Bay, NEW count \in 1 .. MaxVolumes, CreateVolumes(b, count)
      PROVE  SlotsRemembered' /\ reported' >= reported
  BY <1>8, <1>same DEF CreateVolumes, disk
<1>9. CASE CreateVolume \/ CreateFails \/ CreateSucceeds \/ Finish \/ Crash
  BY <1>9, <1>same DEF CreateVolume, CreateFails, CreateSucceeds, Finish, Crash, Exit, disk
<1>10. QED
  BY <1>2, <1>3, <1>4, <1>5, <1>6, <1>7, <1>8, <1>9 DEF Next

(* SLOTS never answers less than it did before, whatever is killed, unless *)
(* a write of dynamic.conf is lost.                                        *)
THEOREM SlotsNeverDecreaseHolds ==
  ASSUME NoLostWrites
  PROVE  Spec => SlotsNeverDecrease
<1>1. Init => SlotsRemembered
  BY MinSlotsAssumption DEF Init, Blank, SlotsRemembered, MaxSlot, Larger, NoDynamicConf
<1>2. TypeInv /\ SlotsRemembered /\ [Next]_vars
          => SlotsRemembered' /\ [reported' >= reported]_vars
  BY SlotsRememberedNext
<1>3. QED
  BY <1>1, <1>2, TypeInit, TypeNext, PTL DEF Spec, SlotsNeverDecrease

-----------------------------------------------------------------------------
(***************************************************************************)
(* The inductive invariant of keeping slots: of the magazines that were    *)
(* looked at, each has the slots its state file had, or they are taken by  *)
(* one before it that has; and an update is needed if that changed what    *)
(* one of the state files will say.                                        *)
(***************************************************************************)
InLoops == pc \in {"keep", "assign"} \/ Assigning
LookedAt(b) == pc = "keep" => b < m

Kept(c) == volumes[c] > 0 /\ SameCount(c) /\ start[c] = prev[c].start
Displaced(b) == \E c \in 0 .. b - 1 : Kept(c) /\ Holds(c) \cap PrevRange(b) # {}

FilesNumbered == \A b \in Bay : bayFile[b].start > 0 => bayFile[b].num > 0
PrevNumbered ==
    pc # "off" => \A b \in Bay : prev[b] = NoState \/ (prev[b].num > 0 /\ prev[b].start > 0)

KeptSoFar == pc = "keep" => \A b \in Bay : HasSlots(b) => Kept(b)
KeptOrDisplaced ==
    InLoops => \A b \in Bay :
        LookedAt(b) /\ volumes[b] > 0 /\ SameCount(b) /\ start[b] # prev[b].start =>
            Displaced(b)
UpdateSoFar ==
    InLoops => (needsUpdate <=> \E b \in Bay : LookedAt(b) /\ Saved(b) # prev[b])

KeepInv == FilesNumbered /\ PrevNumbered /\ KeptSoFar /\ KeptOrDisplaced /\ UpdateSoFar

LEMMA StateType ==
  ASSUME TypeInv, NEW b \in Bay
  PROVE  /\ prev[b] \in BayState /\ prev[b].num \in Nat /\ prev[b].start \in Nat
         /\ bayFile[b] \in BayState /\ bayFile[b].num \in Nat /\ bayFile[b].start \in Nat
         /\ start[b] \in Nat /\ volumes[b] \in Int /\ volumes[b] >= NotMounted
         /\ b \in Nat /\ Bay = 0 .. Bays - 1 /\ Bays \in Nat
<1>1. prev[b] \in BayState /\ bayFile[b] \in BayState /\ start[b] \in Nat
  BY DEF TypeInv, TypeOK
<1>2. volumes[b] \in Contents
  BY DEF TypeInv, TypeOK
<1>3. b \in Nat /\ Bay = 0 .. Bays - 1 /\ Bays \in Nat
  BY BaysAssumption DEF Bay
<1>4. volumes[b] \in Int /\ volumes[b] >= NotMounted
  BY <1>2, MaxVolumesAssumption DEF Contents, NotMounted
<1>5. QED
  BY <1>1, <1>3, <1>4 DEF BayState

(* What the magazines before one were given is theirs for good.            *)
LEMMA DisplacedStays ==
  ASSUME TypeInv, NEW b \in Bay, Displaced(b), UNCHANGED <<volumes, prev>>,
         \A c \in Bay : start[c] > 0 => start'[c] = start[c],
         \A c \in Bay : volumes[c] > 0 /\ SameCount(c) => prev[c].start > 0
  PROVE  Displaced(b)'
<1>1. PICK c \in 0 .. b - 1 : Kept(c) /\ Holds(c) \cap PrevRange(b) # {}
  BY DEF Displaced
<1>2. c \in Bay
  BY StateType
<1>3. start'[c] = start[c]
  BY <1>1, <1>2 DEF Kept
<1>4. Kept(c)' /\ (Holds(c) \cap PrevRange(b) # {})'
  BY <1>1, <1>3 DEF Kept, Holds, PrevRange, SameCount
<1>5. QED
  BY <1>4 DEF Displaced

(* What is lost is lost to a magazine that is there already.               *)
LEMMA OverlapDisplaces ==
  ASSUME TypeInv, IInv, KeptSoFar, pc = "keep",
         PrevRange(m) \cap Taken(vslot) # {}
  PROVE  Displaced(m)
<1>1. PICK s \in PrevRange(m) : s \in Taken(vslot)
  OBVIOUS
<1>2. PICK c \in Bay : HasSlots(c) /\ s \in SlotRange(start[c], volumes[c])
  BY <1>1 DEF IInv, SlotsHoldVolumes
<1>3. c < m
  <2>1. m \in Bay /\ c \in Nat /\ start[c] > 0 /\ (c >= m => start[c] = 0)
    BY <1>2, StateType DEF IInv, Turn, HasSlots, TypeInv, TypeOK
  <2>2. m \in Nat
    BY <2>1, StateType
  <2>3. QED
    BY <2>1, <2>2
<1>4. Kept(c) /\ s \in Holds(c)
  BY <1>2 DEF KeptSoFar, Holds, HasSlots
<1>5. c \in 0 .. m - 1
  BY <1>3, StateType DEF TypeInv, TypeOK
<1>6. QED
  BY <1>1, <1>4, <1>5 DEF Displaced

LEMMA KeepKeeps ==
  ASSUME TypeInv, IInv, KeepInv, Keep
  PROVE  KeepInv'
<1>1. /\ pc = "keep" /\ m \in Bay
      /\ UNCHANGED <<volumes, prev, bayFile>>
      /\ \A b \in Bay : b >= m => start[b] = 0
  BY DEF Keep, ForEachBay, disk, IInv, Turn, TypeInv, TypeOK
<1>k. PICK k \in Bay : k = m
  BY <1>1
<1>2. \A b \in Bay : prev[b] = NoState \/ (prev[b].num > 0 /\ prev[b].start > 0)
  BY <1>1 DEF KeepInv, PrevNumbered
<1>3. \A b \in Bay : LookedAt(b)' <=> b <= m
  <2>1. \/ pc' = "keep" /\ m' = m + 1
        \/ pc' = "assign" /\ ~(m + 1 < Bays)
    BY <1>1 DEF Keep, ForEachBay
  <2>2. m \in Nat /\ Bay = 0 .. Bays - 1 /\ Bays \in Nat
    BY <1>1, StateType
  <2>3. QED
    BY <2>1, <2>2 DEF LookedAt
<1>4. \A b \in Bay : b # k => start'[b] = start[b]
  BY <1>1, <1>k DEF Keep, TypeInv, TypeOK
<1>5. start'[k] = IF volumes[k] # NotMounted /\ CanKeep(k) THEN prev[k].start ELSE 0
  <2>1. start[k] = 0 /\ start \in [Bay -> Nat]
    BY <1>1, <1>k, StateType DEF TypeInv, TypeOK
  <2>2. QED
    BY <1>k, <2>1 DEF Keep
<1>6. \A c \in Bay : start[c] > 0 => start'[c] = start[c]
  BY <1>1, <1>k, <1>4, StateType
<1>7. \A c \in Bay : volumes[c] > 0 /\ SameCount(c) => prev[c].start > 0
  BY <1>2 DEF SameCount, NoState
<1>8. KeptSoFar'
  <2>1. SUFFICES ASSUME NEW b \in Bay, HasSlots(b)'
                 PROVE  Kept(b)'
    BY DEF KeptSoFar
  <2>2. CASE b = k
    <3>1. volumes[k] # NotMounted /\ CanKeep(k) /\ start'[k] = prev[k].start
      BY <1>5, <2>1, <2>2, StateType DEF HasSlots
    <3>2. QED
      BY <1>1, <1>k, <2>1, <2>2, <3>1 DEF Kept, CanKeep, SameCount, HasSlots
  <2>3. CASE b # k
    BY <1>1, <1>k, <1>4, <2>1, <2>3 DEF KeepInv, KeptSoFar, Kept, HasSlots, SameCount
  <2>4. QED
    BY <2>2, <2>3
<1>9. KeptOrDisplaced'
  <2>1. SUFFICES ASSUME NEW b \in Bay, b <= k, volumes[b] > 0, SameCount(b),
                        start'[b] # prev[b].start
                 PROVE  Displaced(b)'
    BY <1>1, <1>k, <1>3 DEF KeptOrDisplaced, SameCount
  <2>2. Displaced(b)
    <3>1. CASE b = k
      <4>1. ~CanKeep(k)
        BY <1>5, <2>1, <3>1, StateType DEF NotMounted
      <4>2. PrevRange(k) \cap Taken(vslot) # {}
        BY <2>1, <3>1, <4>1 DEF CanKeep
      <4>3. QED
        BY <1>1, <1>k, <3>1, <4>2, OverlapDisplaces DEF KeepInv
    <3>2. CASE b # k
      <4>1. start[b] # prev[b].start /\ b < k
        BY <1>1, <1>k, <1>4, <2>1, <3>2, StateType
      <4>2. QED
        BY <1>1, <1>k, <2>1, <4>1 DEF KeepInv, KeptOrDisplaced, InLoops, LookedAt
    <3>3. QED
      BY <3>1, <3>2
  <2>3. QED
    BY <1>1, <1>k, <1>6, <1>7, <2>2, DisplacedStays
<1>10. UpdateSoFar'
  <2>1. needsUpdate <=> \E b \in Bay : b < k /\ Saved(b) # prev[b]
    BY <1>1, <1>k DEF KeepInv, UpdateSoFar, InLoops, LookedAt
  <2>2. \A b \in Bay : b # k => Saved(b)' = Saved(b)
    BY <1>1, <1>k, <1>4 DEF Saved
  <2>3. MovedOrGone(k) <=> Saved(k)' # prev[k]
    <3>1. prev[k] = NoState \/ (prev[k].num > 0 /\ prev[k].start > 0)
      BY <1>1, <1>k, <1>2
    <3>2. CASE volumes[k] = NotMounted
      <4>1. Saved(k)' = NoState
        BY <1>1, <1>k, <3>2 DEF Saved, NotMounted
      <4>2. QED
        BY <3>1, <3>2, <4>1 DEF MovedOrGone, NoState
    <3>3. CASE volumes[k] = 0
      <4>1. Saved(k)' = NoState
        BY <1>1, <1>k, <3>3 DEF Saved
      <4>2. CanKeep(k) <=> prev[k].num = 0
        BY <1>1, <1>k, <3>3, StateType DEF CanKeep, SameCount, PrevRange, SlotRange
      <4>3. QED
        BY <3>1, <3>3, <4>1, <4>2 DEF MovedOrGone, NoState, NotMounted
    <3>4. CASE volumes[k] > 0
      <4>1. Saved(k)' = [num |-> volumes[k], start |-> start'[k]]
        BY <1>1, <1>k, <3>4 DEF Saved
      <4>2. MovedOrGone(k) <=> ~CanKeep(k)
        BY <3>4 DEF MovedOrGone, NotMounted
      <4>3. CASE CanKeep(k)
        <5>1. start'[k] = prev[k].start /\ volumes[k] = prev[k].num
          BY <1>5, <1>k, <3>4, <4>3 DEF CanKeep, SameCount, NotMounted
        <5>2. Saved(k)' = prev[k]
          BY <1>1, <1>k, <4>1, <5>1, StateType DEF BayState
        <5>3. QED
          BY <4>2, <4>3, <5>2
      <4>4. CASE ~CanKeep(k)
        <5>1. start'[k] = 0
          BY <1>5, <4>4
        <5>2. Saved(k)' # prev[k]
          BY <3>1, <3>4, <4>1, <5>1 DEF NoState
        <5>3. QED
          BY <4>2, <4>4, <5>2
      <4>5. QED
        BY <4>3, <4>4
    <3>5. QED
      BY <1>1, <1>k, <3>2, <3>3, <3>4, StateType DEF NotMounted
  <2>4. needsUpdate' <=> needsUpdate \/ MovedOrGone(k)
    BY <1>k DEF Keep
  <2>5. (\E b \in Bay : b <= k /\ Saved(b)' # prev[b])
           <=> (\E b \in Bay : b < k /\ Saved(b) # prev[b]) \/ Saved(k)' # prev[k]
    <3>1. \A b \in Bay : b <= k <=> b < k \/ b = k
      BY <1>1, <1>k, StateType
    <3>2. \A b \in Bay : b < k => b # k
      BY <1>1, <1>k, StateType
    <3>3. QED
      BY <1>1, <1>k, <2>2, <3>1, <3>2
  <2>6. needsUpdate' <=> \E b \in Bay : b <= k /\ Saved(b)' # prev[b]
    BY <2>1, <2>3, <2>4, <2>5
  <2>7. QED
    BY <1>1, <1>k, <1>3, <2>6 DEF UpdateSoFar
<1>11. FilesNumbered' /\ PrevNumbered'
  BY <1>1, <1>k DEF KeepInv, FilesNumbered, PrevNumbered
<1>12. QED
  BY <1>8, <1>9, <1>10, <1>11 DEF KeepInv

(* The second loop gives slots only to magazines that have none, and never *)
(* those that were lost, since they are taken.                             *)
LEMMA AssignKeeps ==
  ASSUME TypeInv, IInv, KeepInv, Assign
  PROVE  KeepInv'
<1>1. /\ pc = "assign" /\ m \in Bay /\ pc' \in {"assign", "save"}
      /\ UNCHANGED <<volumes, prev, bayFile, needsUpdate>>
  BY DEF Assign, ForEachBay, disk, TypeInv, TypeOK
<1>2. \A b \in Bay : prev[b] = NoState \/ (prev[b].num > 0 /\ prev[b].start > 0)
  BY <1>1 DEF KeepInv, PrevNumbered
<1>3. \A b \in Bay : LookedAt(b) /\ LookedAt(b)'
  BY <1>1 DEF LookedAt
<1>4. \A c \in Bay : volumes[c] > 0 /\ SameCount(c) => prev[c].start > 0
  BY <1>2 DEF SameCount, NoState
<1>5. \A b \in Bay : start'[b] # start[b] =>
         /\ volumes[b] > 0 /\ start[b] = 0 /\ start'[b] > 0
         /\ Fits(Taken(vslot), start'[b], volumes[b])
  <2>1. SUFFICES ASSUME NEW b \in Bay, start'[b] # start[b]
                 PROVE  /\ volumes[b] > 0 /\ start[b] = 0 /\ start'[b] > 0
                        /\ Fits(Taken(vslot), start'[b], volumes[b])
    OBVIOUS
  <2>2. NeedsRange(m) /\ b = m
    BY <1>1, <2>1 DEF Assign, TypeInv, TypeOK
  <2>3. start'[b] = FindEmptySlotRange(Taken(vslot), size, volumes[b])
    BY <1>1, <2>2 DEF Assign, TypeInv, TypeOK
  <2>4. /\ start'[b] \in 1 .. size
        /\ Fits(Taken(vslot), start'[b], volumes[b])
    BY <2>2, <2>3, FreeRange
  <2>5. QED
    BY <2>2, <2>4 DEF NeedsRange, TypeInv, TypeOK
<1>6. \A c \in Bay : start[c] > 0 => start'[c] = start[c]
  BY <1>5
<1>7. \A b \in Bay :
         LookedAt(b) /\ volumes[b] > 0 /\ SameCount(b) /\ start[b] # prev[b].start => Displaced(b)
  BY <1>1 DEF KeepInv, KeptOrDisplaced, InLoops
(* A magazine that lost its slots does not get them back.                  *)
<1>8. ASSUME NEW b \in Bay, volumes[b] > 0, SameCount(b), start'[b] # start[b]
      PROVE  /\ start[b] # prev[b].start /\ Displaced(b)
             /\ start'[b] # prev[b].start
  <2>1. start[b] = 0 /\ prev[b].start > 0
    BY <1>4, <1>5, <1>8
  <2>2. start[b] # prev[b].start /\ Displaced(b)
    BY <1>3, <1>7, <1>8, <2>1
  <2>3. PICK c \in 0 .. b - 1 : Kept(c) /\ Holds(c) \cap PrevRange(b) # {}
    BY <2>2 DEF Displaced
  <2>4. c \in Bay
    BY <2>3, StateType
  <2>5. HasSlots(c) /\ Holds(c) = SlotRange(start[c], volumes[c])
    BY <1>4, <2>3, <2>4 DEF Kept, HasSlots, Holds
  <2>6. Holds(c) \subseteq Taken(vslot)
    <3>1. \A s \in SlotRange(start[c], volumes[c]) :
             s \in DOMAIN vslot /\ vslot[s] = [bay |-> c, mslot |-> s - start[c]]
      BY <1>1, <2>4, <2>5 DEF IInv, VolumesInSlots
    <3>2. c # EmptySlot.bay
      BY <2>4, StateType DEF EmptySlot
    <3>3. \A s \in SlotRange(start[c], volumes[c]) : vslot[s] # EmptySlot
      <4>1. SUFFICES ASSUME NEW s \in SlotRange(start[c], volumes[c])
                     PROVE  vslot[s] # EmptySlot
        OBVIOUS
      <4>2. vslot[s] = [bay |-> c, mslot |-> s - start[c]]
        BY <3>1
      <4>3. vslot[s].bay = c
        BY <4>2
      <4>4. QED
        BY <3>2, <4>3
    <3>4. QED
      BY <2>5, <3>1, <3>3 DEF Taken
  <2>7. PrevRange(b) \cap Taken(vslot) # {}
    BY <2>3, <2>6
  <2>8. start'[b] = prev[b].start => PrevRange(b) = SlotRange(start'[b], volumes[b])
    BY <1>8 DEF PrevRange, SameCount
  <2>9. start'[b] # prev[b].start
    BY <1>5, <1>8, <2>7, <2>8 DEF Fits
  <2>10. QED
    BY <2>2, <2>9
<1>9. KeptOrDisplaced'
  <2>1. SUFFICES ASSUME NEW b \in Bay, volumes[b] > 0, SameCount(b), start'[b] # prev[b].start
                 PROVE  Displaced(b)'
    BY <1>1 DEF KeptOrDisplaced, SameCount
  <2>2. Displaced(b)
    BY <1>3, <1>7, <1>8, <2>1
  <2>3. QED
    BY <1>1, <1>4, <1>6, <2>2, DisplacedStays
<1>10. UpdateSoFar'
  <2>1. needsUpdate <=> \E b \in Bay : Saved(b) # prev[b]
    BY <1>1, <1>3 DEF KeepInv, UpdateSoFar, InLoops
  <2>2. ASSUME NEW b \in Bay
        PROVE  Saved(b)' # prev[b] <=> Saved(b) # prev[b]
    <3>1. CASE start'[b] = start[b]
      BY <1>1, <3>1 DEF Saved
    <3>2. CASE start'[b] # start[b]
      <4>1. /\ Saved(b) = [num |-> volumes[b], start |-> start[b]]
            /\ Saved(b)' = [num |-> volumes[b], start |-> start'[b]]
        BY <1>1, <1>5, <3>2 DEF Saved
      <4>2. Saved(b).num = volumes[b] /\ Saved(b).start = start[b]
        BY <4>1
      <4>3. Saved(b)'.num = volumes[b] /\ Saved(b)'.start = start'[b]
        BY <4>1
      <4>4. start[b] # prev[b].start \/ ~SameCount(b)
        BY <1>5, <1>8, <3>2
      <4>5. start'[b] # prev[b].start \/ ~SameCount(b)
        BY <1>5, <1>8, <3>2
      <4>6. QED
        BY <4>2, <4>3, <4>4, <4>5 DEF SameCount
    <3>3. QED
      BY <3>1, <3>2
  <2>3. QED
    BY <1>1, <1>3, <2>1, <2>2 DEF UpdateSoFar
<1>11. FilesNumbered' /\ PrevNumbered' /\ KeptSoFar'
  BY <1>1 DEF KeepInv, FilesNumbered, PrevNumbered, KeptSoFar
<1>12. QED
  BY <1>9, <1>10, <1>11 DEF KeepInv

(* A state file that is written has both numbers, or none.                 *)
LEMMA SavedNumbered ==
  ASSUME TypeInv, FilesNumbered, NEW k \in Bay, SaveBay(k)
  PROVE  FilesNumbered'
<1>1. \A b \in Bay : bayFile'[b] \in {bayFile[b], Saved(k), NoState}
  BY DEF SaveBay, Write, TypeInv, TypeOK
<1>2. Saved(k).start > 0 => Saved(k).num > 0
  BY DEF Saved, NoState
<1>3. QED
  BY <1>1, <1>2 DEF FilesNumbered, NoState

LEMMA KeepInvNext ==
  ASSUME TypeInv, IInv, KeepInv, [Next]_vars
  PROVE  KeepInv'
<1> USE DEF KeepInv
<1>ended. ASSUME pc' \in {"off", "create", "done"}, UNCHANGED prev \/ pc' = "off", pc # "off"
          PROVE  PrevNumbered' /\ KeptSoFar' /\ KeptOrDisplaced' /\ UpdateSoFar'
  BY <1>ended DEF InLoops, Assigning, PrevNumbered, KeptSoFar, KeptOrDisplaced, UpdateSoFar
<1>same. ASSUME pc \in {"save", "dynamic"}, pc' \in {"save", "dynamic", "ready"},
                UNCHANGED <<volumes, prev, start, needsUpdate>>
         PROVE  PrevNumbered' /\ KeptSoFar' /\ KeptOrDisplaced' /\ UpdateSoFar'
  BY <1>same DEF InLoops, Assigning, LookedAt, PrevNumbered, KeptSoFar, KeptOrDisplaced,
     UpdateSoFar, Displaced, Kept, Holds, PrevRange, SameCount, Saved
<1>1. CASE UNCHANGED vars
  BY <1>1 DEF vars, disk, memory, mapping, InLoops, Assigning, LookedAt, FilesNumbered,
     PrevNumbered, KeptSoFar, KeptOrDisplaced, UpdateSoFar, Displaced, Kept, Holds, HasSlots,
     PrevRange, SameCount, Saved
<1>2. ASSUME NEW b \in Bay, ChangeMagazine(b)
      PROVE  KeepInv'
  BY <1>2 DEF ChangeMagazine, memory, InLoops, Assigning, FilesNumbered, PrevNumbered,
     KeptSoFar, KeptOrDisplaced, UpdateSoFar
<1>3. CASE Begin
  <2>1. /\ pc' = "keep" /\ m' = 0 /\ needsUpdate' = FALSE /\ bayFile' = prev'
        /\ start' = [b \in Bay |-> 0]
        /\ prev' = [b \in Bay |-> Restored(bayFile[b])]
    BY <1>3 DEF Begin
  <2>2. \A b \in Bay : prev'[b] = NoState \/ (prev'[b].num > 0 /\ prev'[b].start > 0)
    BY <2>1 DEF Restored, FilesNumbered
  <2>3. \A b \in Bay : ~LookedAt(b)'
    BY <2>1, StateType DEF LookedAt
  <2>4. KeptSoFar'
    BY <2>1 DEF KeptSoFar, HasSlots
  <2>5. FilesNumbered'
    BY <2>1, <2>2 DEF FilesNumbered, NoState
  <2>6. QED
    BY <2>1, <2>2, <2>3, <2>4, <2>5 DEF PrevNumbered, KeptOrDisplaced, UpdateSoFar
<1>4. CASE Keep \/ Assign
  BY <1>4, KeepKeeps, AssignKeeps
<1>5. CASE SaveBays
  <2>1. PICK k \in Bay : k = m
    BY DEF TypeInv, TypeOK
  <2>2. SaveBay(k)
    BY <1>5, <2>1 DEF SaveBays, SaveBay, Write
  <2>3. FilesNumbered'
    BY <2>2, SavedNumbered
  <2>4. QED
    BY <1>5, <1>same, <2>3 DEF SaveBays, ForEachBay, mapping
<1>6. CASE SaveDynamic
  BY <1>6, <1>same DEF SaveDynamic, mapping, FilesNumbered
<1>7. ASSUME NEW b \in Bay, NEW count \in 1 .. MaxVolumes, CreateVolumes(b, count)
      PROVE  KeepInv'
  BY <1>7, <1>ended DEF CreateVolumes, mapping, disk, FilesNumbered
<1>8. CASE CreateVolume \/ Finish \/ Crash
  BY <1>8, <1>ended DEF CreateVolume, Finish, Crash, Exit, disk, FilesNumbered
<1>9. CASE CreateFails \/ CreateSucceeds
  <2>1. PICK k \in Bay : k = making.bay
    BY <1>9 DEF CreateFails, CreateSucceeds, TypeInv, Making
  <2>2. FilesNumbered'
    <3>1. SaveBay(k) \/ UNCHANGED bayFile
      BY <1>9, <2>1 DEF CreateFails, CreateSucceeds, SaveBay, Write
    <3>2. CASE SaveBay(k)
      BY <3>2, SavedNumbered
    <3>3. CASE UNCHANGED bayFile
      BY <3>3 DEF FilesNumbered
    <3>4. QED
      BY <3>1, <3>2, <3>3
  <2>3. QED
    BY <1>9, <1>ended, <2>2 DEF CreateFails, CreateSucceeds, Exit
<1>10. QED
  BY <1>1, <1>2, <1>3, <1>4, <1>5, <1>6, <1>7, <1>8, <1>9 DEF Next

LEMMA KeepInvAlways == Spec => [](TypeInv /\ IInv /\ KeepInv)
<1>1. Init => TypeInv /\ IInv /\ KeepInv
  <2> SUFFICES ASSUME Init
               PROVE  TypeInv /\ IInv /\ KeepInv
    OBVIOUS
  <2>1. pc = "off" /\ bayFile = [b \in Bay |-> NoState]
    BY DEF Init, Blank
  <2>2. TypeInv /\ IInv
    BY <2>1, TypeInit DEF IInv, Assigning
  <2>3. KeepInv
    BY <2>1 DEF KeepInv, FilesNumbered, PrevNumbered, KeptSoFar, KeptOrDisplaced, UpdateSoFar,
       InLoops, Assigning, NoState
  <2>4. QED
    BY <2>2, <2>3
<1>2. (TypeInv /\ IInv /\ KeepInv) /\ [Next]_vars => (TypeInv /\ IInv /\ KeepInv)'
  BY TypeNext, IInvNext, KeepInvNext
<1>3. QED
  BY <1>1, <1>2, PTL DEF Spec

(***************************************************************************)
(* A magazine with as many volumes as before keeps its slots, unless one   *)
(* before it in the configuration kept some of them: for any number of     *)
(* magazines, whatever was mounted, killed or lost before.                 *)
(***************************************************************************)
THEOREM KeepsSlotsHolds == Spec => []KeepsSlots
<1>1. TypeInv /\ IInv /\ KeepInv => KeepsSlots
  <2> SUFFICES ASSUME TypeInv, KeepInv, Assigning, NEW b \in Bay,
                      volumes[b] > 0, SameCount(b), start[b] # prev[b].start
               PROVE  \E c \in 0 .. b - 1 :
                         /\ SameCount(c) /\ start[c] = prev[c].start
                         /\ Holds(c) \cap PrevRange(b) # {}
    BY DEF KeepsSlots
  <2>1. Displaced(b)
    BY DEF KeepInv, KeptOrDisplaced, InLoops, LookedAt, Assigning
  <2>2. QED
    BY <2>1 DEF Displaced, Kept
<1>2. QED
  BY KeepInvAlways, <1>1, PTL

(***************************************************************************)
(* An update is found to be needed exactly when the slots of a magazine    *)
(* are not those of its state file.                                        *)
(***************************************************************************)
THEOREM UpdateIffRangesChangeHolds == Spec => []UpdateIffRangesChange
<1>1. TypeInv /\ IInv /\ KeepInv => UpdateIffRangesChange
  BY DEF KeepInv, UpdateSoFar, InLoops, LookedAt, Assigning, UpdateIffRangesChange
<1>2. QED
  BY KeepInvAlways, <1>1, PTL

-----------------------------------------------------------------------------
(***************************************************************************)
(* The inductive invariant of a second REFRESH: once a mapping is saved    *)
(* and as long as no magazine changes, the state files say what is on the  *)
(* magazines, in ranges that do not overlap; and an invocation that reads  *)
(* them finds nothing to change.                                           *)
(***************************************************************************)
Initializing == pc \in {"keep", "assign", "save", "dynamic"}

FilesTrue ==
    settled =>
        /\ \A b \in Bay :
              \/ files[b] > 0 /\ bayFile[b].num = files[b] /\ bayFile[b].start > 0
              \/ files[b] <= 0 /\ bayFile[b] = NoState
        /\ \A b, c \in Bay :
              files[b] > 0 /\ files[c] > 0 /\ b # c =>
                  SlotRange(bayFile[b].start, files[b])
                      \cap SlotRange(bayFile[c].start, files[c]) = {}

NothingToChange ==
    settled /\ Initializing =>
        /\ prev = bayFile
        /\ ~needsUpdate
        /\ \A b \in Bay : LookedAt(b) /\ volumes[b] > 0 => start[b] = prev[b].start

Unsettled == pc = "create" => ~settled

AgainInv == FilesTrue /\ NothingToChange /\ Unsettled

(* When slots have been assigned, no two magazines have one of them both.  *)
LEMMA RangesApart ==
  ASSUME TypeInv, IInv, Assigning, NEW b \in Bay, NEW c \in Bay, b # c,
         volumes[b] > 0, volumes[c] > 0
  PROVE  SlotRange(start[b], volumes[b]) \cap SlotRange(start[c], volumes[c]) = {}
<1>1. HasSlots(b) /\ HasSlots(c) /\ VolumesInSlots
  BY DEF IInv, Turn, HasSlots
<1>2. SUFFICES ASSUME NEW s \in SlotRange(start[b], volumes[b]),
                      s \in SlotRange(start[c], volumes[c])
               PROVE  FALSE
  OBVIOUS
<1>3. /\ vslot[s] = [bay |-> b, mslot |-> s - start[b]]
      /\ vslot[s] = [bay |-> c, mslot |-> s - start[c]]
  BY <1>1, <1>2 DEF VolumesInSlots
<1>4. vslot[s].bay = b /\ vslot[s].bay = c
  BY <1>3
<1>5. QED
  BY <1>4

LEMMA KeepAgain ==
  ASSUME TypeInv, IInv, AgainInv, Keep
  PROVE  AgainInv'
<1>1. /\ pc = "keep" /\ m \in Bay
      /\ UNCHANGED <<files, volumes, prev, bayFile, settled>>
      /\ volumes = files
  BY DEF Keep, ForEachBay, disk, TypeInv, TypeOK, Making
<1>k. PICK k \in Bay : k = m
  BY <1>1
<1>2. FilesTrue' /\ Unsettled'
  BY <1>1 DEF AgainInv, FilesTrue, Unsettled, Keep, ForEachBay
<1>3. SUFFICES ASSUME settled
               PROVE  /\ prev = bayFile
                      /\ ~needsUpdate'
                      /\ \A b \in Bay :
                            LookedAt(b)' /\ volumes[b] > 0 => start'[b] = prev[b].start
  BY <1>1, <1>2 DEF AgainInv, NothingToChange
<1>4. /\ prev = bayFile /\ ~needsUpdate
      /\ \A b \in Bay : b < k /\ volumes[b] > 0 => start[b] = prev[b].start
  BY <1>1, <1>k, <1>3 DEF AgainInv, NothingToChange, Initializing, LookedAt
<1>5. \A b \in Bay :
         \/ volumes[b] > 0 /\ prev[b].num = volumes[b] /\ prev[b].start > 0
         \/ volumes[b] <= 0 /\ prev[b] = NoState
  BY <1>1, <1>3, <1>4 DEF AgainInv, FilesTrue
<1>6. \A b \in Bay : LookedAt(b)' <=> b <= k
  <2>1. \/ pc' = "keep" /\ m' = m + 1
        \/ pc' = "assign" /\ ~(m + 1 < Bays)
    BY <1>1 DEF Keep, ForEachBay
  <2>2. k \in Nat /\ Bay = 0 .. Bays - 1 /\ Bays \in Nat
    BY StateType
  <2>3. QED
    BY <1>k, <2>1, <2>2 DEF LookedAt
<1>7. CanKeep(k) \/ volumes[k] = NotMounted
  <2>1. SUFFICES ASSUME volumes[k] # NotMounted
                 PROVE  CanKeep(k)
    OBVIOUS
  <2>2. SameCount(k)
    BY <1>5, <2>1, StateType DEF SameCount, NotMounted, NoState
  <2>3. ASSUME NEW s \in PrevRange(k), s \in Taken(vslot)
        PROVE  FALSE
    <3>1. PICK c \in Bay : HasSlots(c) /\ s \in SlotRange(start[c], volumes[c])
      BY <1>1, <2>3 DEF IInv, SlotsHoldVolumes
    <3>2. c < k /\ c # k
      <4>1. start[c] > 0 /\ (c >= k => start[c] = 0)
        BY <1>1, <1>k, <3>1 DEF IInv, Turn, HasSlots
      <4>2. c \in Nat /\ k \in Nat
        BY StateType
      <4>3. QED
        BY <4>1, <4>2
    <3>3. start[c] = prev[c].start /\ volumes[c] > 0
      BY <1>4, <3>1, <3>2 DEF HasSlots
    <3>4. volumes[k] > 0
      BY <2>2, <2>3, StateType DEF PrevRange, SlotRange, SameCount
    <3>5. SlotRange(prev[c].start, volumes[c]) \cap SlotRange(prev[k].start, volumes[k]) = {}
      BY <1>1, <1>3, <1>4, <3>2, <3>3, <3>4 DEF AgainInv, FilesTrue
    <3>6. s \in SlotRange(prev[k].start, volumes[k])
      BY <2>2, <2>3 DEF PrevRange, SameCount
    <3>7. QED
      BY <3>1, <3>3, <3>5, <3>6
  <2>4. QED
    BY <2>2, <2>3 DEF CanKeep
<1>8. ~needsUpdate'
  <2>1. ~MovedOrGone(k)
    BY <1>5, <1>7 DEF MovedOrGone, NoState, NotMounted
  <2>2. QED
    BY <1>4, <1>k, <2>1 DEF Keep
<1>9. volumes[k] > 0 => start'[k] = prev[k].start
  BY <1>1, <1>7, <1>k DEF Keep, NotMounted, TypeInv, TypeOK
<1>10. \A b \in Bay : b # k => start'[b] = start[b]
  BY <1>1, <1>k DEF Keep, TypeInv, TypeOK
<1>11. \A b \in Bay : b <= k => b < k \/ b = k
  BY StateType
<1>12. QED
  BY <1>4, <1>6, <1>8, <1>9, <1>10, <1>11

LEMMA AgainNext ==
  ASSUME TypeInv, IInv, KeepInv, AgainInv, [Next]_vars
  PROVE  AgainInv'
<1> USE DEF AgainInv, Unsettled
<1>1. CASE UNCHANGED vars
  BY <1>1 DEF vars, disk, memory, mapping, FilesTrue, NothingToChange, Initializing, LookedAt
<1>2. ASSUME NEW b \in Bay, ChangeMagazine(b)
      PROVE  AgainInv'
  BY <1>2 DEF ChangeMagazine, FilesTrue, NothingToChange
<1>3. CASE Begin
  <2>1. /\ pc' = "keep" /\ m' = 0 /\ needsUpdate' = FALSE
        /\ bayFile' = prev' /\ prev' = [b \in Bay |-> Restored(bayFile[b])]
        /\ UNCHANGED <<files, settled>>
    BY <1>3 DEF Begin
  <2>2. settled => bayFile' = bayFile
    BY <2>1 DEF FilesTrue, Restored, TypeInv, TypeOK
  <2>3. FilesTrue'
    BY <2>1, <2>2 DEF FilesTrue
  <2>4. \A b \in Bay : ~LookedAt(b)'
    BY <2>1, StateType DEF LookedAt
  <2>5. QED
    BY <2>1, <2>3, <2>4 DEF NothingToChange
<1>4. CASE Keep
  BY <1>4, KeepAgain
<1>5. CASE Assign
  <2>1. /\ pc = "assign" /\ pc' \in {"assign", "save"} /\ m \in Bay
        /\ UNCHANGED <<files, volumes, prev, bayFile, settled, needsUpdate>>
        /\ volumes = files
    BY <1>5 DEF Assign, ForEachBay, disk, TypeInv, TypeOK, Making
  <2>2. settled => UNCHANGED start
    <3>1. SUFFICES ASSUME settled
                   PROVE  ~NeedsRange(m)
      BY <1>5 DEF Assign
    <3>2. volumes[m] > 0 => start[m] > 0
      <4>1. prev = bayFile /\ (volumes[m] > 0 => start[m] = prev[m].start)
        BY <2>1, <3>1 DEF NothingToChange, Initializing, LookedAt
      <4>2. volumes[m] > 0 => bayFile[m].start > 0
        BY <2>1, <3>1, StateType DEF FilesTrue
      <4>3. QED
        BY <4>1, <4>2
    <3>3. QED
      BY <3>2 DEF NeedsRange
  <2>3. \A b \in Bay : LookedAt(b)
    BY <2>1 DEF LookedAt
  <2>4. QED
    BY <2>1, <2>2, <2>3 DEF FilesTrue, NothingToChange, Initializing
<1>6. CASE SaveBays
  <2>1. /\ pc = "save" /\ pc' \in {"save", "dynamic"} /\ m \in Bay
        /\ UNCHANGED <<files, mapping>> /\ volumes = files
    BY <1>6 DEF SaveBays, ForEachBay, mapping, TypeInv, TypeOK, Making
  <2>k. PICK k \in Bay : k = m
    BY <2>1
  <2>2. settled' => settled /\ bayFile'[k] = Saved(k)
    BY <1>6, <2>k DEF SaveBays
  <2>3. \A b \in Bay : b # k => bayFile'[b] = bayFile[b]
    BY <1>6, <2>k DEF SaveBays, SaveBay, Write, TypeInv, TypeOK
  <2>4. settled => Saved(k) = bayFile[k]
    <3>1. SUFFICES ASSUME settled
                   PROVE  Saved(k) = bayFile[k]
      OBVIOUS
    <3>2. prev = bayFile /\ ~needsUpdate
      BY <2>1, <3>1 DEF NothingToChange, Initializing
    <3>3. Saved(k) = prev[k]
      BY <2>1, <3>2 DEF KeepInv, UpdateSoFar, InLoops, Assigning, LookedAt
    <3>4. QED
      BY <3>2, <3>3
  <2>5. settled' => bayFile' = bayFile
    <3>1. bayFile' \in [Bay -> BayState] /\ bayFile \in [Bay -> BayState]
      BY TypeNext DEF TypeInv, TypeOK
    <3>2. QED
      BY <2>2, <2>3, <2>4, <3>1
  <2>6. QED
    BY <2>1, <2>2, <2>5 DEF FilesTrue, NothingToChange, Initializing, LookedAt, mapping
<1>7. CASE SaveDynamic
  <2>1. /\ pc = "dynamic" /\ pc' = "ready" /\ volumes = files
        /\ UNCHANGED <<files, bayFile>>
        /\ settled' <=> \A b \in Bay : bayFile[b] = Saved(b)
    BY <1>7 DEF SaveDynamic, TypeInv, Making
  <2>2. ASSUME settled'
        PROVE  FilesTrue'
    <3>1. \A b \in Bay : files[b] > 0 => bayFile[b] = [num |-> files[b], start |-> start[b]]
      <4>1. SUFFICES ASSUME NEW b \in Bay, volumes[b] > 0
                     PROVE  bayFile[b] = [num |-> volumes[b], start |-> start[b]]
        BY <2>1
      <4>2. bayFile[b] = Saved(b)
        BY <2>1, <2>2
      <4>3. QED
        BY <4>1, <4>2 DEF Saved
    <3>2. \A b \in Bay : files[b] > 0 => bayFile[b].num = files[b] /\ bayFile[b].start = start[b]
      <4>1. SUFFICES ASSUME NEW b \in Bay, files[b] > 0
                     PROVE  bayFile[b].num = files[b] /\ bayFile[b].start = start[b]
        OBVIOUS
      <4>2. bayFile[b] = [num |-> files[b], start |-> start[b]]
        BY <3>1, <4>1
      <4>3. QED
        BY <4>2
    <3>3. \A b \in Bay : files[b] > 0 => start[b] > 0
      BY <2>1 DEF IInv, Turn, Assigning
    <3>4. \A b \in Bay : ~(files[b] > 0) => bayFile[b] = NoState
      BY <2>1, <2>2 DEF Saved
    <3>5. \A b \in Bay : ~(files[b] > 0) <=> files[b] <= 0
      BY <2>1, StateType
    <3>6. \A b, c \in Bay :
             files[b] > 0 /\ files[c] > 0 /\ b # c =>
                 SlotRange(start[b], files[b]) \cap SlotRange(start[c], files[c]) = {}
      BY <2>1, RangesApart DEF Assigning
    <3>7. QED
      BY <2>1, <3>2, <3>3, <3>4, <3>5, <3>6 DEF FilesTrue
  <2>3. QED
    BY <2>1, <2>2 DEF FilesTrue, NothingToChange, Initializing
<1>8. ASSUME NEW b \in Bay, NEW count \in 1 .. MaxVolumes, CreateVolumes(b, count)
      PROVE  AgainInv'
  BY <1>8 DEF CreateVolumes, FilesTrue, NothingToChange
<1>9. CASE CreateVolume \/ CreateFails \/ CreateSucceeds
  BY <1>9 DEF CreateVolume, CreateFails, CreateSucceeds, FilesTrue, NothingToChange
<1>10. CASE Finish \/ Crash
  BY <1>10 DEF Finish, Crash, Exit, disk, FilesTrue, NothingToChange, Initializing
<1>11. QED
  BY <1>1, <1>2, <1>3, <1>4, <1>5, <1>6, <1>7, <1>8, <1>9, <1>10 DEF Next

(***************************************************************************)
(* Initializing again is the identity, for any number of magazines,        *)
(* whatever invocations were killed or cheated of a write in between.      *)
(***************************************************************************)
THEOREM RefreshIsIdempotentHolds == Spec => []RefreshIsIdempotent
<1>1. Init => AgainInv
  BY DEF Init, Blank, AgainInv, FilesTrue, NothingToChange, Unsettled
<1>2. TypeInv /\ IInv /\ KeepInv /\ AgainInv /\ [Next]_vars => AgainInv'
  BY AgainNext
<1>3. AgainInv => RefreshIsIdempotent
  <2> SUFFICES ASSUME AgainInv, settled, pc \in {"save", "dynamic"}
               PROVE  /\ ~needsUpdate
                      /\ \A b \in Bay : volumes[b] > 0 => start[b] = prev[b].start
    BY DEF RefreshIsIdempotent
  <2>1. QED
    BY DEF AgainInv, NothingToChange, Initializing, LookedAt
<1>4. QED
  BY KeepInvAlways, <1>1, <1>2, <1>3, PTL DEF Spec

-----------------------------------------------------------------------------
(***************************************************************************)
(* How far the slots reach.  No range is longer than MaxVolumes, so it     *)
(* meets at most two of the windows of that length, with its first and     *)
(* with its last slot.  Of 2 * Bays - 1 windows one is therefore free for  *)
(* a magazine that is not mapped, and no range ever starts above the last. *)
(***************************************************************************)
LastStart == 2 * (Bays - 1) * MaxVolumes + 1
HighestSlot == (2 * Bays - 1) * MaxVolumes
SlotBound == Larger(MinSlots, HighestSlot)

Window(j) == SlotRange(j * MaxVolumes + 1, MaxVolumes)

LEMMA BoundsType ==
  /\ LastStart \in Nat \ {0} /\ HighestSlot \in Nat /\ SlotBound \in Nat
  /\ LastStart + MaxVolumes = HighestSlot + 1
  /\ MinSlots <= SlotBound /\ HighestSlot <= SlotBound
<1>1. Bays \in Nat \ {0} /\ MaxVolumes \in Nat
  BY BaysAssumption, MaxVolumesAssumption
<1>2. PICK x \in Nat : x = (Bays - 1) * MaxVolumes
  BY <1>1
<1>3. LastStart = 2 * x + 1 /\ HighestSlot = 2 * x + MaxVolumes
  BY <1>1, <1>2 DEF LastStart, HighestSlot
<1>4. QED
  BY <1>1, <1>3, MinSlotsAssumption DEF SlotBound, Larger

(* Windows do not overlap.                                                 *)
LEMMA WindowsApart ==
  ASSUME NEW i \in Nat, NEW j \in Nat, NEW s \in Int, s \in Window(i), s \in Window(j)
  PROVE  i = j
<1>1. ASSUME NEW x \in Nat, NEW y \in Nat, x < y
      PROVE  x * MaxVolumes + MaxVolumes <= y * MaxVolumes
  <2>1. PICK d \in Nat : y = x + 1 + d
    BY <1>1
  <2>2. y * MaxVolumes = x * MaxVolumes + MaxVolumes + d * MaxVolumes
    BY <2>1, MaxVolumesAssumption
  <2>3. x * MaxVolumes \in Nat /\ d * MaxVolumes \in Nat
    BY MaxVolumesAssumption
  <2>4. QED
    BY <2>2, <2>3, MaxVolumesAssumption
<1>2. i * MaxVolumes \in Nat /\ j * MaxVolumes \in Nat
  BY MaxVolumesAssumption
<1>3. /\ i * MaxVolumes + 1 <= s /\ s <= i * MaxVolumes + MaxVolumes
      /\ j * MaxVolumes + 1 <= s /\ s <= j * MaxVolumes + MaxVolumes
  BY <1>2, MaxVolumesAssumption DEF Window, SlotRange
<1>4. ~(i < j) /\ ~(j < i)
  BY <1>1, <1>2, <1>3, MaxVolumesAssumption
<1>5. QED
  BY <1>4

LEMMA WindowFree ==
  ASSUME TypeInv, SlotsHoldVolumes, NEW k \in Bay, start[k] = 0
  PROVE  \E j \in 0 .. 2 * (Bays - 1) : Fits(Taken(vslot), j * MaxVolumes + 1, MaxVolumes)
<1> DEFINE Js == 0 .. 2 * (Bays - 1)
           Ends == 0 .. 2 * (Bays - 1) - 1
           Number(c) == IF c < k THEN c ELSE c - 1
           Last(c) == start[c] + volumes[c] - 1
           EndIn(c, j, e) == \/ e = 2 * Number(c) /\ start[c] \in Window(j)
                             \/ e = 2 * Number(c) + 1 /\ Last(c) \in Window(j)
<1>1. Bays \in Nat \ {0} /\ MaxVolumes \in Nat /\ Bay = 0 .. Bays - 1
  BY BaysAssumption, MaxVolumesAssumption DEF Bay
<1>2. \A c \in Bay : HasSlots(c) => /\ c # k /\ start[c] \in Nat
                                    /\ volumes[c] \in 1 .. MaxVolumes
  BY <1>1 DEF TypeInv, TypeOK, HasSlots, Contents, NotMounted
<1>3. SUFFICES ASSUME \A j \in Js : ~Fits(Taken(vslot), j * MaxVolumes + 1, MaxVolumes)
               PROVE  FALSE
  OBVIOUS
<1>4. ASSUME NEW j \in Js
      PROVE  \E e \in Ends : \E c \in Bay : HasSlots(c) /\ EndIn(c, j, e)
  <2>1. PICK s \in Taken(vslot) : s \in Window(j)
    BY <1>3 DEF Fits, Window
  <2>2. PICK c \in Bay : HasSlots(c) /\ s \in SlotRange(start[c], volumes[c])
    BY <2>1 DEF SlotsHoldVolumes
  <2>3. Number(c) \in 0 .. Bays - 2
    BY <1>1, <1>2, <2>2
  <2>4. PICK w \in Nat : w = j * MaxVolumes
    BY <1>1
  <2>5. start[c] \in Window(j) \/ Last(c) \in Window(j)
    BY <1>1, <1>2, <2>1, <2>2, <2>4 DEF Window, SlotRange
  <2>6. 2 * Number(c) \in Ends /\ 2 * Number(c) + 1 \in Ends
    BY <1>1, <2>3
  <2>7. QED
    BY <2>2, <2>5, <2>6
<1> DEFINE f == [j \in Js |-> CHOOSE e \in Ends : \E c \in Bay : HasSlots(c) /\ EndIn(c, j, e)]
<1>5. f \in [Js -> Ends] /\ \A j \in Js : \E c \in Bay : HasSlots(c) /\ EndIn(c, j, f[j])
  <2> HIDE DEF EndIn, Js, Ends
  <2>1. QED
    BY <1>4
<1>6. PICK i \in Js, j \in Js : i # j /\ f[i] = f[j]
  <2>1. IsFiniteSet(Js) /\ IsFiniteSet(Ends) /\ Cardinality(Ends) < Cardinality(Js)
    <3>1. PICK top \in Nat : Js = 0 .. top /\ Ends = 0 .. top - 1
      BY <1>1
    <3>2. /\ IsFiniteSet(0 .. top) /\ Cardinality(0 .. top) = top + 1
          /\ IsFiniteSet(0 .. top - 1) /\ Cardinality(0 .. top - 1) = top
      BY FS_Interval
    <3> HIDE DEF Js, Ends
    <3>3. QED
      BY <3>1, <3>2
  <2> HIDE DEF f, Js, Ends
  <2>2. QED
    BY <1>5, <2>1, FS_PigeonHole
<1>7. PICK b \in Bay : HasSlots(b) /\ EndIn(b, i, f[i])
  BY <1>5
<1>8. PICK c \in Bay : HasSlots(c) /\ EndIn(c, j, f[j])
  BY <1>5
<1> HIDE DEF f
<1>9. b = c /\ \E s \in Int : s \in Window(i) /\ s \in Window(j)
  <2>1. Number(b) \in Int /\ Number(c) \in Int
    BY <1>1
  <2>2. Number(b) = Number(c)
    BY <1>6, <1>7, <1>8, <2>1
  <2>3. b = c
    BY <1>1, <1>2, <1>7, <1>8, <2>2
  <2>4. start[b] \in Int /\ Last(b) \in Int
    BY <1>1, <1>2, <1>7
  <2>5. QED
    BY <1>6, <1>7, <1>8, <2>1, <2>3, <2>4
<1>10. QED
  BY <1>6, <1>9, WindowsApart

(* So what the second loop finds is not above the last window.             *)
LEMMA AssignedLow ==
  ASSUME TypeInv, SlotsHoldVolumes, NEW b \in Bay, NeedsRange(b)
  PROVE  FindEmptySlotRange(Taken(vslot), size, volumes[b]) <= LastStart
<1> DEFINE first == FindEmptySlotRange(Taken(vslot), size, volumes[b])
<1>1. /\ Taken(vslot) \subseteq 0 .. size - 1 /\ size \in Nat \ {0}
      /\ volumes[b] \in 1 .. MaxVolumes /\ MaxVolumes \in Nat /\ Bays \in Nat \ {0}
  BY BaysAssumption, MaxVolumesAssumption
     DEF TypeInv, TypeOK, Taken, NeedsRange, Contents, NotMounted
<1>2. first \in 1 .. size /\ \A lower \in 1 .. first - 1 : ~Fits(Taken(vslot), lower, volumes[b])
  BY <1>1, FitFound
<1>3. PICK j \in 0 .. 2 * (Bays - 1) : Fits(Taken(vslot), j * MaxVolumes + 1, MaxVolumes)
  BY WindowFree DEF NeedsRange
<1>4. PICK low \in Nat \ {0} : low = j * MaxVolumes + 1
  BY <1>1, <1>3
<1>5. Fits(Taken(vslot), low, volumes[b])
  BY <1>1, <1>3, <1>4 DEF Fits, SlotRange
<1> HIDE DEF first
<1>6. first <= low
  BY <1>1, <1>2, <1>4, <1>5
<1>7. low <= LastStart
  <2>1. PICK d \in Nat : 2 * (Bays - 1) = j + d
    <3>1. 2 * (Bays - 1) - j \in Nat /\ 2 * (Bays - 1) = j + (2 * (Bays - 1) - j)
      BY <1>1
    <3>2. QED
      BY <3>1
  <2>2. 2 * (Bays - 1) * MaxVolumes = j * MaxVolumes + d * MaxVolumes
    BY <1>1, <2>1
  <2>3. j * MaxVolumes \in Nat /\ d * MaxVolumes \in Nat
    BY <1>1
  <2>4. QED
    BY <1>4, <2>2, <2>3 DEF LastStart
<1>8. QED
  BY <1>1, <1>2, <1>4, <1>6, <1>7, BoundsType DEF first

(***************************************************************************)
(* The inductive invariant: every range that is mapped, or named by a      *)
(* state file, starts where the second loop once put it.                   *)
(***************************************************************************)
Low(state) == state.start <= LastStart /\ state.num <= MaxVolumes

BoundInv ==
    /\ \A b \in Bay : Low(bayFile[b]) /\ Low(prev[b]) /\ start[b] <= LastStart
    /\ size <= SlotBound + 1 /\ dynFile <= SlotBound /\ reported <= SlotBound

LEMMA BoundNext ==
  ASSUME TypeInv, IInv, BoundInv, [Next]_vars
  PROVE  BoundInv'
<1> USE DEF TypeInv, TypeOK, BoundInv
<1>1. /\ LastStart \in Nat \ {0} /\ SlotBound \in Nat /\ MinSlots \in Nat
      /\ LastStart + MaxVolumes <= SlotBound + 1
      /\ MaxVolumes \in Nat /\ MinSlots <= SlotBound
  BY BoundsType, MaxVolumesAssumption, MinSlotsAssumption
<1>2. MaxSlot \in Nat /\ MaxSlot <= SlotBound
  BY <1>1 DEF MaxSlot, Larger
<1>3. Low(NoState) /\ \A b \in Bay : Low(Saved(b))
  BY <1>1 DEF Low, Saved, NoState, Contents, NotMounted
<1>same. ASSUME UNCHANGED <<bayFile, dynFile, reported, prev, start, size>>
         PROVE  BoundInv'
  BY <1>same
<1>exit. ASSUME Exit, \A b \in Bay : Low(bayFile'[b]), UNCHANGED <<dynFile, reported>>
         PROVE  BoundInv'
  <2>1. \A b \in Bay : prev'[b] = NoState /\ start'[b] = 0
    BY <1>exit DEF Exit
  <2>2. size' = 1
    BY <1>exit DEF Exit
  <2>3. QED
    BY <1>1, <1>3, <1>exit, <2>1, <2>2
<1>save. ASSUME NEW b \in Bay,
                bayFile' \in {bayFile, [bayFile EXCEPT ![b] = Saved(b)],
                                      [bayFile EXCEPT ![b] = NoState]}
         PROVE  \A c \in Bay : Low(bayFile'[c])
  BY <1>3, <1>save
<1>4. CASE UNCHANGED vars
  BY <1>4, <1>same DEF vars, disk, memory, mapping
<1>5. ASSUME NEW b \in Bay, ChangeMagazine(b)
      PROVE  BoundInv'
  BY <1>5, <1>same DEF ChangeMagazine, memory, mapping
<1>6. CASE Begin
  <2>1. \A b \in Bay : /\ prev'[b] \in {bayFile[b], NoState} /\ bayFile'[b] = prev'[b]
                       /\ start'[b] = 0
    BY <1>6 DEF Begin, Restored
  <2>2. size' = MaxSlot + 1 /\ UNCHANGED <<dynFile, reported>>
    BY <1>6 DEF Begin
  <2>3. \A b \in Bay : Low(bayFile'[b]) /\ Low(prev'[b]) /\ start'[b] <= LastStart
    <3>1. SUFFICES ASSUME NEW b \in Bay
                   PROVE  Low(bayFile'[b]) /\ Low(prev'[b]) /\ start'[b] <= LastStart
      OBVIOUS
    <3>2. Low(prev'[b])
      <4>1. prev'[b] = bayFile[b] \/ prev'[b] = NoState
        BY <2>1
      <4>2. Low(bayFile[b])
        OBVIOUS
      <4>3. QED
        BY <1>3, <4>1, <4>2
    <3>3. bayFile'[b] = prev'[b] /\ start'[b] <= LastStart
      BY <1>1, <2>1
    <3>4. QED
      BY <3>2, <3>3
  <2>4. QED
    BY <1>1, <1>2, <2>2, <2>3
<1>7. CASE Keep
  <2>1. m \in Bay /\ prev[m].start \in Nat /\ prev[m].num \in Nat /\ Low(prev[m])
    BY DEF BayState
  <2>2. /\ size' = Larger(size, prev[m].start + prev[m].num)
        /\ start' \in {start, [start EXCEPT ![m] = prev[m].start]}
        /\ UNCHANGED <<bayFile, dynFile, reported, prev>>
    BY <1>7 DEF Keep, disk
  <2>3. size' <= SlotBound + 1
    BY <1>1, <2>1, <2>2 DEF Larger, Low
  <2>4. \A b \in Bay : start'[b] <= LastStart
    BY <2>1, <2>2 DEF Low
  <2>5. QED
    BY <2>2, <2>3, <2>4
<1>8. CASE Assign
  <2>1. SlotsHoldVolumes /\ m \in Bay /\ UNCHANGED <<bayFile, dynFile, reported, prev>>
    BY <1>8 DEF Assign, ForEachBay, IInv, disk
  <2>2. CASE NeedsRange(m)
    <3>1. PICK first \in 1 .. size : first = FindEmptySlotRange(Taken(vslot), size, volumes[m])
      BY <2>1, <2>2, FreeRange
    <3>2. first <= LastStart /\ volumes[m] \in 1 .. MaxVolumes
      BY <1>1, <2>1, <2>2, <3>1, AssignedLow DEF NeedsRange, Contents, NotMounted
    <3>3. size' = Larger(size, first + volumes[m]) /\ start' = [start EXCEPT ![m] = first]
      BY <1>8, <2>2, <3>1 DEF Assign
    <3>4. size' <= SlotBound + 1
      BY <1>1, <3>1, <3>2, <3>3 DEF Larger
    <3>5. QED
      BY <2>1, <3>2, <3>3, <3>4
  <2>3. CASE ~NeedsRange(m)
    BY <1>8, <1>same, <2>1, <2>3 DEF Assign
  <2>4. QED
    BY <2>2, <2>3
<1>9. CASE SaveBays
  <2>1. /\ UNCHANGED <<dynFile, prev, start, size, reported>>
        /\ \E b \in Bay : bayFile' \in {bayFile, [bayFile EXCEPT ![b] = Saved(b)],
                                   [bayFile EXCEPT ![b] = NoState]}
    BY <1>9 DEF SaveBays, SaveBay, Write, mapping
  <2>2. \A b \in Bay : Low(bayFile'[b])
    BY <1>save, <2>1
  <2>3. QED
    BY <2>1, <2>2
<1>10. CASE SaveDynamic
  <2>1. reported' = size - 1 /\ dynFile' \in {dynFile, NoDynamicConf, Larger(size - 1, MinSlots)}
    BY <1>10 DEF SaveDynamic, Write
  <2>2. reported' <= SlotBound /\ dynFile' <= SlotBound
    BY <1>1, <2>1 DEF Larger, NoDynamicConf
  <2>3. QED
    BY <1>10, <2>2 DEF SaveDynamic, mapping
<1>11. ASSUME NEW b \in Bay, NEW count \in 1 .. MaxVolumes, CreateVolumes(b, count)
       PROVE  BoundInv'
  BY <1>11, <1>same DEF CreateVolumes, disk, mapping
<1>12. CASE CreateVolume
  BY <1>12, <1>same DEF CreateVolume
<1>13. CASE CreateFails
  <2>1. \E b \in Bay : bayFile' \in {bayFile, [bayFile EXCEPT ![b] = Saved(b)],
                               [bayFile EXCEPT ![b] = NoState]}
    BY <1>13 DEF CreateFails, Making, SaveBay, Write
  <2>2. \A b \in Bay : Low(bayFile'[b])
    BY <1>save, <2>1
  <2>3. QED
    BY <1>13, <1>exit, <2>2 DEF CreateFails
<1>14. CASE CreateSucceeds
  <2>1. /\ UNCHANGED <<dynFile, prev, start, size, reported>>
        /\ \E b \in Bay : bayFile' \in {bayFile, [bayFile EXCEPT ![b] = Saved(b)],
                                   [bayFile EXCEPT ![b] = NoState]}
    BY <1>14 DEF CreateSucceeds, Making, SaveBay, Write
  <2>2. \A b \in Bay : Low(bayFile'[b])
    BY <1>save, <2>1
  <2>3. QED
    BY <2>1, <2>2
<1>15. CASE Finish \/ Crash
  BY <1>15, <1>exit DEF Finish, Crash, disk
<1>16. QED
  BY <1>4, <1>5, <1>6, <1>7, <1>8, <1>9, <1>10, <1>11, <1>12, <1>13, <1>14, <1>15 DEF Next

LEMMA BoundAlways == Spec => [](TypeInv /\ IInv /\ BoundInv)
<1>1. Init => TypeInv /\ IInv /\ BoundInv
  <2> SUFFICES ASSUME Init
               PROVE  TypeInv /\ IInv /\ BoundInv
    OBVIOUS
  <2>1. TypeInv /\ IInv
    BY TypeInit DEF Init, Blank, IInv, Assigning
  <2>2. BoundInv
    BY BoundsType, MaxVolumesAssumption
       DEF Init, Blank, BoundInv, Low, NoState, NoDynamicConf
  <2>3. QED
    BY <2>1, <2>2
<1>2. (TypeInv /\ IInv /\ BoundInv) /\ [Next]_vars => (TypeInv /\ IInv /\ BoundInv)'
  BY TypeNext, IInvNext, BoundNext
<1>3. QED
  BY <1>1, <1>2, PTL DEF Spec

(***************************************************************************)
(* The number of slots never decreases, but it does not grow for good      *)
(* either: whatever is mounted, killed or lost, SLOTS never answers more   *)
(* than 2 * Bays - 1 magazines of the largest size would need.             *)
(***************************************************************************)
THEOREM SlotsAreBounded == Spec => [](reported <= SlotBound /\ size <= SlotBound + 1)
<1>1. BoundInv => reported <= SlotBound /\ size <= SlotBound + 1
  BY DEF BoundInv
<1>2. QED
  BY <1>1, BoundAlways, PTL

-----------------------------------------------------------------------------
(***************************************************************************)
(* Part 2: the changer.                                                    *)
(***************************************************************************)
Below(S, x) == {y \in S : y < x}

LEMMA BelowGrows ==
  ASSUME NEW S \in SUBSET Nat, IsFiniteSet(S), NEW x \in S, NEW y \in S, x < y
  PROVE  Cardinality(Below(S, x)) < Cardinality(Below(S, y))
<1>1. Below(S, x) \in SUBSET S /\ Below(S, y) \in SUBSET S
  BY DEF Below
<1>2. /\ IsFiniteSet(Below(S, x)) /\ Cardinality(Below(S, x)) \in Nat
      /\ IsFiniteSet(Below(S, y)) /\ Cardinality(Below(S, y)) \in Nat
  BY <1>1, FS_Subset, FS_CardinalityType
<1>3. Below(S, x) \cup {x} \in SUBSET Below(S, y) /\ x \notin Below(S, x)
  <2>1. x \in Nat /\ y \in Nat /\ \A z \in S : z \in Nat
    OBVIOUS
  <2>2. \A z \in S : z < x => z < y
    BY <2>1
  <2>3. \A z \in Below(S, x) \cup {x} : z \in S /\ z < y
    BY <2>2 DEF Below
  <2>4. x \notin Below(S, x)
    BY <2>1 DEF Below
  <2>5. QED
    BY <2>3, <2>4 DEF Below
<1>4. Cardinality(Below(S, x) \cup {x}) = Cardinality(Below(S, x)) + 1
  BY <1>2, <1>3, FS_AddElement
<1>5. Cardinality(Below(S, x) \cup {x}) <= Cardinality(Below(S, y))
  BY <1>2, <1>3, FS_Subset
<1>6. QED
  BY <1>2, <1>4, <1>5

(* Of the elements of a finite set of numbers, one has the most below it,  *)
(* and that is the largest.                                                *)
LEMMA Largest ==
  ASSUME NEW S \in SUBSET Nat, IsFiniteSet(S), S # {}
  PROVE  \E x \in S : \A y \in S : y <= x
<1> DEFINE Less == {ss \in Nat \X Nat : ss[1] < ss[2]}
           Above(x) == Cardinality(S) - Cardinality(Below(S, x))
           Aboves == {Above(x) : x \in S}
<1>1. Cardinality(S) \in Nat
  BY FS_CardinalityType
<1>2. \A x \in S : /\ IsFiniteSet(Below(S, x))
                   /\ Cardinality(Below(S, x)) \in Nat
                   /\ Cardinality(Below(S, x)) <= Cardinality(S)
  <2>1. SUFFICES ASSUME NEW x \in S
                 PROVE  /\ IsFiniteSet(Below(S, x))
                        /\ Cardinality(Below(S, x)) \in Nat
                        /\ Cardinality(Below(S, x)) <= Cardinality(S)
    OBVIOUS
  <2>2. Below(S, x) \in SUBSET S
    BY DEF Below
  <2>3. QED
    BY <2>2, FS_Subset, FS_CardinalityType
<1>3. Aboves \subseteq Nat /\ Aboves # {}
  <2>1. \A x \in S : Above(x) \in Nat
    BY <1>1, <1>2
  <2>2. PICK x \in S : TRUE
    OBVIOUS
  <2>3. Above(x) \in Aboves
    OBVIOUS
  <2> HIDE DEF Above
  <2>4. Aboves \subseteq Nat
    BY <2>1
  <2>5. QED
    BY <2>3, <2>4
<1>4. PICK least \in Aboves : \A a \in Aboves : ~(<<a, least>> \in Less)
  <2>1. IsWellFoundedOn(Less, Nat)
    BY NatLessThanWellFounded DEF OpToRel
  <2> HIDE DEF Less, Aboves
  <2>2. QED
    BY <1>3, <2>1, WFMin
<1>5. PICK x \in S : least = Above(x)
  OBVIOUS
<1>6. \A y \in S : ~(Above(y) < Above(x))
  <2>1. \A y \in S : Above(y) \in Nat
    BY <1>1, <1>2
  <2>2. SUFFICES ASSUME NEW y \in S, Above(y) < Above(x)
                 PROVE  <<Above(y), Above(x)>> \in Less
    BY <1>4, <1>5
  <2>3. QED
    BY <2>1, <2>2
<1>7. ASSUME NEW y \in S, x < y
      PROVE  FALSE
  <2>1. Cardinality(Below(S, x)) < Cardinality(Below(S, y))
    BY <1>7, BelowGrows
  <2>2. QED
    BY <1>1, <1>2, <1>6, <2>1
<1>8. QED
  BY <1>7

(* Alphanumeric order: every magazine slot from 0 up to the number of      *)
(* volumes has one of them, and no two have the same.                      *)
LEMMA NthVolume ==
  ASSUME NEW S \in SUBSET Nat, IsFiniteSet(S), NEW i \in 0 .. Cardinality(S) - 1
  PROVE  Nth(S, i) \in S /\ Cardinality(Below(S, Nth(S, i))) = i
<1> DEFINE Less == {ss \in Nat \X Nat : ss[1] < ss[2]}
           High == {x \in S : Cardinality(Below(S, x)) >= i}
<1>1. \A x \in S : Below(S, x) \in SUBSET S /\ x \notin Below(S, x)
  BY DEF Below
<1>2. \A x \in S : IsFiniteSet(Below(S, x)) /\ Cardinality(Below(S, x)) \in Nat
  BY <1>1, FS_Subset, FS_CardinalityType
<1>3. Cardinality(S) \in Nat /\ S # {}
  BY FS_CardinalityType, FS_EmptySet
(* Whatever has a largest element has one less below that.                 *)
<1>4. ASSUME NEW T \in SUBSET S, T # {}
      PROVE  \E x \in T : Cardinality(Below(T, x)) = Cardinality(T) - 1
  <2>1. IsFiniteSet(T) /\ Cardinality(T) \in Nat
    BY FS_Subset, FS_CardinalityType
  <2>2. PICK x \in T : \A y \in T : y <= x
    BY <1>4, <2>1, Largest
  <2>3. Below(T, x) = T \ {x}
    <3>1. \A y \in T : y \in Nat /\ (y < x <=> y # x)
      BY <2>2
    <3>2. QED
      BY <3>1 DEF Below
  <2>4. QED
    BY <2>1, <2>3, FS_RemoveElement
<1>5. High # {} /\ High \subseteq Nat
  <2>1. PICK x \in S : Cardinality(Below(S, x)) = Cardinality(S) - 1
    BY <1>3, <1>4
  <2>2. Cardinality(Below(S, x)) >= i
    BY <1>3, <2>1
  <2>3. QED
    BY <2>2
<1>6. PICK x \in High : \A y \in High : ~(<<y, x>> \in Less)
  <2>1. IsWellFoundedOn(Less, Nat)
    BY NatLessThanWellFounded DEF OpToRel
  <2> HIDE DEF Less, High
  <2>2. QED
    BY <1>5, <2>1, WFMin
<1>7. Cardinality(Below(S, x)) = i
  <2>1. SUFFICES ASSUME Cardinality(Below(S, x)) > i
                 PROVE  FALSE
    BY <1>2
  <2>2. Below(S, x) # {}
    BY <2>1, FS_EmptySet
  <2>3. PICK y \in Below(S, x) :
           Cardinality(Below(Below(S, x), y)) = Cardinality(Below(S, x)) - 1
    BY <1>1, <1>4, <2>2
  <2>4. Below(Below(S, x), y) = Below(S, y) /\ y \in S /\ y < x
    <3>1. y \in S /\ y < x /\ x \in Nat /\ y \in Nat
      BY DEF Below
    <3>2. \A z \in S : z < y => z < x
      BY <3>1
    <3>3. QED
      BY <3>1, <3>2 DEF Below
  <2>5. y \in High
    BY <1>2, <2>1, <2>3, <2>4
  <2>6. <<y, x>> \in Less
    BY <2>4
  <2>7. QED
    BY <1>6, <2>5, <2>6
<1>8. \E z \in S : Cardinality({other \in S : other < z}) = i
  BY <1>7 DEF Below
<1>9. QED
  BY <1>8 DEF Nth, Below

(* And every volume is in the one it comes to by its name.                 *)
LEMMA NthOf ==
  ASSUME NEW S \in SUBSET Nat, IsFiniteSet(S), NEW x \in S
  PROVE  /\ Cardinality(Below(S, x)) \in 0 .. Cardinality(S) - 1
         /\ Nth(S, Cardinality(Below(S, x))) = x
<1>1. Below(S, x) \in SUBSET (S \ {x})
  BY DEF Below
<1>2. /\ IsFiniteSet(S \ {x}) /\ Cardinality(S \ {x}) = Cardinality(S) - 1
      /\ Cardinality(S) \in Nat
  BY FS_RemoveElement, FS_CardinalityType
<1>3. /\ Cardinality(Below(S, x)) \in Nat
      /\ Cardinality(Below(S, x)) <= Cardinality(S) - 1
  BY <1>1, <1>2, FS_Subset, FS_CardinalityType
<1>4. PICK i \in 0 .. Cardinality(S) - 1 : i = Cardinality(Below(S, x))
  BY <1>2, <1>3
<1>5. Nth(S, i) \in S /\ Cardinality(Below(S, Nth(S, i))) = i
  BY NthVolume
<1>6. PICK y \in S : y = Nth(S, i)
  BY <1>5
<1>7. ~(x < y) /\ ~(y < x)
  BY <1>3, <1>4, <1>5, <1>6, BelowGrows
<1>8. x \in Nat /\ y \in Nat
  OBVIOUS
<1>9. QED
  BY <1>4, <1>6, <1>7, <1>8

-----------------------------------------------------------------------------
(***************************************************************************)
(* Every step of the changer is one of its magazines, or none.             *)
(***************************************************************************)
LEMMA BaysStep == [NextChanger]_allVars => [Next]_vars
<1> SUFFICES ASSUME [NextChanger]_allVars
             PROVE  [Next]_vars
  OBVIOUS
<1>1. CASE UNCHANGED allVars
  BY <1>1 DEF allVars
<1>2. CASE \E b \in Bay : ExchangeVolumes(b)
  BY <1>2 DEF ExchangeVolumes, Next
<1>3. CASE MapMagazines \/ MapVolumes
  BY <1>3 DEF MapMagazines, MapVolumes, Next
<1>4. CASE InitializeDrives \/ RestoreDrives \/ MoveVolume
  BY <1>4 DEF InitializeDrives, RestoreDrives, MoveVolume, StayOn
<1>5. CASE RefuseToMove \/ FinishCommand
  <2>1. Finish
    BY <1>5 DEF RefuseToMove, FinishCommand, EndProcess, Finish
  <2>2. QED
    BY <2>1 DEF Next
<1>6. CASE AddVolumes \/ AddVolume \/ AddFails
  BY <1>6 DEF AddVolumes, AddVolume, AddFails, Next
<1>7. CASE Killed
  <2>1. Crash
    BY <1>7 DEF Killed, EndProcess, Crash
  <2>2. QED
    BY <2>1 DEF Next
<1>8. QED
  BY <1>1, <1>2, <1>3, <1>4, <1>5, <1>6, <1>7 DEF NextChanger

LEMMA BaysSpec == SpecChanger => Spec
<1>1. InitChanger => Init
  BY DEF InitChanger
<1>2. QED
  BY <1>1, BaysStep, PTL DEF SpecChanger, Spec

(***************************************************************************)
(* So what is shown of the mapping of counted volumes is true of the whole *)
(* changer: when the slots have been assigned, every volume of a mounted   *)
(* magazine is in a slot of its own.                                       *)
(***************************************************************************)
THEOREM VolumesHaveSlots == SpecChanger => []SlotsMatchVolumes
BY BaysSpec, SlotsMatchVolumesHolds, PTL

-----------------------------------------------------------------------------
(***************************************************************************)
(* The inductive invariant: what is on the magazines is what they count,   *)
(* no volume is in two slots, and the drives are only restored, loaded and *)
(* unloaded while the mapping stands still.                                *)
(***************************************************************************)
OnMagazines ==
    /\ labels \in [Bay -> SUBSET Name]
    /\ \A b \in Bay : labels[b] \subseteq NamesOn[b] /\ files[b] \in Counts(labels[b])
    /\ place \in [Bay -> MountPoint]

DrivesAfterSlots == dpc # "off" => pc \in {"ready", "create", "done"}

ChangerInv ==
    /\ TypeInv /\ IInv
    /\ OnMagazines
    /\ at \in D!Mapping
    /\ DrivesAfterSlots

LEMMA NamesFinite ==
  ASSUME NEW b \in Bay, NEW names \in SUBSET NamesOn[b]
  PROVE  names \in SUBSET Nat /\ IsFiniteSet(names) /\ Cardinality(names) \in Nat
<1>1. NamesOn[b] \subseteq Nat /\ IsFiniteSet(NamesOn[b])
  BY NamesAssumption
<1>2. QED
  BY <1>1, FS_Subset, FS_CardinalityType

(***************************************************************************)
(* The mapping puts a volume into one slot only.                           *)
(***************************************************************************)
LEMMA MappingIsOne ==
  ASSUME ChangerInv, MapVolumes
  PROVE  at' \in D!Mapping
<1>1. /\ pc = "dynamic"
      /\ VolumesInSlots /\ SlotsHoldVolumes
      /\ volumes = files
      /\ \A b \in Bay : start[b] \in Nat
  BY DEF ChangerInv, IInv, Assigning, TypeInv, TypeOK, Making, MapVolumes, SaveDynamic
(* A slot that is taken has a volume that is on its magazine.              *)
<1>2. ASSUME NEW s \in Taken(vslot)
      PROVE  \E b \in Bay, i \in Nat :
                /\ vslot[s] = [bay |-> b, mslot |-> i]
                /\ s = start[b] + i
                /\ Nth(labels[b], i) \in labels[b]
                /\ Cardinality(Below(labels[b], Nth(labels[b], i))) = i
  <2>1. PICK b \in Bay : HasSlots(b) /\ s \in SlotRange(start[b], volumes[b])
    BY <1>1 DEF SlotsHoldVolumes
  <2>2. vslot[s] = [bay |-> b, mslot |-> s - start[b]]
    BY <1>1, <2>1 DEF VolumesInSlots
  <2>3. labels[b] \in SUBSET Nat /\ IsFiniteSet(labels[b]) /\ Cardinality(labels[b]) \in Nat
    BY NamesFinite DEF ChangerInv, OnMagazines
  <2>4. volumes[b] = Cardinality(labels[b])
    <3>1. volumes[b] \in Counts(labels[b]) /\ volumes[b] > 0
      BY <1>1, <2>1 DEF ChangerInv, OnMagazines, HasSlots
    <3>2. QED
      BY <3>1 DEF Counts, NotMounted
  <2>5. s - start[b] \in 0 .. Cardinality(labels[b]) - 1
    BY <1>1, <2>1, <2>3, <2>4 DEF SlotRange
  <2>6. PICK i \in 0 .. Cardinality(labels[b]) - 1 : i = s - start[b]
    BY <2>5
  <2>7. Nth(labels[b], i) \in labels[b] /\ Cardinality(Below(labels[b], Nth(labels[b], i))) = i
    BY <2>3, NthVolume
  <2>8. s = start[b] + i /\ i \in Nat
    BY <1>1, <2>1, <2>3, <2>6 DEF SlotRange
  <2>9. QED
    BY <2>2, <2>6, <2>7, <2>8
<1>3. at' = [s \in D!Slot |-> VolumeIn(s)]
  BY DEF MapVolumes
<1>4. ASSUME NEW s \in D!Slot
      PROVE  VolumeIn(s) \in Volume \cup {NoVolume}
  <2>1. CASE s \in Taken(vslot)
    <3>1. PICK b \in Bay, i \in Nat :
             /\ vslot[s] = [bay |-> b, mslot |-> i]
             /\ Nth(labels[b], i) \in labels[b]
      BY <1>2, <2>1
    <3>2. VolumeIn(s) = [bay |-> b, name |-> Nth(labels[b], i)]
      BY <2>1, <3>1 DEF VolumeIn
    <3>3. Nth(labels[b], i) \in Name /\ Nth(labels[b], i) \in NamesOn[b]
      BY <3>1 DEF ChangerInv, OnMagazines
    <3>4. QED
      BY <3>2, <3>3 DEF Volume
  <2>2. CASE s \notin Taken(vslot)
    BY <2>2 DEF VolumeIn
  <2>3. QED
    BY <2>1, <2>2
<1>5. ASSUME NEW s \in D!Slot, NEW t \in D!Slot,
             VolumeIn(s) = VolumeIn(t), VolumeIn(s) # NoVolume
      PROVE  s = t
  <2>1. s \in Taken(vslot) /\ t \in Taken(vslot)
    BY <1>5 DEF VolumeIn
  <2>2. PICK b \in Bay, i \in Nat :
           /\ vslot[s] = [bay |-> b, mslot |-> i]
           /\ s = start[b] + i
           /\ Cardinality(Below(labels[b], Nth(labels[b], i))) = i
    BY <1>2, <2>1
  <2>3. PICK c \in Bay, j \in Nat :
           /\ vslot[t] = [bay |-> c, mslot |-> j]
           /\ t = start[c] + j
           /\ Cardinality(Below(labels[c], Nth(labels[c], j))) = j
    BY <1>2, <2>1
  <2>4. /\ VolumeIn(s) = [bay |-> b, name |-> Nth(labels[b], i)]
        /\ VolumeIn(t) = [bay |-> c, name |-> Nth(labels[c], j)]
    BY <2>1, <2>2, <2>3 DEF VolumeIn
  <2>5. b = c /\ Nth(labels[b], i) = Nth(labels[c], j)
    <3>1. /\ VolumeIn(s).bay = b /\ VolumeIn(s).name = Nth(labels[b], i)
          /\ VolumeIn(t).bay = c /\ VolumeIn(t).name = Nth(labels[c], j)
      BY <2>4
    <3>2. QED
      BY <1>5, <3>1
  <2>6. QED
    BY <2>2, <2>3, <2>5
<1>6. QED
  BY <1>3, <1>4, <1>5 DEF D!Mapping

LEMMA ChangerInvInit == InitChanger => ChangerInv
<1> SUFFICES ASSUME InitChanger
             PROVE  ChangerInv
  OBVIOUS
<1>1. TypeInv /\ IInv
  BY TypeInit DEF InitChanger, Init, Blank, IInv, Assigning
<1>2. labels \in [Bay -> SUBSET Name]
  BY DEF InitChanger
<1>3. QED
  BY <1>1, <1>2 DEF InitChanger, ChangerInv, OnMagazines, DrivesAfterSlots, D!Mapping

(* Files are exchanged for others that are counted, or made and counted.   *)
LEMMA OnMagazinesNext ==
  ASSUME ChangerInv, [NextChanger]_allVars
  PROVE  OnMagazines'
<1> USE DEF ChangerInv, OnMagazines
<1>1. ASSUME UNCHANGED <<files, labels, place>>
      PROVE  OnMagazines'
  BY <1>1
<1>2. ASSUME NEW b \in Bay, ExchangeVolumes(b)
      PROVE  OnMagazines'
  <2>1. PICK names \in SUBSET NamesOn[b], where \in MountPoint :
           /\ files'[b] \in Counts(names)
           /\ labels' = [labels EXCEPT ![b] = names]
           /\ place' = [place EXCEPT ![b] = where]
    BY <1>2 DEF ExchangeVolumes
  <2>2. PICK content \in Contents : files' = [files EXCEPT ![b] = content]
    BY <1>2 DEF ExchangeVolumes, ChangeMagazine
  <2>3. names \in SUBSET Name
    BY DEF Name
  <2>4. \A c \in Bay : labels'[c] \subseteq NamesOn[c] /\ files'[c] \in Counts(labels'[c])
    <3>1. SUFFICES ASSUME NEW c \in Bay
                   PROVE  labels'[c] \subseteq NamesOn[c] /\ files'[c] \in Counts(labels'[c])
      OBVIOUS
    <3>2. CASE c = b
      BY <2>1, <3>2
    <3>3. CASE c # b
      <4>1. labels'[c] = labels[c] /\ files'[c] = files[c]
        BY <2>1, <2>2, <3>3 DEF TypeInv, TypeOK
      <4>2. QED
        BY <4>1
    <3>4. QED
      BY <3>2, <3>3
  <2>5. QED
    BY <2>1, <2>3, <2>4
<1>3. CASE AddVolume
  <2>1. PICK b \in Bay : /\ b = making.bay /\ files[b] # NotMounted
                         /\ files' = [files EXCEPT ![b] = @ + 1]
    BY <1>3 DEF AddVolume, CreateVolume, TypeInv, Making
  <2>2. PICK name \in NamesOn[b] \ labels[b] : labels' = [labels EXCEPT ![b] = @ \cup {name}]
    BY <1>3, <2>1 DEF AddVolume
  <2>3. IsFiniteSet(labels[b]) /\ Cardinality(labels[b]) \in Nat
    BY NamesFinite
  <2>4. files[b] = Cardinality(labels[b])
    BY <2>1, <2>3, FS_EmptySet DEF Counts
  <2>5. Cardinality(labels[b] \cup {name}) = files[b] + 1
    BY <2>2, <2>3, <2>4, FS_AddElement
  <2>6. \A c \in Bay : labels'[c] \subseteq NamesOn[c] /\ files'[c] \in Counts(labels'[c])
    <3>1. SUFFICES ASSUME NEW c \in Bay
                   PROVE  labels'[c] \subseteq NamesOn[c] /\ files'[c] \in Counts(labels'[c])
      OBVIOUS
    <3>2. CASE c = b
      <4>1. labels'[b] = labels[b] \cup {name} /\ files'[b] = files[b] + 1
        BY <2>1, <2>2 DEF TypeInv, TypeOK
      <4>2. QED
        BY <2>2, <2>5, <3>2, <4>1 DEF Counts
    <3>3. CASE c # b
      <4>1. labels'[c] = labels[c] /\ files'[c] = files[c]
        BY <2>1, <2>2, <3>3 DEF TypeInv, TypeOK
      <4>2. QED
        BY <4>1
    <3>4. QED
      BY <3>2, <3>3
  <2>7. name \in Name /\ place' = place
    BY <1>3, <2>2 DEF AddVolume, Name
  <2>8. labels' \in [Bay -> SUBSET Name]
    BY <2>2, <2>7
  <2>9. QED
    BY <2>6, <2>7, <2>8
<1>4. CASE MapMagazines \/ MapVolumes
  <2>1. UNCHANGED files
    BY <1>4 DEF MapMagazines, MapVolumes, Begin, Keep, Assign, SaveBays, SaveDynamic, disk
  <2>2. QED
    BY <1>1, <1>4, <2>1 DEF MapMagazines, MapVolumes, magazines
<1>5. CASE InitializeDrives \/ RestoreDrives \/ MoveVolume
  BY <1>1, <1>5 DEF InitializeDrives, RestoreDrives, MoveVolume, StayOn, vars, disk, magazines
<1>6. CASE RefuseToMove \/ FinishCommand \/ Killed
  BY <1>1, <1>6 DEF RefuseToMove, FinishCommand, Killed, EndProcess, disk, magazines
<1>7. CASE AddVolumes \/ AddFails
  <2>1. UNCHANGED files
    BY <1>7 DEF AddVolumes, AddFails, CreateVolumes, CreateSucceeds, CreateFails, disk
  <2>2. QED
    BY <1>1, <1>7, <2>1 DEF AddVolumes, AddFails, magazines
<1>8. CASE UNCHANGED allVars
  BY <1>1, <1>8 DEF allVars, vars, disk, magazines
<1>9. QED
  BY <1>2, <1>3, <1>4, <1>5, <1>6, <1>7, <1>8 DEF NextChanger

-----------------------------------------------------------------------------
(* A step that leaves slots, mountpoints and drives alone is none of       *)
(* VirtualDrives.                                                          *)
LEMMA DrivesRest ==
  ASSUME ChangerInv, UNCHANGED <<place, driveVars>>,
         dpc = "off" \/ pc' \in {"ready", "create", "done"}
  PROVE  UNCHANGED D!vars /\ at' \in D!Mapping /\ DrivesAfterSlots'
<1>1. UNCHANGED <<at, drvFile, link, dpc, n, drives, vs, slotDrv, loading>>
  BY DEF driveVars
<1>2. QED
  BY <1>1 DEF ChangerInv, DrivesAfterSlots, D!vars, D!outside, D!disk, D!memory, D!Mapping

(* A step of VirtualDrives that leaves the slots where they are.           *)
LEMMA DrivesMove ==
  ASSUME ChangerInv, D!Next, UNCHANGED at, dpc' = "off" \/ pc' \in {"ready", "create", "done"}
  PROVE  [D!Next]_(D!vars) /\ at' \in D!Mapping /\ DrivesAfterSlots'
BY DEF ChangerInv, DrivesAfterSlots, D!Mapping

(* Between two invocations, and while one maps the slots, slots and        *)
(* mountpoints become others: a Remap.                                     *)
LEMMA SlotsMove ==
  ASSUME ChangerInv, dpc = "off",
         at' \in D!Mapping, place' \in [Bay -> MountPoint],
         UNCHANGED <<drvFile, link, dpc, n, drives, vs, slotDrv, loading>>
  PROVE  D!Remap /\ at' \in D!Mapping /\ DrivesAfterSlots'
<1>1. [v \in Volume |-> place'[v.bay]] \in [Volume -> MountPoint]
  BY DEF Volume
<1>2. QED
  BY <1>1 DEF D!Remap, D!disk, D!memory, DrivesAfterSlots

LEMMA DrivesStep ==
  ASSUME ChangerInv, [NextChanger]_allVars
  PROVE  [D!Next]_(D!vars) /\ at' \in D!Mapping /\ DrivesAfterSlots'
<1>1. CASE UNCHANGED allVars
  <2>1. UNCHANGED <<place, driveVars, pc>>
    BY <1>1 DEF allVars, magazines, vars, memory
  <2>2. QED
    BY <2>1, DrivesRest DEF ChangerInv, DrivesAfterSlots
<1>2. ASSUME NEW b \in Bay, ExchangeVolumes(b)
      PROVE  [D!Next]_(D!vars) /\ at' \in D!Mapping /\ DrivesAfterSlots'
  <2>1. /\ dpc = "off"
        /\ at' \in D!Mapping
        /\ place' \in [Bay -> MountPoint]
        /\ UNCHANGED <<drvFile, link, dpc, n, drives, vs, slotDrv, loading>>
    BY <1>2 DEF ExchangeVolumes, ChangeMagazine, driveVars, ChangerInv, DrivesAfterSlots,
       OnMagazines, D!Mapping
  <2>2. QED
    BY <2>1, SlotsMove DEF D!Next
<1>3. CASE MapMagazines
  <2>1. dpc = "off" /\ UNCHANGED <<place, driveVars>>
    BY <1>3 DEF MapMagazines, magazines, Begin, Keep, Assign, SaveBays, ForEachBay,
       ChangerInv, DrivesAfterSlots
  <2>2. QED
    BY <2>1, DrivesRest
<1>4. CASE MapVolumes
  <2>1. at' \in D!Mapping
    BY <1>4, MappingIsOne
  <2>2. /\ dpc = "off"
        /\ place' \in [Bay -> MountPoint]
        /\ UNCHANGED <<drvFile, link, dpc, n, drives, vs, slotDrv, loading>>
    BY <1>4 DEF MapVolumes, SaveDynamic, magazines, ChangerInv, DrivesAfterSlots, OnMagazines
  <2>3. QED
    BY <2>1, <2>2, SlotsMove DEF D!Next
<1>5. CASE InitializeDrives
  <2>1. D!Begin /\ pc' = "ready" /\ UNCHANGED at
    BY <1>5 DEF InitializeDrives, StayOn, vars, memory, D!Begin, D!outside
  <2>2. QED
    BY <2>1, DrivesMove DEF D!Next, D!Initialize
<1>6. CASE RestoreDrives
  <2>1. /\ D!Initialize \/ D!Linking
        /\ UNCHANGED <<at, pc>>
    BY <1>6 DEF RestoreDrives, StayOn, vars, memory, D!Initialize, D!Linking,
       D!RestoreUnloaded, D!RestoreGone, D!ForgetLink, D!RestoreLoaded,
       D!LinkFound, D!RemoveOldLink, D!CreateLink, D!outside
  <2>2. dpc # "off"
    BY <1>6 DEF RestoreDrives, D!RestoreUnloaded, D!RestoreGone, D!ForgetLink,
       D!RestoreLoaded, D!LinkFound, D!RemoveOldLink, D!CreateLink
  <2>3. QED
    BY <2>1, <2>2, DrivesMove DEF D!Next, ChangerInv, DrivesAfterSlots
<1>7. CASE MoveVolume
  <2>1. pc' = "ready"
    BY <1>7 DEF MoveVolume, StayOn, vars, memory
  <2>2. D!Next /\ UNCHANGED at
    <3>1. CASE \E d \in D!Drive, s \in D!Slot : D!LoadAgain(d, s) \/ D!Load(d, s)
      <4>1. PICK d \in D!Drive, s \in D!Slot : D!LoadAgain(d, s) \/ D!Load(d, s)
        BY <3>1
      <4>2. UNCHANGED at
        BY <4>1 DEF D!LoadAgain, D!Load, D!outside
      <4>3. s \in 1 .. Slots + 1
        BY SizesAssumption DEF D!Slot
      <4>4. QED
        BY <4>1, <4>2, <4>3 DEF D!Next
    <3>2. CASE \E d \in D!Drive : D!UnloadEmpty(d) \/ D!Unload(d)
      BY <3>2 DEF D!Next, D!UnloadEmpty, D!Unload, D!outside
    <3>3. CASE D!SaveLoaded \/ D!DeleteState
      BY <3>3 DEF D!Next, D!Saving, D!SaveLoaded, D!DeleteState, D!outside
    <3>4. QED
      BY <1>7, <3>1, <3>2, <3>3 DEF MoveVolume
  <2>3. QED
    BY <2>1, <2>2, DrivesMove
<1>8. CASE RefuseToMove
  <2>1. PICK d \in D!Drive, s \in 1 .. Slots + 1 : D!RefuseLoad(d, s)
    BY <1>8 DEF RefuseToMove
  <2>2. dpc' = "off" /\ UNCHANGED at
    BY <2>1 DEF D!RefuseLoad, D!Exit, D!outside
  <2>3. QED
    BY <2>1, <2>2, DrivesMove DEF D!Next
<1>9. CASE AddVolumes \/ AddVolume
  <2>1. UNCHANGED <<place, driveVars>> /\ pc' \in {"ready", "create", "done"}
    BY <1>9 DEF AddVolumes, AddVolume, magazines, CreateVolumes, CreateSucceeds, CreateVolume
  <2>2. QED
    BY <2>1, DrivesRest
<1>10. CASE AddFails \/ FinishCommand
  <2>1. D!Finish
    BY <1>10 DEF AddFails, FinishCommand
  <2>2. dpc' = "off" /\ UNCHANGED at
    BY <2>1 DEF D!Finish, D!Exit, D!outside
  <2>3. QED
    BY <2>1, <2>2, DrivesMove DEF D!Next
<1>11. CASE Killed
  <2>1. CASE D!Crash \/ D!CrashInSave
    <3>1. dpc' = "off" /\ UNCHANGED at
      BY <2>1 DEF D!Crash, D!CrashInSave, D!Exit, D!outside
    <3>2. QED
      BY <2>1, <3>1, DrivesMove DEF D!Next, D!Saving
  <2>2. CASE dpc = "off" /\ UNCHANGED driveVars
    <3>1. UNCHANGED place
      BY <1>11 DEF Killed, EndProcess, magazines
    <3>2. QED
      BY <2>2, <3>1, DrivesRest
  <2>3. QED
    BY <1>11, <2>1, <2>2 DEF Killed
<1>12. QED
  BY <1>1, <1>2, <1>3, <1>4, <1>5, <1>6, <1>7, <1>8, <1>9, <1>10, <1>11 DEF NextChanger

LEMMA ChangerInvNext == ChangerInv /\ [NextChanger]_allVars => ChangerInv'
<1> SUFFICES ASSUME ChangerInv, [NextChanger]_allVars
             PROVE  ChangerInv'
  OBVIOUS
<1>1. TypeInv' /\ IInv'
  BY BaysStep, TypeNext, IInvNext DEF ChangerInv
<1>2. QED
  BY <1>1, OnMagazinesNext, DrivesStep DEF ChangerInv

(***************************************************************************)
(* The mapping gives the drives what VirtualDrives assumes, so every       *)
(* behavior of the changer is one of VirtualDrives, with LOAD, UNLOAD,     *)
(* restored drives and crashes as there, and with whatever the operator    *)
(* and the mapping do to slots and mountpoints as its Remap.               *)
(***************************************************************************)
THEOREM ImplementsDrivesHolds == SpecChanger => ImplementsDrives
<1>1. ChangerInv /\ [NextChanger]_allVars => [D!Next]_(D!vars)
  BY DrivesStep
<1>2. InitChanger => D!Init
  <2> SUFFICES ASSUME InitChanger
               PROVE  D!Init
    OBVIOUS
  <2>1. at \in D!Mapping
    BY DEF InitChanger, D!Mapping
  <2>2. [v \in Volume |-> place[v.bay]] \in [Volume -> MountPoint]
    BY DEF InitChanger, Volume
  <2>3. QED
    BY <2>1, <2>2 DEF InitChanger, None, D!Init
<1>3. QED
  BY ChangerInvInit, ChangerInvNext, <1>1, <1>2, PTL DEF SpecChanger, ImplementsDrives, D!Spec

-----------------------------------------------------------------------------
(***************************************************************************)
(* What is proved of VirtualDrives, for the drives of the changer.  DP and *)
(* D are the same module with the same substitution, DP with its theorems. *)
(***************************************************************************)
DP == INSTANCE VirtualDrivesProofs WITH
         DiskErrors <- FALSE,
         pc <- dpc,
         LabelOf <- [v \in Volume |-> v.name],
         mount <- [v \in Volume |-> place[v.bay]]

LEMMA SameSpec == D!Spec <=> DP!Spec
<1>1. D!Init <=> DP!Init
  BY DEF D!Init, DP!Init, D!Mapping, DP!Mapping, D!Slot, DP!Slot, D!Drive, DP!Drive,
     D!NothingLoaded, DP!NothingLoaded, D!NoneInDrive, DP!NoneInDrive, D!NoSlot,
     DP!NoSlot, D!NoDrive, DP!NoDrive
<1>2. [D!Next]_(D!vars) <=> [DP!Next]_(DP!vars)
  BY DEF D!Slot, DP!Slot, D!Drive, DP!Drive, D!NoSlot, DP!NoSlot, D!NoDrive, DP!NoDrive,
     D!Path, DP!Path, D!outside, DP!outside, D!disk, DP!disk, D!memory, DP!memory, D!vars,
     DP!vars, D!Mapping, DP!Mapping, D!NothingLoaded, DP!NothingLoaded, D!NoneInDrive,
     DP!NoneInDrive, D!Exit, DP!Exit, D!Remap, DP!Remap, D!HasStateFile, DP!HasStateFile,
     D!Begin, DP!Begin, D!NextDrive, DP!NextDrive, D!SlotsWithLabel, DP!SlotsWithLabel,
     D!TryRemoveLink, DP!TryRemoveLink, D!RestoreUnloaded, DP!RestoreUnloaded,
     D!RestoreUnreadable, DP!RestoreUnreadable, D!TryDeleteState, DP!TryDeleteState,
     D!RestoreGone, DP!RestoreGone, D!RestoreUnread, DP!RestoreUnread, D!ForgetUnread,
     DP!ForgetUnread, D!ForgetLink, DP!ForgetLink, D!RestoreLoaded,
     DP!RestoreLoaded, D!Target, DP!Target, D!Linked, DP!Linked, D!LinkFound,
     DP!LinkFound, D!RemoveOldLink, DP!RemoveOldLink, D!CreateLink, DP!CreateLink,
     D!LinkFails, DP!LinkFails, D!Larger, DP!Larger, D!MayLoad, DP!MayLoad, D!RefuseLoad,
     DP!RefuseLoad, D!LoadAgain, DP!LoadAgain, D!Load, DP!Load, D!SaveLoaded,
     DP!SaveLoaded, D!SaveFails, DP!SaveFails, D!CrashInSave, DP!CrashInSave,
     D!UnloadEmpty, DP!UnloadEmpty, D!Unload, DP!Unload, D!UnloadFails, DP!UnloadFails,
     D!DeleteState, DP!DeleteState, D!Finish, DP!Finish, D!Crash, DP!Crash, D!Initialize,
     DP!Initialize, D!Linking, DP!Linking, D!Saving, DP!Saving, D!Next, DP!Next
<1>3. QED
  BY <1>1, <1>2, PTL DEF D!Spec, DP!Spec

(* No two magazines may have a volume of the same name.                    *)
NamesApart == \A b, c \in Bay : NamesOn[b] \cap NamesOn[c] # {} => b = c

(***************************************************************************)
(* However magazines are exchanged and slots are mapped, and whatever is   *)
(* killed: the drives of the changer agree with their state files and      *)
(* symlinks, no volume is in two of them, only a command of a drive        *)
(* touches the symlink of its loaded volume, and together they are an      *)
(* autochanger; if volumes have names of their own.                        *)
(***************************************************************************)
THEOREM ChangerIsAutochanger ==
  ASSUME NamesApart
  PROVE  SpecChanger => /\ []D!DrivesAgree /\ []D!NoSlotInTwoDrives
                        /\ D!LinkStaysWithItsDrive
                        /\ D!IsAutochanger
<1>1. DP!NoDiskErrors
  BY DEF DP!NoDiskErrors
<1>2. DP!DistinctNames
  BY NamesApart DEF NamesApart, DP!DistinctNames, Volume
<1>3. /\ NoLink \notin [volume : Volume, mount : MountPoint]
      /\ NoVolume \notin Volume /\ Empty \notin Volume \cup {NoVolume}
      /\ Drives \in Nat \ {0} /\ Slots \in Nat \ {0}
  BY NothingAssumption, SizesAssumption
<1>4. DP!Spec => []DP!DrivesAgree
  BY <1>1, <1>2, <1>3, DP!DrivesAgreeAlways
<1>5. DP!Spec => []DP!NoSlotInTwoDrives
  BY <1>1, <1>2, <1>3, DP!NeverInTwoDrives
<1>6. DP!Spec => DP!LinkStaysWithItsDrive
  BY <1>1, <1>2, <1>3, DP!LinkStaysHolds
<1>7. DP!Spec => DP!IsAutochanger
  BY <1>1, <1>2, <1>3, DP!ImplementsAutochanger
<1>8. D!DrivesAgree <=> DP!DrivesAgree
  BY DEF D!DrivesAgree, DP!DrivesAgree, D!Settled, DP!Settled, D!Slot, DP!Slot, D!Drive,
     DP!Drive, D!NoSlot, DP!NoSlot,
     D!Target, DP!Target
<1>9. D!NoSlotInTwoDrives <=> DP!NoSlotInTwoDrives
  BY DEF D!NoSlotInTwoDrives, DP!NoSlotInTwoDrives, D!Settled, DP!Settled, D!Drive,
     DP!Drive, D!NoSlot, DP!NoSlot
<1>10. D!LinkStaysWithItsDrive <=> DP!LinkStaysWithItsDrive
  BY DEF D!LinkStaysWithItsDrive, DP!LinkStaysWithItsDrive, D!LoadedFromHere,
     DP!LoadedFromHere, D!Touched, DP!Touched, D!CouldNotRead, DP!CouldNotRead,
     D!Slot, DP!Slot, D!Drive, DP!Drive, D!vars, DP!vars, D!outside, DP!outside, D!disk, DP!disk, D!memory, DP!memory
<1>11. D!IsAutochanger <=> DP!IsAutochanger
  BY DEF D!IsAutochanger, DP!IsAutochanger, D!Changer!Spec, DP!Changer!Spec,
     D!Changer!Init, DP!Changer!Init, D!Changer!Next, DP!Changer!Next, D!Changer!vars,
     DP!Changer!vars, D!Changer!Exchange, DP!Changer!Exchange, D!Changer!Unload,
     DP!Changer!Unload, D!Changer!Release, DP!Changer!Release, D!Changer!Load,
     DP!Changer!Load, D!Slot, DP!Slot, D!Drive, DP!Drive
<1>12. QED
  BY ImplementsDrivesHolds, SameSpec, <1>4, <1>5, <1>6, <1>7, <1>8, <1>9, <1>10, <1>11,
     PTL DEF ImplementsDrives

-----------------------------------------------------------------------------
(***************************************************************************)
(* Where the volumes are.  From the moment the slots are mapped until they *)
(* are mapped again, those of a magazine are in consecutive slots in       *)
(* alphanumeric order; and as long as the invocation that mapped them      *)
(* looks, they are the volumes that are on the magazine.                   *)
(*                                                                         *)
(* SlotsSuffice makes the bound Slots of the model none: there are as many *)
(* slots in it as the mapping ever uses (SlotsAreBounded).                 *)
(***************************************************************************)
SlotsSuffice == Slots >= SlotBound

Holding(b, names, first) ==
    /\ SlotsOf(b) = SlotRange(first, Cardinality(names))
    /\ \A i \in 0 .. Cardinality(names) - 1 :
          at[first + i] = [bay |-> b, name |-> Nth(names, i)]

InOrder ==
    \A b \in Bay : \E names \in SUBSET NamesOn[b], first \in Nat :
        /\ pc = "ready" => names = labels[b]
        /\ Holding(b, names, first)

(* Where the mapping puts the volumes of a magazine.                       *)
LEMMA VolumesMapped ==
  ASSUME SlotsSuffice, ChangerInv, BoundInv, MapVolumes, NEW b \in Bay
  PROVE  /\ Holding(b, labels[b], start[b])'
         /\ labels[b] # {} => HasSlots(b) /\ volumes[b] = Cardinality(labels[b])
         /\ labels[b] = {} => ~HasSlots(b)
<1>1. /\ pc = "dynamic" /\ Assigning
      /\ VolumesInSlots /\ SlotsHoldVolumes /\ Turn
      /\ volumes = files
      /\ start[b] \in Nat /\ size \in Nat \ {0} /\ DOMAIN vslot = 0 .. size - 1
      /\ UNCHANGED <<labels, start>>
      /\ at' = [s \in D!Slot |-> VolumeIn(s)]
  BY DEF ChangerInv, IInv, Assigning, TypeInv, TypeOK, Making, MapVolumes, SaveDynamic,
     magazines, mapping
<1>2. labels[b] \in SUBSET Nat /\ IsFiniteSet(labels[b]) /\ Cardinality(labels[b]) \in Nat
  BY NamesFinite DEF ChangerInv, OnMagazines
<1>3. Cardinality(labels[b]) = 0 <=> labels[b] = {}
  BY <1>2, FS_EmptySet
<1>4. /\ labels[b] # {} => HasSlots(b) /\ volumes[b] = Cardinality(labels[b])
      /\ labels[b] = {} => ~HasSlots(b)
  <2>1. volumes[b] \in Counts(labels[b])
    BY <1>1 DEF ChangerInv, OnMagazines
  <2>2. CASE labels[b] = {}
    BY <2>1, <2>2 DEF Counts, NotMounted, HasSlots
  <2>3. CASE labels[b] # {}
    <3>1. volumes[b] = Cardinality(labels[b]) /\ volumes[b] > 0
      BY <1>2, <1>3, <2>1, <2>3 DEF Counts
    <3>2. QED
      BY <1>1, <2>3, <3>1 DEF Turn, HasSlots
  <2>4. QED
    BY <2>2, <2>3
<1> DEFINE R == SlotRange(start[b], Cardinality(labels[b]))
<1>5. ASSUME NEW s \in R
      PROVE  /\ s \in D!Slot /\ s - start[b] \in 0 .. Cardinality(labels[b]) - 1
             /\ VolumeIn(s) = [bay |-> b, name |-> Nth(labels[b], s - start[b])]
  <2>1. s \in Nat /\ start[b] <= s /\ s <= start[b] + Cardinality(labels[b]) - 1
    BY <1>1, <1>2 DEF SlotRange
  <2>2. HasSlots(b) /\ volumes[b] = Cardinality(labels[b])
    BY <1>2, <1>3, <1>4, <2>1, <1>1
  <2>3. s \in DOMAIN vslot /\ vslot[s] = [bay |-> b, mslot |-> s - start[b]]
    BY <1>1, <2>2 DEF VolumesInSlots
  <2>4. s \in Taken(vslot)
    <3>1. vslot[s].bay = b /\ b # -1 /\ EmptySlot.bay = -1
      BY <2>3, BaysAssumption DEF Bay, EmptySlot
    <3>2. QED
      BY <2>3, <3>1 DEF Taken
  <2>5. s \in D!Slot
    <3>1. s <= size - 1 /\ size - 1 <= SlotBound /\ SlotBound \in Nat
      BY <1>1, <2>3, BoundsType DEF BoundInv
    <3>2. s >= 1
      BY <1>1, <2>1, <2>2 DEF HasSlots
    <3>3. QED
      BY <1>1, <2>1, <3>1, <3>2, SizesAssumption DEF D!Slot, SlotsSuffice
  <2>6. QED
    BY <1>1, <1>2, <2>1, <2>3, <2>4, <2>5 DEF VolumeIn
<1>6. ASSUME NEW s \in R
      PROVE  /\ at'[s] = [bay |-> b, name |-> Nth(labels[b], s - start[b])]
             /\ at'[s] # NoVolume /\ at'[s].bay = b /\ s \in D!Slot
  <2>1. PICK i \in 0 .. Cardinality(labels[b]) - 1 : i = s - start[b]
    BY <1>5
  <2>2. Nth(labels[b], i) \in labels[b]
    BY <1>2, NthVolume
  <2>3. Nth(labels[b], i) \in Name /\ Nth(labels[b], i) \in NamesOn[b]
    BY <2>2 DEF ChangerInv, OnMagazines
  <2>4. at'[s] = [bay |-> b, name |-> Nth(labels[b], i)] /\ s \in D!Slot
    BY <1>1, <1>5, <2>1
  <2>5. at'[s] \in Volume /\ at'[s].bay = b
    BY <2>3, <2>4 DEF Volume
  <2>6. QED
    BY <2>1, <2>4, <2>5, NothingAssumption
<1>7. ASSUME NEW s \in D!Slot, at'[s] # NoVolume, at'[s].bay = b
      PROVE  s \in R
  <2>1. VolumeIn(s) # NoVolume /\ VolumeIn(s).bay = b
    BY <1>1, <1>7
  <2>2. s \in Taken(vslot) /\ vslot[s].bay = b
    BY <2>1 DEF VolumeIn
  <2>3. PICK c \in Bay : HasSlots(c) /\ s \in SlotRange(start[c], volumes[c])
    BY <1>1, <2>2 DEF SlotsHoldVolumes
  <2>4. vslot[s] = [bay |-> c, mslot |-> s - start[c]]
    BY <1>1, <2>3 DEF VolumesInSlots
  <2>5. QED
    BY <1>4, <2>2, <2>3, <2>4
<1>8. SlotsOf(b)' = R
  BY <1>6, <1>7 DEF SlotsOf
<1>9. ASSUME NEW i \in 0 .. Cardinality(labels[b]) - 1
      PROVE  at'[start[b] + i] = [bay |-> b, name |-> Nth(labels[b], i)]
  <2>1. start[b] + i \in R /\ (start[b] + i) - start[b] = i
    BY <1>1, <1>2 DEF SlotRange
  <2>2. QED
    BY <1>6, <2>1
<1>10. QED
  BY <1>1, <1>4, <1>8, <1>9 DEF Holding

(* Nothing else moves a volume or is ready.                                *)
LEMMA OnlyMapped ==
  ASSUME ChangerInv, [NextChanger]_allVars, ~MapVolumes
  PROVE  at' = at /\ (pc' = "ready" => pc = "ready" /\ labels' = labels)
<1>1. CASE UNCHANGED allVars
  BY <1>1 DEF allVars, magazines, driveVars, vars, memory
<1>2. ASSUME NEW b \in Bay, ExchangeVolumes(b)
      PROVE  at' = at /\ pc' # "ready"
  BY <1>2 DEF ExchangeVolumes, ChangeMagazine, driveVars, memory
<1>3. CASE MapMagazines
  BY <1>3 DEF MapMagazines, magazines, driveVars, Begin, Keep, Assign, SaveBays, ForEachBay
<1>4. CASE InitializeDrives
  BY <1>4 DEF InitializeDrives, StayOn, vars, memory, magazines, D!Begin, D!outside
<1>5. CASE RestoreDrives
  BY <1>5 DEF RestoreDrives, StayOn, vars, memory, magazines,
     D!RestoreUnloaded, D!RestoreGone, D!ForgetLink, D!RestoreLoaded,
     D!LinkFound, D!RemoveOldLink, D!CreateLink, D!outside
<1>6. CASE MoveVolume
  BY <1>6 DEF MoveVolume, StayOn, vars, memory, magazines, D!LoadAgain, D!Load,
     D!UnloadEmpty, D!Unload, D!SaveLoaded, D!DeleteState, D!outside
<1>7. CASE RefuseToMove \/ FinishCommand \/ Killed
  <2>1. pc' # "ready"
    BY <1>7 DEF RefuseToMove, FinishCommand, Killed, EndProcess, Exit
  <2>2. at' = at
    BY <1>7 DEF RefuseToMove, FinishCommand, Killed, D!RefuseLoad, D!Finish, D!Crash,
       D!CrashInSave, D!outside, driveVars
  <2>3. QED
    BY <2>1, <2>2
<1>8. CASE AddVolumes \/ AddVolume
  BY <1>8 DEF AddVolumes, AddVolume, driveVars, CreateVolumes, CreateSucceeds, CreateVolume
<1>9. CASE AddFails
  BY <1>9 DEF AddFails, CreateFails, Exit, D!Finish, D!outside
<1>10. QED
  BY <1>1, <1>2, <1>3, <1>4, <1>5, <1>6, <1>7, <1>8, <1>9 DEF NextChanger

LEMMA InOrderNext ==
  ASSUME SlotsSuffice, ChangerInv, BoundInv, InOrder, [NextChanger]_allVars
  PROVE  InOrder'
<1>1. CASE MapVolumes
  <2>1. SUFFICES ASSUME NEW b \in Bay
                 PROVE  \E names \in SUBSET NamesOn[b], first \in Nat :
                           /\ names = labels'[b]
                           /\ Holding(b, names, first)'
    BY DEF InOrder
  <2>2. Holding(b, labels[b], start[b])'
    BY <1>1, VolumesMapped
  <2>3. labels'[b] \in SUBSET NamesOn[b] /\ start'[b] \in Nat
    BY <1>1 DEF MapVolumes, SaveDynamic, magazines, mapping, ChangerInv, OnMagazines,
       TypeInv, TypeOK
  <2>4. QED
    BY <2>2, <2>3 DEF Holding
<1>2. CASE ~MapVolumes
  <2>1. at' = at /\ (pc' = "ready" => pc = "ready" /\ labels' = labels)
    BY <1>2, OnlyMapped
  <2>2. QED
    BY <2>1 DEF InOrder, Holding, SlotsOf
<1>3. QED
  BY <1>1, <1>2

(* All of the mapping that the drives and the operator rely on.            *)
LEMMA InOrderAlways ==
  ASSUME SlotsSuffice
  PROVE  SpecChanger => [](ChangerInv /\ KeepInv /\ InOrder)
<1>1. InitChanger => InOrder
  <2> SUFFICES ASSUME InitChanger, NEW b \in Bay
               PROVE  \E names \in SUBSET NamesOn[b], first \in Nat :
                         /\ pc = "ready" => names = labels[b]
                         /\ Holding(b, names, first)
    BY DEF InOrder
  <2>1. pc = "off" /\ \A s \in D!Slot : at[s] = NoVolume
    BY DEF InitChanger, Init, Blank
  <2>2. SlotsOf(b) = {}
    BY <2>1 DEF SlotsOf
  <2>3. Cardinality({}) = 0
    BY FS_EmptySet
  <2>4. Holding(b, {}, 0)
    BY <2>2, <2>3 DEF Holding, SlotRange
  <2>5. QED
    BY <2>1, <2>4
<1>2. ChangerInv /\ BoundInv /\ InOrder /\ [NextChanger]_allVars => InOrder'
  BY InOrderNext
<1>3. SpecChanger => []ChangerInv
  BY ChangerInvInit, ChangerInvNext, PTL DEF SpecChanger
<1>4. SpecChanger => []BoundInv /\ []KeepInv
  BY BaysSpec, BoundAlways, KeepInvAlways, PTL
<1>5. QED
  BY <1>1, <1>2, <1>3, <1>4, PTL DEF SpecChanger

-----------------------------------------------------------------------------
LEMMA RangeSize ==
  ASSUME NEW first \in Nat, NEW k \in Nat
  PROVE  Cardinality(SlotRange(first, k)) = k
<1>1. PICK last \in Int : last = first + k - 1
  OBVIOUS
<1>2. Cardinality(first .. last) = IF first > last THEN 0 ELSE last - first + 1
  BY FS_Interval
<1>3. QED
  BY <1>1, <1>2 DEF SlotRange

(***************************************************************************)
(* If no update is needed, the state files say that every magazine has the *)
(* slots and the number of volumes that it had; and it has them in the     *)
(* same order, unless they are others.                                     *)
(***************************************************************************)
LEMMA SameSlots ==
  ASSUME SlotsSuffice, ChangerInv, KeepInv, BoundInv, InOrder, MapVolumes, ~needsUpdate,
         NEW b \in Bay, FileIsOfMapping(b)
  PROVE  \E names \in SUBSET NamesOn[b] :
            /\ Cardinality(names) = Cardinality(labels[b])
            /\ Holding(b, names, start[b])
<1>1. pc = "dynamic" /\ Assigning /\ start[b] \in Nat
  BY DEF MapVolumes, SaveDynamic, Assigning, ChangerInv, TypeInv, TypeOK
<1>2. Saved(b) = prev[b]
  BY <1>1 DEF KeepInv, UpdateSoFar, InLoops, LookedAt
<1>3. /\ labels[b] # {} => HasSlots(b) /\ volumes[b] = Cardinality(labels[b])
      /\ labels[b] = {} => ~HasSlots(b)
  BY VolumesMapped
<1>4. volumes[b] > 0 => HasSlots(b)
  BY <1>1 DEF ChangerInv, IInv, Turn, HasSlots
<1>5. PICK names \in SUBSET NamesOn[b], first \in Nat : Holding(b, names, first)
  BY DEF InOrder
<1>6. IsFiniteSet(names) /\ Cardinality(names) \in Nat
  BY NamesFinite
<1> DEFINE k == Cardinality(names)
<1>7. SlotsOf(b) = first .. first + k - 1 /\ Cardinality(SlotsOf(b)) = k
  BY <1>5, <1>6, RangeSize DEF Holding, SlotRange
<1>8. CASE k = 0
  <2>1. names = {} /\ SlotsOf(b) = {}
    BY <1>6, <1>7, <1>8, FS_EmptySet
  <2>2. Saved(b) = NoState
    BY <1>2, <2>1 DEF FileIsOfMapping
  <2>3. ~(volumes[b] > 0)
    <3>1. volumes[b] > 0 => Saved(b).num = volumes[b] /\ volumes[b] # 0
      BY DEF Saved
    <3>2. QED
      BY <2>2, <3>1 DEF NoState
  <2>4. labels[b] = {}
    BY <1>3, <2>3 DEF HasSlots
  <2>5. SlotRange(start[b], k) = {}
    BY <1>1, <1>8 DEF SlotRange
  <2>6. Holding(b, names, start[b])
    BY <1>8, <2>1, <2>5 DEF Holding
  <2>7. QED
    BY <2>1, <2>4, <2>6
<1>9. CASE k > 0
  <2>1. SlotsOf(b) # {} /\ first \in SlotsOf(b) /\ \A t \in SlotsOf(b) : first <= t
    BY <1>6, <1>7, <1>9
  <2>2. (CHOOSE s \in SlotsOf(b) : \A t \in SlotsOf(b) : s <= t) = first
    <3>1. \A s \in SlotsOf(b) : (\A t \in SlotsOf(b) : s <= t) => s = first
      BY <1>7, <2>1
    <3>2. QED
      BY <2>1, <3>1
  <2>3. Saved(b) = [num |-> k, start |-> first]
    BY <1>2, <1>7, <2>1, <2>2 DEF FileIsOfMapping
  <2>4. volumes[b] > 0
    <3>1. ~(volumes[b] > 0) => Saved(b).num = 0
      BY DEF Saved, NoState
    <3>2. QED
      BY <1>9, <2>3, <3>1
  <2>5. volumes[b] = k /\ start[b] = first
    BY <2>3, <2>4 DEF Saved
  <2>6. Cardinality(labels[b]) = k
    BY <1>3, <1>4, <2>4, <2>5
  <2>7. QED
    BY <1>5, <2>5, <2>6
<1>10. QED
  BY <1>6, <1>8, <1>9

LEMMA StaysThere ==
  ASSUME SlotsSuffice, ChangerInv, KeepInv, BoundInv, InOrder, MapVolumes, ~needsUpdate,
         \A b \in Bay : FileIsOfMapping(b), NEW s \in D!Slot
  PROVE  StaysIn(s, at'[s])
<1>1. at \in D!Mapping /\ at' \in D!Mapping
  BY MappingIsOne DEF ChangerInv
<1>2. /\ at[s] # NoVolume => at[s] \in Volume /\ at[s].bay \in Bay
      /\ at'[s] # NoVolume => at'[s] \in Volume /\ at'[s].bay \in Bay
  BY <1>1 DEF D!Mapping, Volume
<1>3. ASSUME NEW b \in Bay
      PROVE  \E names \in SUBSET NamesOn[b] :
                /\ Cardinality(names) = Cardinality(labels[b])
                /\ Holding(b, names, start[b])
                /\ SlotsOf(b)' = SlotsOf(b)
  <2>1. PICK names \in SUBSET NamesOn[b] :
           /\ Cardinality(names) = Cardinality(labels[b])
           /\ Holding(b, names, start[b])
    BY SameSlots
  <2>2. Holding(b, labels[b], start[b])'
    BY VolumesMapped
  <2>3. labels' = labels /\ start' = start
    BY DEF MapVolumes, SaveDynamic, magazines, mapping
  <2>4. SlotsOf(b)' = SlotRange(start[b], Cardinality(labels[b]))
    BY <2>2, <2>3 DEF Holding
  <2>5. SlotsOf(b) = SlotRange(start[b], Cardinality(names))
    BY <2>1 DEF Holding
  <2>6. QED
    BY <2>1, <2>4, <2>5
<1>4. CASE at'[s] = NoVolume
  <2>1. ASSUME at[s] # NoVolume
        PROVE  FALSE
    <3>1. PICK b \in Bay : b = at[s].bay
      BY <1>2, <2>1
    <3>2. s \in SlotsOf(b) /\ s \notin SlotsOf(b)'
      BY <1>4, <2>1, <3>1 DEF SlotsOf
    <3>3. QED
      BY <1>3, <3>2
  <2>2. QED
    BY <1>4, <2>1 DEF StaysIn
<1>5. CASE at'[s] # NoVolume
  <2>1. PICK b \in Bay : b = at'[s].bay
    BY <1>2, <1>5
  <2>2. s \in SlotsOf(b)'
    BY <1>5, <2>1 DEF SlotsOf
  <2>3. PICK names \in SUBSET NamesOn[b] :
           /\ Cardinality(names) = Cardinality(labels[b])
           /\ Holding(b, names, start[b])
           /\ SlotsOf(b)' = SlotsOf(b)
    BY <1>3
  <2>4. /\ names \in SUBSET Nat /\ IsFiniteSet(names) /\ Cardinality(names) \in Nat
        /\ start[b] \in Nat
    BY NamesFinite DEF ChangerInv, TypeInv, TypeOK
  <2>5. SlotsOf(b) = SlotRange(start[b], Cardinality(names))
    BY <2>3 DEF Holding
  <2>6. PICK i \in 0 .. Cardinality(names) - 1 : s = start[b] + i
    <3>1. s - start[b] \in 0 .. Cardinality(names) - 1 /\ s = start[b] + (s - start[b])
      BY <2>2, <2>3, <2>4, <2>5 DEF SlotRange
    <3>2. QED
      BY <3>1
  <2>7. at[s] = [bay |-> b, name |-> Nth(names, i)]
    BY <2>3, <2>6 DEF Holding
  <2>8. at'[s] = [bay |-> b, name |-> Nth(labels[b], i)]
    <3>1. Holding(b, labels[b], start[b])' /\ labels' = labels /\ start' = start
      BY VolumesMapped DEF MapVolumes, SaveDynamic, magazines, mapping
    <3>2. QED
      BY <2>3, <2>6, <3>1 DEF Holding
  <2>9. CASE names = labels[b]
    BY <2>7, <2>8, <2>9 DEF StaysIn
  <2>10. CASE names # labels[b]
    <3>1. {at[t].name : t \in SlotsOf(b)} = names
      <4>1. ASSUME NEW t \in SlotsOf(b)
            PROVE  at[t].name \in names
        <5>1. t - start[b] \in 0 .. Cardinality(names) - 1 /\ t = start[b] + (t - start[b])
          BY <2>4, <2>5 DEF SlotRange
        <5>2. PICK j \in 0 .. Cardinality(names) - 1 : t = start[b] + j
          BY <5>1
        <5>3. at[t] = [bay |-> b, name |-> Nth(names, j)]
          BY <2>3, <5>2 DEF Holding
        <5>4. Nth(names, j) \in names
          BY <2>4, NthVolume
        <5>5. QED
          BY <5>3, <5>4
      <4>2. ASSUME NEW name \in names
            PROVE  \E t \in SlotsOf(b) : at[t].name = name
        <5>1. PICK j \in 0 .. Cardinality(names) - 1 : Nth(names, j) = name
          BY <2>4, NthOf
        <5>2. start[b] + j \in SlotsOf(b)
          BY <2>4, <2>5 DEF SlotRange
        <5>3. at[start[b] + j] = [bay |-> b, name |-> name]
          BY <2>3, <5>1 DEF Holding
        <5>4. QED
          BY <5>2, <5>3
      <4>3. QED
        BY <4>1, <4>2
    <3>2. Cardinality(SlotsOf(b)) = Cardinality(labels[b])
      <4>1. Cardinality(SlotsOf(b)) = Cardinality(names)
        BY <2>4, <2>5, RangeSize
      <4>2. QED
        BY <2>3, <4>1
    <3>3. Exchanged(b)
      BY <2>10, <3>1, <3>2 DEF Exchanged
    <3>4. QED
      BY <1>5, <2>1, <2>2, <2>3, <3>3 DEF StaysIn
  <2>11. QED
    BY <2>9, <2>10
<1>6. QED
  BY <1>4, <1>5

(***************************************************************************)
(* Bacula is not told of a mapping only if it need not be: each slot has   *)
(* the volume it had, for any number of magazines and any names; but for a *)
(* magazine whose files were exchanged for as many others or whose state   *)
(* file is not of the mapping before.                                      *)
(***************************************************************************)
THEOREM NothingMovesSilentlyHolds ==
  ASSUME SlotsSuffice
  PROVE  SpecChanger => NothingMovesSilently
<1>1. ASSUME ChangerInv, KeepInv, BoundInv, InOrder, [NextChanger]_allVars,
             pc = "dynamic", pc' = "ready", ~needsUpdate,
             \A b \in Bay : FileIsOfMapping(b)
      PROVE  \A s \in D!Slot : StaysIn(s, at'[s])
  <2>1. MapVolumes
    BY <1>1, OnlyMapped
  <2>2. QED
    BY <1>1, <2>1, StaysThere
<1>2. ChangerInv /\ KeepInv /\ BoundInv /\ InOrder /\ [NextChanger]_allVars
         => [/\ pc = "dynamic" /\ pc' = "ready"
             /\ ~needsUpdate
             /\ \A b \in Bay : FileIsOfMapping(b)
             => \A s \in D!Slot : StaysIn(s, at'[s])]_allVars
  BY <1>1
<1>3. SpecChanger => []BoundInv
  BY BaysSpec, BoundAlways, PTL
<1>4. QED
  BY <1>2, <1>3, InOrderAlways, PTL DEF SpecChanger, NothingMovesSilently

-----------------------------------------------------------------------------
(***************************************************************************)
(* The drives while they are restored: a drive whose volume is still in    *)
(* the changer has it in its state file, and will be looked at; those      *)
(* before the one at hand are back in a slot with a volume of that name.   *)
(* Once a command has begun to move a volume this is over.                 *)
(***************************************************************************)
Restoring == dpc \in {"restore", "forget", "ready"} \/ (dpc = "link" /\ ~loading)

Found(d) ==
    /\ vs[d] \in D!Slot
    /\ at[vs[d]] # NoVolume
    /\ at[vs[d]].name = had[d].name

LinkTo(d) == [volume |-> at[vs[d]], mount |-> place[at[vs[d]].bay]]

BackInDrive(d) == InChanger(had[d]) => Found(d) /\ link[d] = LinkTo(d)

RestoreInv ==
    pc = "ready" /\ Restoring =>
        /\ ~loading
        /\ \A d \in D!Drive : InChanger(had[d]) => drvFile[d] = had[d] /\ d < drives
        /\ dpc # "ready" => n < drives
        /\ \A d \in D!Drive : dpc = "ready" \/ d < n => BackInDrive(d)
        /\ dpc = "link" => (InChanger(had[n]) => Found(n))
        /\ dpc = "forget" => ~InChanger(had[n])

(* A volume on a mounted magazine has a slot, and what is in a slot is on  *)
(* a magazine.                                                             *)
LEMMA InSlots ==
  ASSUME ChangerInv, InOrder, pc = "ready"
  PROVE  /\ \A v \in Volume : InChanger(v) => \E s \in D!Slot : at[s] = v
         /\ \A s \in D!Slot : at[s] # NoVolume => InChanger(at[s])
<1>1. ASSUME NEW v \in Volume, InChanger(v)
      PROVE  \E s \in D!Slot : at[s] = v
  <2>1. PICK b \in Bay, name \in Name :
           v = [bay |-> b, name |-> name] /\ name \in labels[b]
    BY <1>1 DEF InChanger, Volume
  <2>2. PICK first \in Nat : Holding(b, labels[b], first)
    BY DEF InOrder
  <2>3. labels[b] \in SUBSET Nat /\ IsFiniteSet(labels[b]) /\ Cardinality(labels[b]) \in Nat
    BY NamesFinite DEF ChangerInv, OnMagazines
  <2>4. PICK i \in 0 .. Cardinality(labels[b]) - 1 : Nth(labels[b], i) = name
    BY <2>1, <2>3, NthOf
  <2>5. first + i \in SlotsOf(b) /\ at[first + i] = v
    BY <2>1, <2>2, <2>3, <2>4 DEF Holding, SlotRange
  <2>6. QED
    BY <2>5 DEF SlotsOf
<1>2. ASSUME NEW s \in D!Slot, at[s] # NoVolume
      PROVE  InChanger(at[s])
  <2>1. at[s] \in Volume
    BY <1>2 DEF ChangerInv, D!Mapping
  <2>2. PICK b \in Bay : b = at[s].bay
    BY <2>1 DEF Volume
  <2>3. PICK first \in Nat : Holding(b, labels[b], first)
    BY DEF InOrder
  <2>4. labels[b] \in SUBSET Nat /\ IsFiniteSet(labels[b]) /\ Cardinality(labels[b]) \in Nat
    BY NamesFinite DEF ChangerInv, OnMagazines
  <2>5. s \in SlotRange(first, Cardinality(labels[b]))
    BY <1>2, <2>2, <2>3 DEF SlotsOf, Holding
  <2>6. s - first \in 0 .. Cardinality(labels[b]) - 1 /\ s = first + (s - first)
    BY <2>4, <2>5 DEF SlotRange
  <2>7. PICK i \in 0 .. Cardinality(labels[b]) - 1 : s = first + i
    BY <2>6
  <2>8. at[s] = [bay |-> b, name |-> Nth(labels[b], i)]
    BY <2>3, <2>7 DEF Holding
  <2>9. Nth(labels[b], i) \in labels[b]
    BY <2>4, NthVolume
  <2>10. QED
    BY <2>1, <2>8, <2>9 DEF InChanger
<1>3. QED
  BY <1>1, <1>2

(* The slots and magazines stand still.                                    *)
Still == UNCHANGED <<at, labels, place, had, pc>>

(* The drive at hand is done.                                              *)
LEMMA DriveDone ==
  ASSUME D!TypeOK, RestoreInv, pc = "ready", Restoring, dpc # "ready",
         Still, UNCHANGED <<drives, loading>>, D!NextDrive,
         \A d \in D!Drive \ {n} :
            drvFile'[d] = drvFile[d] /\ link'[d] = link[d] /\ vs'[d] = vs[d],
         InChanger(had[n]) => drvFile'[n] = drvFile[n],
         \A d \in D!Drive : d = n => BackInDrive(d)'
  PROVE  RestoreInv'
<1>1. /\ n \in D!Drive /\ drives \in 0 .. Drives /\ n < drives
      /\ Drives \in Nat \ {0} /\ D!Drive = 0 .. Drives - 1
      /\ ~loading
  BY SizesAssumption DEF D!TypeOK, RestoreInv, D!Drive
<1>2. \A d \in D!Drive : InChanger(had[d]) => drvFile'[d] = had[d] /\ d < drives
  BY DEF RestoreInv
<1>3. \A d \in D!Drive : d < n => BackInDrive(d)'
  BY <1>1 DEF RestoreInv, BackInDrive, Found, LinkTo, InChanger, Still
<1>4. /\ dpc' \in {"restore", "ready"}
      /\ dpc' = "restore" => n' = n + 1 /\ n' < drives
      /\ dpc' = "ready" => n' = 0 /\ ~(n + 1 < drives)
  BY DEF D!NextDrive
<1>5. \A d \in D!Drive : dpc' = "ready" \/ d < n' => BackInDrive(d)'
  <2>1. SUFFICES ASSUME NEW d \in D!Drive, dpc' = "ready" \/ d < n'
                 PROVE  BackInDrive(d)'
    OBVIOUS
  <2>2. CASE d < n \/ d = n
    BY <1>3, <2>2
  <2>3. CASE ~(d < n \/ d = n)
    <3>1. dpc' = "ready" /\ ~(d < drives)
      BY <1>1, <1>4, <2>1, <2>3
    <3>2. ~InChanger(had[d])
      BY <1>2, <3>1
    <3>3. QED
      BY <3>2 DEF BackInDrive, InChanger, Still
  <2>4. QED
    BY <2>2, <2>3
<1>6. \A d \in D!Drive : InChanger(had[d])' => InChanger(had[d])
  BY DEF InChanger, Still
<1>7. QED
  BY <1>1, <1>2, <1>4, <1>5, <1>6 DEF RestoreInv, Still

LEMMA RestoreDrivesKeeps ==
  ASSUME D!TypeOK, ChangerInv, InOrder, RestoreInv, pc = "ready", Restoring, RestoreDrives
  PROVE  RestoreInv'
<1>1. Still
  BY DEF RestoreDrives, StayOn, vars, memory, magazines, Still,
     D!RestoreUnloaded, D!RestoreGone, D!ForgetLink, D!RestoreLoaded,
     D!LinkFound, D!RemoveOldLink, D!CreateLink, D!outside
<1>2. /\ ~loading
      /\ \A d \in D!Drive : InChanger(had[d]) => drvFile[d] = had[d] /\ d < drives
      /\ dpc # "ready" => n < drives
      /\ \A d \in D!Drive : dpc = "ready" \/ d < n => BackInDrive(d)
      /\ dpc = "link" => (InChanger(had[n]) => Found(n))
      /\ dpc = "forget" => ~InChanger(had[n])
  BY DEF RestoreInv
<1>3. /\ n \in D!Drive /\ D!Drive = 0 .. Drives - 1 /\ Drives \in Nat \ {0}
      /\ drvFile \in [D!Drive -> Volume \cup {NoVolume, Empty}]
      /\ DOMAIN link = D!Drive /\ DOMAIN vs = D!Drive
  BY SizesAssumption DEF D!TypeOK, D!Drive
<1>4. \A d \in D!Drive : InChanger(had[d])' <=> InChanger(had[d])
  BY <1>1 DEF Still, InChanger
<1>5. \A s \in D!Slot : at[s] # NoVolume => at[s] \in Volume
  BY DEF ChangerInv, D!Mapping
(* Only the link of the drive at hand.                                     *)
<1>6. ASSUME link' = [link EXCEPT ![n] = NoLink], D!NextDrive, dpc # "ready",
             UNCHANGED <<drvFile, drives, vs, loading>>, ~InChanger(had[n])
      PROVE  RestoreInv'
  <2>1. \A d \in D!Drive : d = n => BackInDrive(d)'
    BY <1>4, <1>6 DEF BackInDrive
  <2>2. \A d \in D!Drive \ {n} : link'[d] = link[d]
    BY <1>3, <1>6
  <2>3. QED
    BY <1>1, <1>6, <2>1, <2>2, DriveDone
<1>7. CASE D!RestoreUnloaded
  <2>1. ~InChanger(had[n])
    BY <1>2, <1>3, <1>7, NothingAssumption DEF D!RestoreUnloaded, D!HasStateFile, InChanger
  <2>2. QED
    BY <1>6, <1>7, <2>1 DEF D!RestoreUnloaded, D!TryRemoveLink
<1>8. CASE D!ForgetLink
  BY <1>2, <1>6, <1>8 DEF D!ForgetLink, D!TryRemoveLink
<1>9. CASE D!RestoreGone
  <2>1. /\ dpc = "restore" /\ dpc' = "forget"
        /\ D!SlotsWithLabel(n) = {}
        /\ drvFile' = [drvFile EXCEPT ![n] = NoVolume]
        /\ UNCHANGED <<link, n, drives, vs, loading>>
    BY <1>9 DEF D!RestoreGone, D!TryDeleteState
  <2>2. ~InChanger(had[n])
    <3>1. SUFFICES ASSUME InChanger(had[n])
                   PROVE  FALSE
      OBVIOUS
    <3>2. had[n] \in Volume /\ drvFile[n] = had[n]
      BY <1>2, <1>3, <3>1 DEF InChanger
    <3>3. PICK s \in D!Slot : at[s] = had[n]
      BY <3>1, <3>2, InSlots
    <3>4. s \in D!SlotsWithLabel(n)
      BY <3>2, <3>3, NothingAssumption DEF D!SlotsWithLabel
    <3>5. QED
      BY <2>1, <3>4
  <2>3. \A d \in D!Drive : InChanger(had[d]) => drvFile'[d] = had[d] /\ d < drives
    BY <1>2, <1>3, <2>1, <2>2
  <2>4. \A d \in D!Drive : d < n => BackInDrive(d)'
    BY <1>1, <1>2, <2>1 DEF BackInDrive, Found, LinkTo, InChanger, Still
  <2>5. QED
    BY <1>1, <1>2, <1>3, <1>4, <2>1, <2>2, <2>3, <2>4 DEF RestoreInv, Still
<1>10. CASE D!RestoreLoaded
  <2>1. PICK s \in D!SlotsWithLabel(n) : vs' = [vs EXCEPT ![n] = s]
    BY <1>10 DEF D!RestoreLoaded
  <2>2. /\ dpc = "restore" /\ dpc' = "link"
        /\ UNCHANGED <<drvFile, link, n, drives, loading>>
    BY <1>10 DEF D!RestoreLoaded, D!disk
  <2>3. ASSUME InChanger(had[n])
        PROVE  Found(n)'
    <3>1. /\ s \in D!Slot /\ at[s] # NoVolume
          /\ [v \in Volume |-> v.name][at[s]] = [v \in Volume |-> v.name][drvFile[n]]
      BY <2>1 DEF D!SlotsWithLabel
    <3>2. drvFile[n] = had[n] /\ had[n] \in Volume
      BY <1>2, <1>3, <2>3 DEF InChanger
    <3>3. at[s].name = had[n].name
      BY <1>5, <3>1, <3>2
    <3>4. vs'[n] = s
      BY <1>3, <2>1
    <3>5. QED
      BY <1>1, <2>2, <3>1, <3>3, <3>4 DEF Found, Still
  <2>4. \A d \in D!Drive : d < n => BackInDrive(d)'
    <3>1. \A d \in D!Drive : d < n => vs'[d] = vs[d]
      BY <1>3, <2>1
    <3>2. QED
      BY <1>1, <1>2, <2>2, <3>1 DEF BackInDrive, Found, LinkTo, InChanger, Still
  <2>5. QED
    BY <1>1, <1>2, <1>3, <1>4, <2>2, <2>3, <2>4 DEF RestoreInv, Still
<1>11. InChanger(had[n]) /\ dpc = "link" => D!Target(n) = LinkTo(n)
  <2>1. SUFFICES ASSUME InChanger(had[n]), dpc = "link"
                 PROVE  D!Target(n) = LinkTo(n)
    OBVIOUS
  <2>2. at[vs[n]] \in Volume
    BY <1>2, <1>5, <2>1 DEF Found
  <2>3. QED
    BY <2>2 DEF D!Target, LinkTo
<1>12. CASE D!LinkFound \/ D!CreateLink
  <2>1. /\ dpc = "link" /\ D!NextDrive
        /\ UNCHANGED <<drvFile, drives, vs, loading>>
        /\ \/ link' = link /\ link[n] = D!Target(n)
           \/ link' = [link EXCEPT ![n] = D!Target(n)]
    BY <1>2, <1>12 DEF D!LinkFound, D!CreateLink, D!Linked, D!disk
  <2>2. link'[n] = D!Target(n) /\ \A d \in D!Drive \ {n} : link'[d] = link[d]
    BY <1>3, <2>1
  <2>3. \A d \in D!Drive : d = n => BackInDrive(d)'
    <3>1. SUFFICES ASSUME NEW d \in D!Drive, d = n, InChanger(had[d])
                   PROVE  BackInDrive(d)'
      BY <1>4 DEF BackInDrive
    <3>2. Found(d) /\ link'[d] = LinkTo(d)
      BY <1>2, <1>11, <2>1, <2>2, <3>1
    <3>3. QED
      BY <1>1, <2>1, <3>2 DEF BackInDrive, Found, LinkTo, Still
  <2>4. QED
    BY <1>1, <2>1, <2>2, <2>3, DriveDone
<1>13. CASE D!RemoveOldLink
  <2>1. /\ dpc = "link" /\ link' = [link EXCEPT ![n] = NoLink]
        /\ UNCHANGED <<drvFile, dpc, n, drives, vs, loading>>
    BY <1>13 DEF D!RemoveOldLink, D!memory
  <2>2. \A d \in D!Drive : d < n => BackInDrive(d)'
    <3>1. \A d \in D!Drive : d < n => link'[d] = link[d]
      BY <1>3, <2>1
    <3>2. QED
      BY <1>1, <1>2, <2>1, <3>1 DEF BackInDrive, Found, LinkTo, InChanger, Still
  <2>3. InChanger(had[n]) => Found(n)'
    BY <1>1, <1>2, <2>1 DEF Found, Still
  <2>4. QED
    BY <1>1, <1>2, <1>3, <1>4, <2>1, <2>2, <2>3 DEF RestoreInv, Still
<1>14. QED
  BY <1>7, <1>8, <1>9, <1>10, <1>12, <1>13 DEF RestoreDrives

LEMMA RestoreInvNext ==
  ASSUME D!TypeOK, ChangerInv, InOrder, RestoreInv, [NextChanger]_allVars
  PROVE  RestoreInv'
<1>1. CASE UNCHANGED allVars
  BY <1>1 DEF allVars, magazines, driveVars, vars, memory, RestoreInv, Restoring,
     BackInDrive, Found, LinkTo, InChanger
<1>2. ASSUME NEW b \in Bay, ExchangeVolumes(b)
      PROVE  RestoreInv'
  BY <1>2 DEF ExchangeVolumes, ChangeMagazine, memory, RestoreInv
<1>3. CASE MapMagazines \/ MapVolumes
  <2>1. dpc = "off" /\ dpc' = dpc
    BY <1>3 DEF MapMagazines, MapVolumes, driveVars, Begin, Keep, Assign, SaveBays,
       SaveDynamic, ForEachBay, ChangerInv, DrivesAfterSlots
  <2>2. QED
    BY <2>1 DEF RestoreInv, Restoring
<1>4. CASE InitializeDrives
  <2>1. /\ dpc' = "restore" /\ n' = 0 /\ ~loading'
        /\ had' = drvFile /\ drvFile' = drvFile
    BY <1>4 DEF InitializeDrives, D!Begin, D!disk
  <2>2. PICK max \in D!Drive : /\ \A d \in D!Drive : D!HasStateFile(d) => d <= max
                               /\ drives' = max + 1
    BY <1>4 DEF InitializeDrives, D!Begin
  <2>3. D!Drive \subseteq Nat
    BY SizesAssumption DEF D!Drive
  <2>4. ASSUME NEW d \in D!Drive, InChanger(had[d])'
        PROVE  drvFile'[d] = had'[d] /\ d < drives'
    <3>1. had'[d] # NoVolume
      BY <2>4, NothingAssumption DEF InChanger
    <3>2. d <= max
      BY <2>1, <2>2, <3>1 DEF D!HasStateFile
    <3>3. QED
      BY <2>1, <2>2, <2>3, <3>2
  <2>5. n' < drives'
    BY <2>1, <2>2, <2>3
  <2>6. \A d \in D!Drive : ~(dpc' = "ready" \/ d < n')
    BY <2>1, <2>3
  <2>7. QED
    BY <2>1, <2>4, <2>5, <2>6 DEF RestoreInv
<1>5. CASE RestoreDrives
  <2>1. UNCHANGED pc
    BY <1>5 DEF RestoreDrives, StayOn, vars, memory
  <2>2. CASE pc = "ready" /\ Restoring
    BY <1>5, <2>2, RestoreDrivesKeeps
  <2>3. CASE pc # "ready"
    BY <2>1, <2>3 DEF RestoreInv
  <2>4. CASE ~Restoring
    <3>1. dpc = "link" /\ loading /\ dpc' \in {"link", "save"} /\ loading' = loading
      BY <1>5, <2>4 DEF RestoreDrives, Restoring, D!RestoreUnloaded, D!RestoreGone,
         D!ForgetLink, D!RestoreLoaded, D!LinkFound, D!RemoveOldLink, D!CreateLink,
         D!Linked, D!memory
    <3>2. QED
      BY <3>1 DEF RestoreInv, Restoring
  <2>5. QED
    BY <2>2, <2>3, <2>4
<1>6. CASE MoveVolume
  <2>1. dpc' \in {"done", "unload"} \/ (dpc' = "link" /\ loading')
    BY <1>6 DEF MoveVolume, D!LoadAgain, D!Load, D!UnloadEmpty, D!Unload, D!SaveLoaded,
       D!DeleteState
  <2>2. QED
    BY <2>1 DEF RestoreInv, Restoring
<1>7. CASE RefuseToMove \/ FinishCommand \/ Killed
  <2>1. pc' # "ready"
    BY <1>7 DEF RefuseToMove, FinishCommand, Killed, EndProcess, Exit
  <2>2. QED
    BY <2>1 DEF RestoreInv
<1>8. CASE AddVolumes \/ AddVolume \/ AddFails
  <2>1. pc' # "ready"
    BY <1>8 DEF AddVolumes, AddVolume, AddFails, CreateVolumes, CreateSucceeds,
       CreateVolume, CreateFails, Exit
  <2>2. QED
    BY <2>1 DEF RestoreInv
<1>9. QED
  BY <1>1, <1>2, <1>3, <1>4, <1>5, <1>6, <1>7, <1>8 DEF NextChanger

(***************************************************************************)
(* A drive whose volume is on a mounted magazine is loaded with it again,  *)
(* wherever its slot and its magazine are now and whatever was killed, for *)
(* any number of magazines, volumes and drives.                            *)
(***************************************************************************)
THEOREM LoadedVolumeStaysHolds ==
  ASSUME SlotsSuffice
  PROVE  SpecChanger => []LoadedVolumeStays
<1>1. SpecChanger => []D!TypeOK
  <2>1. /\ NoLink \notin [volume : Volume, mount : MountPoint]
        /\ NoVolume \notin Volume /\ Empty \notin Volume \cup {NoVolume}
        /\ Drives \in Nat \ {0} /\ Slots \in Nat \ {0}
    BY NothingAssumption, SizesAssumption
  <2>2. DP!Spec => []DP!TypeOK
    BY <2>1, DP!TypeCorrect
  <2>3. D!TypeOK <=> DP!TypeOK
    BY DEF D!TypeOK, DP!TypeOK, D!Slot, DP!Slot, D!Drive, DP!Drive, D!NoSlot, DP!NoSlot,
       D!NoDrive, DP!NoDrive, D!Path, DP!Path
  <2>4. QED
    BY ImplementsDrivesHolds, SameSpec, <2>2, <2>3, PTL DEF ImplementsDrives
<1>2. InitChanger => RestoreInv
  BY DEF InitChanger, RestoreInv, Restoring
<1>3. D!TypeOK /\ ChangerInv /\ InOrder /\ RestoreInv /\ [NextChanger]_allVars => RestoreInv'
  BY RestoreInvNext
<1>4. ChangerInv /\ InOrder /\ RestoreInv => LoadedVolumeStays
  <2>1. SUFFICES ASSUME ChangerInv, InOrder, RestoreInv, pc = "ready", dpc = "ready",
                        NEW d \in D!Drive, InChanger(had[d])
                 PROVE  /\ vs[d] # D!NoSlot
                        /\ at[vs[d]].name = had[d].name
                        /\ OnlyOne(had[d]) => at[vs[d]] = had[d]
                        /\ link[d] = [volume |-> at[vs[d]],
                                      mount |-> place[at[vs[d]].bay]]
    BY DEF LoadedVolumeStays
  <2>2. Found(d) /\ link[d] = LinkTo(d)
    BY <2>1 DEF RestoreInv, Restoring, BackInDrive
  <2>3. vs[d] # D!NoSlot
    BY <2>2, SizesAssumption DEF Found, D!Slot, D!NoSlot
  <2>4. InChanger(at[vs[d]])
    BY <2>1, <2>2, InSlots DEF Found
  <2>5. PICK b, c \in Bay, name \in Nat :
           /\ at[vs[d]] = [bay |-> b, name |-> name] /\ name \in labels[b]
           /\ had[d] = [bay |-> c, name |-> name]
    <3>1. at[vs[d]] \in Volume /\ had[d] \in Volume /\ at[vs[d]].name = had[d].name
      BY <2>1, <2>2, <2>4 DEF InChanger, Found
    <3>2. at[vs[d]].name \in Nat
      BY <3>1, NamesAssumption DEF Volume
    <3>3. QED
      BY <2>4, <3>1, <3>2 DEF Volume, InChanger
  <2>6. OnlyOne(had[d]) => at[vs[d]] = had[d]
    BY <2>5 DEF OnlyOne
  <2>7. QED
    BY <2>2, <2>3, <2>6 DEF Found, LinkTo
<1>5. QED
  BY InOrderAlways, <1>1, <1>2, <1>3, <1>4, PTL DEF SpecChanger
=============================================================================
