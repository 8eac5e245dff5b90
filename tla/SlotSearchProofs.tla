-------------------------- MODULE SlotSearchProofs --------------------------
(***************************************************************************)
(* FindEmptySlotRange() is correct for arrays of any size and ranges of    *)
(* any length.                                                             *)
(***************************************************************************)
EXTENDS SlotSearch, TLAPS

USE SizesAssumption, CountsAssumption

(* Two lowest fits of the same array are the same slot, so whatever is one *)
(* is the one FindEmptySlotRange denotes.                                  *)
LEMMA LowestFitIsTheOne ==
  ASSUME NEW T, NEW sz \in Nat, NEW k \in Nat, NEW first \in 1 .. sz,
         Fits(T, first, k),
         \A lower \in 1 .. first - 1 : ~Fits(T, lower, k)
  PROVE  first = FindEmptySlotRange(T, sz, k)
<1> DEFINE Lowest(f) == /\ Fits(T, f, k)
                        /\ \A lower \in 1 .. f - 1 : ~Fits(T, lower, k)
<1>1. \A f \in 1 .. sz : Lowest(f) => f = first
  <2> SUFFICES ASSUME NEW f \in 1 .. sz, Lowest(f)
               PROVE  f = first
    OBVIOUS
  <2> HIDE DEF Fits
  <2>1. ~(f < first)
    OBVIOUS
  <2>2. ~(first < f)
    OBVIOUS
  <2>3. QED
    BY <2>1, <2>2
<1>2. Lowest(first)
  OBVIOUS
<1> DEFINE chosen == CHOOSE f \in 1 .. sz : Lowest(f)
<1>3. chosen \in 1 .. sz /\ Lowest(chosen)
  <2> HIDE DEF Lowest
  <2>1. QED
    BY <1>2
<1>4. chosen = first
  BY <1>1, <1>3
<1>5. QED
  BY <1>4 DEF FindEmptySlotRange

-----------------------------------------------------------------------------
(* No start below first is good: the slots before it are dealt with.       *)
NoneBelow(first) == \A lower \in 1 .. first - 1 : ~Fits(taken, lower, count)

(***************************************************************************)
(* While skipping, no range may start below n.  From the moment start is   *)
(* set, found counts the free slots from start up to n, and no range may   *)
(* start below start; slots are only added at the end, when n is there.    *)
(***************************************************************************)
Skipping ==
    pc = "skip" => found = 0 /\ NoneBelow(n)

Counting ==
    pc # "skip" => /\ found = n - start
                   /\ \A s \in start .. n - 1 : s \notin taken
                   /\ NoneBelow(start)
                   /\ start <= slots

ArraySize ==
    /\ n <= size
    /\ pc \in {"skip", "scan"} => size = slots
    /\ pc = "extend" => n = size /\ size >= slots
    /\ pc = "return" => found = count /\ size = Larger(slots, start + count)

IInv == TypeOK /\ Skipping /\ Counting /\ ArraySize

LEMMA IInvInit == Init => IInv
BY DEF Init, IInv, TypeOK, Skipping, Counting, ArraySize, NoneBelow

LEMMA IInvNext == IInv /\ [Next]_vars => IInv'
<1> SUFFICES ASSUME IInv, [Next]_vars
             PROVE  IInv'
  OBVIOUS
<1> USE DEF IInv, TypeOK, Skipping, Counting, ArraySize, TakenHere, Scanning, call
<1>1. CASE Skip
  <2>1. NoneBelow(n + 1)
    <3>1. ~Fits(taken, n, count)
      BY <1>1 DEF Skip, Fits, SlotRange
    <3>2. QED
      BY <1>1, <3>1 DEF Skip, NoneBelow
  <2>2. QED
    BY <1>1, <2>1 DEF Skip, NoneBelow
<1>2. CASE Mark
  BY <1>2 DEF Mark, NoneBelow
<1>3. CASE Count
  BY <1>3 DEF Count, NoneBelow
<1>4. CASE Restart
  <2>1. ASSUME NEW lower \in 1 .. n - 1, lower >= start
        PROVE  ~Fits(taken, lower, count)
    BY <1>4, <2>1 DEF Restart, Fits, SlotRange
  <2>2. NoneBelow(n)
    BY <1>4, <2>1 DEF Restart, NoneBelow
  <2>3. QED
    BY <1>4, <2>2 DEF Restart, NoneBelow
<1>5. CASE EndScan
  BY <1>5 DEF EndScan, NoneBelow, Larger
<1>6. CASE Extend
  <2>1. n \notin taken
    BY <1>6 DEF Extend
  <2>2. QED
    BY <1>6, <2>1 DEF Extend, NoneBelow
<1>7. CASE EndExtend
  <2>1. found = count /\ size = start + count /\ size >= slots
    BY <1>7 DEF EndExtend
  <2>2. size = Larger(slots, start + count)
    BY <2>1 DEF Larger
  <2>3. UNCHANGED <<slots, taken, count, size, n, start, found>> /\ pc' = "return"
    BY <1>7 DEF EndExtend
  <2>4. QED
    BY <1>7, <2>1, <2>2, <2>3 DEF EndExtend, NoneBelow, Larger
<1>8. CASE UNCHANGED vars
  BY <1>8 DEF vars, NoneBelow, Larger
<1>9. QED
  BY <1>1, <1>2, <1>3, <1>4, <1>5, <1>6, <1>7, <1>8 DEF Next, Returned

(***************************************************************************)
(* The loops keep their variables in range: found never passes count, and  *)
(* no index leaves the positive integers.                                  *)
(***************************************************************************)
THEOREM TypeCorrect == Spec => []TypeOK
<1>1. IInv => TypeOK
  BY DEF IInv
<1>2. QED
  BY IInvInit, IInvNext, <1>1, PTL DEF Spec

(***************************************************************************)
(* Whenever FindEmptySlotRange() returns, it returns the lowest slot at    *)
(* which the volumes fit, and the array has grown exactly as needed.       *)
(***************************************************************************)
THEOREM ReturnsLowestFitHolds == Spec => []ReturnsLowestFit
<1>1. IInv => ReturnsLowestFit
  <2> SUFFICES ASSUME IInv, pc = "return"
               PROVE  ReturnsLowestFit
    BY DEF ReturnsLowestFit
  <2> USE DEF IInv, TypeOK, Counting, ArraySize
  <2>1. start \in 1 .. slots
    OBVIOUS
  <2>2. Fits(taken, start, count)
    BY DEF Fits, SlotRange
  <2>3. start = FindEmptySlotRange(taken, slots, count)
    BY <2>1, <2>2, LowestFitIsTheOne DEF NoneBelow
  <2>4. QED
    BY <2>3 DEF ReturnsLowestFit
<1>2. QED
  BY IInvInit, IInvNext, <1>1, PTL DEF Spec
=============================================================================
