------------------------- MODULE CommandMutexProofs -------------------------
(***************************************************************************)
(* Theorems about CommandMutex and Catalog, for every set of invocations   *)
(* and every nesting of them.                                              *)
(***************************************************************************)
EXTENDS Catalog, FiniteSetTheorems, TLAPS

(* The wait for the command semaphore never reaches its 300 seconds.       *)
NoTimeouts == ~LockTimeouts
NoCrashes == ~Crashes

USE DEF GoTo, NoSemaphore, PostCommand, PostBconsole, Posted

-----------------------------------------------------------------------------
(* The semaphores, program counters and sets of pending bconsole commands  *)
(* stay in their domains, whatever times out, crashes or fails to start.   *)
THEOREM TypeCorrect == Spec => []TypeOK
<1>1. Init => TypeOK
  BY SemValueMaxAssumption DEF Init, TypeOK, Label
<1>2. TypeOK /\ [Next]_vars => TypeOK'
  <2> SUFFICES ASSUME TypeOK, [Next]_vars
               PROVE  TypeOK'
    OBVIOUS
  <2> USE SemValueMaxAssumption DEF TypeOK, Label, Ended
  <2>1. CASE UNCHANGED vars
    BY <2>1 DEF vars
  <2>2. ASSUME NEW p \in Invocation, Start(p) \/ BconsoleLost(p)
        PROVE  TypeOK'
    BY <2>2 DEF Start, BconsoleLost
  <2>3. ASSUME NEW p \in Invocation, Locking(p)
        PROVE  TypeOK'
    BY <2>3 DEF Locking, LockCommand, LockCommandTimeout, DestroyAfterTimeout
  <2>4. ASSUME NEW p \in Invocation, Working(p)
        PROVE  TypeOK'
    BY <2>4 DEF Working, Fail, Perform, Release
  <2>5. ASSUME NEW p \in Invocation, Guarding(p)
        PROVE  TypeOK'
    BY <2>5 DEF Guarding, LockBconsole, SkipBconsole, DestroyAfterSkip,
                UnlockCommand
  <2>6. ASSUME NEW p \in Invocation, Issuing(p)
        PROVE  TypeOK'
    BY <2>6 DEF Issuing, RunBconsole, BconsoleExits, AllIssued
  <2>7. ASSUME NEW p \in Invocation, Leaving(p)
        PROVE  TypeOK'
    BY <2>7 DEF Leaving, Relock, RelockTimeout, DestroyCommand, DestroyBconsole
  <2>8. ASSUME NEW p \in Invocation, Crash(p)
        PROVE  TypeOK'
    BY <2>8 DEF Crash
  <2>9. ASSUME NEW p \in Invocation, NEW q \in Invocation, StartNested(p, q)
        PROVE  TypeOK'
    BY <2>9 DEF StartNested
  <2>10. ASSUME NEW p \in Invocation, NEW q \in Invocation, ForkWithoutExec(p, q)
         PROVE  TypeOK'
    BY <2>10 DEF ForkWithoutExec
  <2>11. QED
    BY <2>1, <2>2, <2>3, <2>4, <2>5, <2>6, <2>7, <2>8, <2>9, <2>10
       DEF Next, Step, AllOver
<1>3. QED
  BY <1>1, <1>2, PTL DEF Spec

-----------------------------------------------------------------------------
(***************************************************************************)
(* The command semaphore is a mutex: it counts 0 or 1, nobody holds it     *)
(* while it counts 1, and never two invocations do.  CommandExclusion is   *)
(* not inductive without the count, nor without the places other than      *)
(* "work" at which an invocation holds it, each of which posts, nor        *)
(* without knowing that nobody is about to post after a time-out.          *)
(***************************************************************************)
IInv ==
    /\ TypeOK
    /\ command \in {0, 1}
    /\ command = 1 => \A p \in Invocation : ~HoldsCommand(p)
    /\ \A p, q \in Invocation : HoldsCommand(p) /\ HoldsCommand(q) => p = q
    /\ \A p \in Invocation : pc[p] # "timeout"

(* A step at which only p moves and p neither takes nor gives the          *)
(* semaphore keeps the invariant if p holds it as it did before.           *)
LEMMA KeepsHolding ==
  ASSUME IInv, TypeOK',
         NEW p \in Invocation,
         command' = command,
         pc'[p] # "timeout", \A q \in Invocation \ {p} : pc'[q] = pc[q],
         HoldsCommand(p)' => HoldsCommand(p)
  PROVE  IInv'
BY DEF IInv, HoldsCommand

(* sem_timedwait: the count goes from 1 to 0 and p becomes the holder.     *)
LEMMA Takes ==
  ASSUME IInv, TypeOK',
         NEW p \in Invocation,
         command > 0, command' = command - 1,
         pc'[p] # "timeout", \A q \in Invocation \ {p} : pc'[q] = pc[q]
  PROVE  IInv'
BY DEF IInv, HoldsCommand

(* sem_post by the holder, who no longer holds it afterwards.              *)
LEMMA Gives ==
  ASSUME IInv, TypeOK',
         NEW p \in Invocation,
         HoldsCommand(p), ~HoldsCommand(p)',
         command' = Posted(command),
         pc'[p] # "timeout", \A q \in Invocation \ {p} : pc'[q] = pc[q]
  PROVE  IInv'
<1>1. command = 0
  BY DEF IInv
<1>2. command' = 1
  BY <1>1, SemValueMaxAssumption
<1>3. \A q \in Invocation : ~HoldsCommand(q)'
  BY DEF IInv, HoldsCommand
<1>4. QED
  BY <1>2, <1>3 DEF IInv

LEMMA IInvInductive ==
  ASSUME NoTimeouts, IInv, TypeOK', [Next]_vars
  PROVE  IInv'
<1> USE DEF TypeOK
<1>1. CASE UNCHANGED vars
  BY <1>1 DEF vars, IInv, HoldsCommand
<1>2. ASSUME NEW p \in Invocation, Start(p) \/ BconsoleLost(p)
      PROVE  IInv'
  BY <1>2, KeepsHolding DEF IInv, Start, BconsoleLost, HoldsCommand
<1>3. ASSUME NEW p \in Invocation, Locking(p)
      PROVE  IInv'
  <2>1. CASE LockCommand(p)
    BY <2>1, Takes DEF LockCommand, IInv
  <2>2. CASE LockCommandTimeout(p)
    BY <2>2 DEF LockCommandTimeout, NoTimeouts
  <2>3. CASE DestroyAfterTimeout(p)
    BY <2>3 DEF DestroyAfterTimeout, IInv
  <2>4. QED
    BY <1>3, <2>1, <2>2, <2>3 DEF Locking
<1>4. ASSUME NEW p \in Invocation, Working(p)
      PROVE  IInv'
  <2>1. CASE Fail(p) \/ Perform(p)
    BY <2>1, KeepsHolding DEF Fail, Perform, IInv, HoldsCommand
  <2>2. CASE Release(p)
    BY <2>2, Gives DEF Release, IInv, HoldsCommand
  <2>3. QED
    BY <1>4, <2>1, <2>2 DEF Working
<1>5. ASSUME NEW p \in Invocation, Guarding(p)
      PROVE  IInv'
  <2>1. CASE LockBconsole(p) \/ SkipBconsole(p) \/ DestroyAfterSkip(p)
    BY <2>1, KeepsHolding
       DEF LockBconsole, SkipBconsole, DestroyAfterSkip, IInv, HoldsCommand
  <2>2. CASE UnlockCommand(p)
    BY <2>2, Gives DEF UnlockCommand, IInv, HoldsCommand
  <2>3. QED
    BY <1>5, <2>1, <2>2 DEF Guarding
<1>6. ASSUME NEW p \in Invocation, Issuing(p)
      PROVE  IInv'
  BY <1>6, KeepsHolding
     DEF Issuing, RunBconsole, BconsoleExits, AllIssued, IInv, HoldsCommand
<1>7. ASSUME NEW p \in Invocation, Leaving(p)
      PROVE  IInv'
  <2>1. CASE Relock(p)
    BY <2>1, Takes DEF Relock, IInv
  <2>2. CASE RelockTimeout(p)
    BY <2>2 DEF RelockTimeout, NoTimeouts
  <2>3. CASE DestroyCommand(p)
    BY <2>3, Gives DEF DestroyCommand, IInv, HoldsCommand
  <2>4. CASE DestroyBconsole(p)
    BY <2>4, KeepsHolding DEF DestroyBconsole, IInv, HoldsCommand
  <2>5. QED
    BY <1>7, <2>1, <2>2, <2>3, <2>4 DEF Leaving
<1>8. ASSUME NEW p \in Invocation, Crash(p)
      PROVE  IInv'
  BY <1>8, KeepsHolding DEF Crash, IInv, HoldsCommand
<1>9. ASSUME NEW p \in Invocation, NEW q \in Invocation, StartNested(p, q)
      PROVE  IInv'
  BY <1>9, KeepsHolding DEF StartNested, IInv, HoldsCommand
<1>10. ASSUME NEW p \in Invocation, NEW q \in Invocation, ForkWithoutExec(p, q)
       PROVE  IInv'
  BY <1>10 DEF ForkWithoutExec, IInv, HoldsCommand
<1>11. QED
  BY <1>1, <1>2, <1>3, <1>4, <1>5, <1>6, <1>7, <1>8, <1>9, <1>10
     DEF Next, Step, AllOver

(***************************************************************************)
(* The changer's state is worked on by one invocation at a time, for any   *)
(* number of invocations, any nesting, any crashes and failed execs, as    *)
(* long as nobody waits 300 seconds for the command mutex.                 *)
(***************************************************************************)
THEOREM CommandExclusionHolds ==
  ASSUME NoTimeouts
  PROVE  Spec => []CommandExclusion
<1>1. Init => IInv
  BY SemValueMaxAssumption DEF Init, IInv, TypeOK, Label, HoldsCommand
<1>2. IInv /\ TypeOK' /\ [Next]_vars => IInv'
  BY IInvInductive
<1>3. IInv => CommandExclusion
  BY DEF IInv, CommandExclusion, HoldsCommand
<1>4. QED
  BY <1>1, <1>2, <1>3, TypeCorrect, PTL DEF Spec

-----------------------------------------------------------------------------
(***************************************************************************)
(* Somebody holds a semaphore whose count is 0, as long as nobody is       *)
(* killed: taking a count makes one a holder, and every way of ceasing to  *)
(* be one posts.                                                           *)
(***************************************************************************)
Accounted ==
    /\ command = 0 => \E p \in Invocation : HoldsCommand(p)
    /\ bconsole = 0 => \E p \in Invocation : HoldsBconsole(p)

LEMMA AccountedInductive ==
  ASSUME NoCrashes, TypeOK, TypeOK', Accounted, [Next]_vars
  PROVE  Accounted'
<1> USE SemValueMaxAssumption DEF TypeOK, HoldsCommand, HoldsBconsole
<1>1. CASE UNCHANGED vars
  BY <1>1 DEF vars, Accounted
<1>2. ASSUME NEW p \in Invocation, Start(p) \/ BconsoleLost(p)
      PROVE  Accounted'
  BY <1>2 DEF Start, BconsoleLost, Accounted
<1>3. ASSUME NEW p \in Invocation, Locking(p)
      PROVE  Accounted'
  BY <1>3 DEF Locking, LockCommand, LockCommandTimeout, DestroyAfterTimeout,
              Accounted
<1>4. ASSUME NEW p \in Invocation, Working(p)
      PROVE  Accounted'
  BY <1>4 DEF Working, Fail, Perform, Release, Accounted
<1>5. ASSUME NEW p \in Invocation, Guarding(p)
      PROVE  Accounted'
  BY <1>5 DEF Guarding, LockBconsole, SkipBconsole, DestroyAfterSkip,
              UnlockCommand, Accounted
<1>6. ASSUME NEW p \in Invocation, Issuing(p)
      PROVE  Accounted'
  BY <1>6 DEF Issuing, RunBconsole, BconsoleExits, AllIssued, Accounted
<1>7. ASSUME NEW p \in Invocation, Leaving(p)
      PROVE  Accounted'
  BY <1>7 DEF Leaving, Relock, RelockTimeout, DestroyCommand,
              DestroyBconsole, Accounted
<1>8. ASSUME NEW p \in Invocation, Crash(p)
      PROVE  Accounted'
  BY <1>8 DEF Crash, NoCrashes
<1>9. ASSUME NEW p \in Invocation, NEW q \in Invocation, StartNested(p, q)
      PROVE  Accounted'
  BY <1>9 DEF StartNested, Accounted
<1>10. ASSUME NEW p \in Invocation, NEW q \in Invocation, ForkWithoutExec(p, q)
       PROVE  Accounted'
  BY <1>10 DEF ForkWithoutExec, Accounted
<1>11. QED
  BY <1>1, <1>2, <1>3, <1>4, <1>5, <1>6, <1>7, <1>8, <1>9, <1>10
     DEF Next, Step, AllOver

(***************************************************************************)
(* No path through main() keeps a semaphore: whatever times out or fails   *)
(* to start, when everything that was started has ended and nobody was     *)
(* killed, both semaphores can be taken.                                   *)
(***************************************************************************)
THEOREM FreeAtRestHolds ==
  ASSUME NoCrashes
  PROVE  Spec => []FreeAtRest
<1>1. Init => Accounted
  BY DEF Init, Accounted
<1>2. TypeOK /\ TypeOK' /\ Accounted /\ [Next]_vars => Accounted'
  BY AccountedInductive
<1>3. TypeOK /\ Accounted => FreeAtRest
  BY SemValueMaxAssumption
     DEF TypeOK, Accounted, FreeAtRest, AtRest, Running, Ended, HoldsCommand,
         HoldsBconsole
<1>4. QED
  BY <1>1, <1>2, <1>3, TypeCorrect, PTL DEF Spec

-----------------------------------------------------------------------------
(* Nobody fails to start bconsole, and sem_post never reaches the largest  *)
(* count, which is 2^31 - 1 on Linux, by posting once for each invocation. *)
NoExecFailures == ~ExecFailures
CountsSuffice == IsFiniteSet(Invocation) /\ SemValueMax > Cardinality(Invocation)

Holders == {p \in Invocation : HoldsBconsole(p)}
Posters == {p \in skipped : pc[p] # "skip"}

(* An invocation that skipped bconsole is nowhere but on its way out; so   *)
(* it is never a holder, and posts what it did not take only once.         *)
SkippedLeave ==
    /\ \A p \in skipped : pc[p] \in {"skip", "release", "end"}
    /\ \A p \in Invocation : pc[p] = "skip" => p \in skipped

AccountInv == TypeOK /\ SkippedLeave /\ BconsoleAccount

LEMMA SubsetsCounted ==
  ASSUME CountsSuffice, NEW S \in SUBSET Invocation
  PROVE  /\ IsFiniteSet(S) /\ Cardinality(S) \in Nat
         /\ \A p \in Invocation \ S : /\ Cardinality(S \cup {p}) = Cardinality(S) + 1
                                      /\ Cardinality(S) < Cardinality(Invocation)
<1>1. IsFiniteSet(S) /\ Cardinality(S) \in Nat
  BY FS_Subset, FS_CardinalityType DEF CountsSuffice
<1>2. ASSUME NEW p \in Invocation \ S
      PROVE  /\ Cardinality(S \cup {p}) = Cardinality(S) + 1
             /\ Cardinality(S) < Cardinality(Invocation)
  <2>1. Cardinality(S \cup {p}) = Cardinality(S) + 1
    BY <1>1, FS_AddElement
  <2>2. Cardinality(S \cup {p}) <= Cardinality(Invocation)
    BY FS_Subset DEF CountsSuffice
  <2>3. Cardinality(Invocation) \in Nat
    BY FS_CardinalityType DEF CountsSuffice
  <2>4. QED
    BY <1>1, <2>1, <2>2, <2>3
<1>3. QED
  BY <1>1, <1>2

(* A step that changes who is where, but neither who holds the semaphore,  *)
(* nor who posted it without holding it, nor its count.                    *)
LEMMA AccountKept ==
  ASSUME BconsoleAccount, bconsole' = bconsole, Holders' = Holders, Posters' = Posters
  PROVE  BconsoleAccount'
BY DEF BconsoleAccount, Holders, Posters

LEMMA AccountInductive ==
  ASSUME NoCrashes, NoExecFailures, CountsSuffice, AccountInv, TypeOK', [Next]_vars
  PROVE  AccountInv'
<1> USE DEF AccountInv, TypeOK
<1> DEFINE Same == bconsole' = bconsole /\ Holders' = Holders /\ Posters' = Posters
<1>a. Holders \in SUBSET Invocation /\ Posters \in SUBSET Invocation
  BY DEF Holders, Posters
<1>b. bconsole + Cardinality(Holders) = 1 + Cardinality(Posters)
  BY DEF BconsoleAccount, Holders, Posters
<1>c. /\ Cardinality(Holders) \in Nat /\ Cardinality(Posters) \in Nat
      /\ Cardinality(Invocation) \in Nat
  BY <1>a, SubsetsCounted, FS_CardinalityType DEF CountsSuffice
<1>1. CASE UNCHANGED vars
  BY <1>1 DEF vars, SkippedLeave, BconsoleAccount, HoldsBconsole
<1>2. ASSUME NEW p \in Invocation,
             Start(p) \/ BconsoleLost(p) \/ Locking(p) \/ Working(p) \/ Issuing(p)
      PROVE  SkippedLeave' /\ Same
  <2>1. SkippedLeave'
    BY <1>2 DEF SkippedLeave, Start, BconsoleLost, Locking, LockCommand, LockCommandTimeout,
       DestroyAfterTimeout, Working, Fail, Perform, Release, Issuing, RunBconsole,
       BconsoleExits, AllIssued
  <2>2. bconsole' = bconsole /\ skipped' = skipped
    BY <1>2 DEF Start, BconsoleLost, Locking, LockCommand, LockCommandTimeout,
       DestroyAfterTimeout, Working, Fail, Perform, Release, Issuing, RunBconsole,
       BconsoleExits, AllIssued
  <2>3. \A q \in Invocation : /\ HoldsBconsole(q)' <=> HoldsBconsole(q)
                              /\ (pc'[q] = "skip") <=> (pc[q] = "skip")
    BY <1>2 DEF HoldsBconsole, Start, BconsoleLost, Locking, LockCommand,
       LockCommandTimeout, DestroyAfterTimeout, Working, Fail, Perform, Release, Issuing,
       RunBconsole, BconsoleExits, AllIssued
  <2>4. QED
    BY <2>1, <2>2, <2>3 DEF Holders, Posters
<1>3. ASSUME NEW p \in Invocation, UnlockCommand(p) \/ SkipBconsole(p)
      PROVE  SkippedLeave' /\ Same
  <2>1. SkippedLeave'
    BY <1>3 DEF SkippedLeave, UnlockCommand, SkipBconsole
  <2>2. bconsole' = bconsole /\ skipped' \ {p} = skipped \ {p}
    BY <1>3 DEF UnlockCommand, SkipBconsole
  <2>3. \A q \in Invocation : /\ HoldsBconsole(q)' <=> HoldsBconsole(q)
                              /\ q # p => ((pc'[q] = "skip") <=> (pc[q] = "skip"))
    BY <1>3 DEF HoldsBconsole, UnlockCommand, SkipBconsole
  <2>4. p \notin Posters /\ p \notin Posters'
    BY <1>3 DEF Posters, SkippedLeave, UnlockCommand, SkipBconsole
  <2>5. QED
    BY <2>1, <2>2, <2>3, <2>4 DEF Holders, Posters
<1>4. ASSUME NEW p \in Invocation, LockBconsole(p)
      PROVE  AccountInv'
  <2>1. SkippedLeave' /\ Posters' = Posters
    BY <1>4 DEF SkippedLeave, LockBconsole, Posters
  <2>2. Holders' = Holders \cup {p} /\ p \notin Holders /\ bconsole' = bconsole - 1
    BY <1>4 DEF LockBconsole, Holders, HoldsBconsole
  <2>3. Cardinality(Holders') = Cardinality(Holders) + 1
    BY <2>2, <1>a, SubsetsCounted
  <2>4. bconsole' + Cardinality(Holders') = 1 + Cardinality(Posters')
    BY <1>b, <1>c, <2>1, <2>2, <2>3
  <2>5. QED
    BY <2>1, <2>4 DEF BconsoleAccount, Holders, Posters
<1>5. ASSUME NEW p \in Invocation, DestroyAfterSkip(p)
      PROVE  AccountInv'
  <2>1. SkippedLeave' /\ Holders' = Holders
    BY <1>5 DEF SkippedLeave, DestroyAfterSkip, Holders, HoldsBconsole
  <2>2. Posters' = Posters \cup {p} /\ p \notin Posters
    BY <1>5 DEF DestroyAfterSkip, SkippedLeave, Posters
  <2>3. /\ Cardinality(Posters') = Cardinality(Posters) + 1
        /\ Cardinality(Posters) < Cardinality(Invocation)
    BY <2>2, <1>a, SubsetsCounted
  <2>4. bconsole < SemValueMax
    BY <1>b, <1>c, <2>3, SemValueMaxAssumption DEF CountsSuffice
  <2>5. bconsole' = bconsole + 1
    BY <1>5, <2>4 DEF DestroyAfterSkip
  <2>6. bconsole' + Cardinality(Holders') = 1 + Cardinality(Posters')
    BY <1>b, <1>c, <2>1, <2>3, <2>5
  <2>7. QED
    BY <2>1, <2>6 DEF BconsoleAccount, Holders, Posters
<1>6. ASSUME NEW p \in Invocation, Relock(p) \/ RelockTimeout(p) \/ DestroyCommand(p)
      PROVE  SkippedLeave' /\ Same
  <2>1. SkippedLeave'
    BY <1>6 DEF SkippedLeave, Relock, RelockTimeout, DestroyCommand
  <2>2. bconsole' = bconsole /\ skipped' = skipped
    BY <1>6 DEF Relock, RelockTimeout, DestroyCommand
  <2>3. \A q \in Invocation : /\ HoldsBconsole(q)' <=> HoldsBconsole(q)
                              /\ (pc'[q] = "skip") <=> (pc[q] = "skip")
    BY <1>6 DEF HoldsBconsole, Relock, RelockTimeout, DestroyCommand
  <2>4. QED
    BY <2>1, <2>2, <2>3 DEF Holders, Posters
<1>7. ASSUME NEW p \in Invocation, DestroyBconsole(p)
      PROVE  AccountInv'
  <2>1. SkippedLeave' /\ Posters' = Posters
    BY <1>7 DEF SkippedLeave, DestroyBconsole, Posters
  <2>2. Holders = Holders' \cup {p} /\ p \notin Holders' /\ p \in Holders /\ p \notin Posters
    BY <1>7 DEF DestroyBconsole, Holders, HoldsBconsole, SkippedLeave, Posters
  <2>3. Cardinality(Holders) = Cardinality(Holders') + 1 /\ Cardinality(Holders') \in Nat
    BY <2>2, <1>a, SubsetsCounted
  <2>4. Cardinality(Posters) < Cardinality(Invocation)
    BY <2>2, <1>a, SubsetsCounted
  <2>5. bconsole < SemValueMax
    BY <1>b, <1>c, <2>3, <2>4, SemValueMaxAssumption DEF CountsSuffice
  <2>6. bconsole' = bconsole + 1
    BY <1>7, <2>5 DEF DestroyBconsole
  <2>7. bconsole' + Cardinality(Holders') = 1 + Cardinality(Posters')
    BY <1>b, <1>c, <2>1, <2>3, <2>6
  <2>8. QED
    BY <2>1, <2>7 DEF BconsoleAccount, Holders, Posters
<1>8. ASSUME NEW p \in Invocation, NEW q \in Invocation, StartNested(p, q)
      PROVE  SkippedLeave' /\ Same
  BY <1>8 DEF StartNested, SkippedLeave, Holders, Posters, HoldsBconsole
<1>9. ASSUME NEW p \in Invocation, Crash(p)
      PROVE  FALSE
  BY <1>9 DEF Crash, NoCrashes
<1>10. ASSUME NEW p \in Invocation, NEW q \in Invocation, ForkWithoutExec(p, q)
       PROVE  FALSE
  BY <1>10 DEF ForkWithoutExec, NoExecFailures
<1>11. CASE SkippedLeave' /\ Same
  BY <1>11, AccountKept
<1>12. QED
  BY <1>1, <1>2, <1>3, <1>4, <1>5, <1>6, <1>7, <1>8, <1>9, <1>10, <1>11
     DEF Next, Step, Guarding, Leaving, AllOver

(***************************************************************************)
(* However many instances skip bconsole, nest or time out: the bconsole    *)
(* semaphore counts, beyond its holders, one for each that skipped it.     *)
(***************************************************************************)
THEOREM BconsoleAccountHolds ==
  ASSUME NoCrashes, NoExecFailures, CountsSuffice
  PROVE  Spec => []BconsoleAccount
<1>1. Init => AccountInv
  <2> SUFFICES ASSUME Init
               PROVE  AccountInv
    OBVIOUS
  <2>1. {p \in Invocation : HoldsBconsole(p)} = {} /\ {p \in skipped : pc[p] # "skip"} = {}
    BY DEF Init, HoldsBconsole
  <2>2. BconsoleAccount
    BY <2>1, FS_EmptySet DEF Init, BconsoleAccount
  <2>3. QED
    BY <2>2, SemValueMaxAssumption DEF Init, AccountInv, TypeOK, Label, SkippedLeave
<1>2. AccountInv /\ TypeOK' /\ [Next]_vars => AccountInv'
  BY AccountInductive
<1>3. AccountInv => BconsoleAccount
  BY DEF AccountInv
<1>4. QED
  BY <1>1, <1>2, <1>3, TypeCorrect, PTL DEF Spec

-----------------------------------------------------------------------------
(***************************************************************************)
(* The catalog, the media and the state files change nothing about who     *)
(* takes which mutex: Catalog implements CommandMutex, so that what is     *)
(* proved of the mutexes is true of it.                                    *)
(***************************************************************************)
LEMMA CatalogStep == [CatNext]_catVars => [Next]_vars
<1> SUFFICES ASSUME [CatNext]_catVars
             PROVE  [Next]_vars
  OBVIOUS
<1>1. CASE ChangeMedia \/ UNCHANGED catVars
  BY <1>1 DEF ChangeMedia, catVars
<1>2. ASSUME NEW p \in Invocation, Begin(p) \/ UpdateLost(p)
      PROVE  Next
  BY <1>2 DEF Begin, UpdateLost, Next
<1>3. ASSUME NEW p \in Invocation, CatStep(p)
      PROVE  Step(p)
  BY <1>3 DEF CatStep, Lock, FailToInitialize, FailAfterSaving, PerformCommand,
     EnterBconsole, Skip, DestroySkipped, Unlock, RunUpdate, UpdateEnds,
     NoMoreCommands, LockAgain, FirstDestroy, End, Step, Locking, Working, Guarding,
     Issuing, Leaving
<1>4. ASSUME NEW p \in Invocation, NEW q \in Invocation, Ask(p, q)
      PROVE  Next
  BY <1>4 DEF Ask, Next
<1>5. QED
  BY <1>1, <1>2, <1>3, <1>4 DEF CatNext, Next

THEOREM CatalogImplementsMutex == CatSpec => Spec
<1>1. CatInit => Init
  BY DEF CatInit
<1>2. QED
  BY <1>1, CatalogStep, PTL DEF CatSpec, Spec

-----------------------------------------------------------------------------
(***************************************************************************)
(* An instance that found a new mapping still has 'update slots' to issue, *)
(* or has issued it and waits for bconsole.                                *)
(***************************************************************************)
Pending(p) ==
    \/ pc[p] \in {"enter", "unlock", "issue"} /\ "update slots" \in todo[p]
    \/ pc[p] = "wait" /\ update[p] # "no"

(* Whoever made Bacula start an instance has finished its own command, so  *)
(* the mapping it saved is older than what the instance finds.             *)
CallersHaveSaved ==
    \A q \in Invocation : caller[q] # NoCaller =>
        pc[caller[q]] \in {"issue", "wait", "relock", "post1", "post2", "end"}

(* While the mapping that p saved is the one in the state files, every     *)
(* instance that Bacula starts for p prints that mapping.                  *)
AnswersAreCurrent ==
    /\ \A q \in Invocation : pc[q] = "off" => listed[q] = {}
    /\ \A q \in Invocation : caller[q] # NoCaller /\ saved \in owes[caller[q]] =>
           listed[q] \subseteq {saved}

(* What an instance owes is a mapping that was saved, and 'update slots'   *)
(* is still to come.                                                       *)
OwedIsPending ==
    /\ saved <= media
    /\ \A p \in Invocation : \A v \in owes[p] : v <= saved
    /\ \A p \in Invocation : owes[p] # {} => Pending(p)
    /\ \A p \in Invocation : update[p] # "no" => pc[p] = "wait"

(* The mapping in the state files is told, dropped or owed by somebody.    *)
SavedIsCovered ==
    /\ \A p \in Invocation : update[p] = "answered" /\ saved \in owes[p] => saved \in told
    /\ saved \in told \cup dropped \/ \E p \in Invocation : saved \in owes[p]

CatInv ==
    /\ CatTypeOK
    /\ OwedIsPending
    /\ CallersHaveSaved
    /\ AnswersAreCurrent
    /\ SavedIsCovered

LEMMA CatTypeInductive ==
  ASSUME CatTypeOK, TypeOK', [CatNext]_catVars
  PROVE  CatTypeOK'
<1> USE MaxChangesAssumption DEF CatTypeOK, TypeOK, Version
<1>1. CASE UNCHANGED catVars
  BY <1>1 DEF catVars, vars, mapping, reports
<1>2. CASE ChangeMedia
  BY <1>2 DEF ChangeMedia, vars, reports
<1>3. ASSUME NEW p \in Invocation,
             \/ Begin(p) \/ Lock(p) \/ FailToInitialize(p) \/ EnterBconsole(p)
             \/ DestroySkipped(p) \/ Unlock(p) \/ NoMoreCommands(p) \/ LockAgain(p)
             \/ FirstDestroy(p)
      PROVE  CatTypeOK'
  BY <1>3 DEF Begin, Lock, FailToInitialize, EnterBconsole, DestroySkipped, Unlock,
     NoMoreCommands, LockAgain, FirstDestroy, mapping, reports
<1>4. ASSUME NEW p \in Invocation, FailAfterSaving(p) \/ PerformCommand(p)
      PROVE  CatTypeOK'
  <2>1. NewVersion(p) \in SUBSET Version /\ Answers(p) \subseteq SUBSET Version
    BY DEF NewVersion, Answers
  <2>2. CASE FailAfterSaving(p)
    BY <2>1, <2>2 DEF FailAfterSaving, SaveMapping
  <2>3. CASE PerformCommand(p)
    <3>1. PICK answer \in SUBSET Version : listed' = [listed EXCEPT ![p] = answer]
      BY <2>1, <2>3 DEF PerformCommand
    <3>2. /\ UNCHANGED <<media, told, dropped, update>> /\ saved' = media
          /\ owes' = [owes EXCEPT ![p] = NewVersion(p)]
      BY <2>3 DEF PerformCommand, SaveMapping
    <3>3. QED
      BY <2>1, <3>1, <3>2
  <2>4. QED
    BY <1>4, <2>2, <2>3
<1>5. ASSUME NEW p \in Invocation,
             Skip(p) \/ RunUpdate(p) \/ UpdateEnds(p) \/ UpdateLost(p)
      PROVE  CatTypeOK'
  <2>1. CASE Skip(p) \/ RunUpdate(p)
    BY <2>1 DEF Skip, RunUpdate, mapping
  <2>2. CASE UpdateEnds(p) \/ UpdateLost(p)
    <3>1. owes[p] \in SUBSET Version
      OBVIOUS
    <3>2. Conclude(p)
      BY <2>2 DEF UpdateEnds, UpdateLost
    <3>3. QED
      BY <3>1, <3>2 DEF Conclude, mapping
  <2>3. QED
    BY <1>5, <2>1, <2>2
<1>6. ASSUME NEW p \in Invocation, End(p)
      PROVE  CatTypeOK'
  BY <1>6 DEF End, Answer, mapping
<1>7. ASSUME NEW p \in Invocation, NEW q \in Invocation, Ask(p, q)
      PROVE  CatTypeOK'
  BY <1>7 DEF Ask, mapping, reports
<1>8. QED
  BY <1>1, <1>2, <1>3, <1>4, <1>5, <1>6, <1>7 DEF CatNext, CatStep

(***************************************************************************)
(* Steps of p that read and write nothing of the mapping or the reports,   *)
(* keep what p owes pending, and do not end p's command for the first time *)
(* or take it back to it.                                                  *)
(***************************************************************************)
AfterCommand == {"issue", "wait", "relock", "post1", "post2", "end"}

LEMMA OnlyMoves ==
  ASSUME CatInv, CatTypeOK', UNCHANGED <<mapping, reports>>,
         NEW p \in Invocation,
         caller' = caller,
         \A q \in Invocation \ {p} : pc'[q] = pc[q] /\ todo'[q] = todo[q],
         owes[p] # {} => Pending(p)',
         pc[p] # "wait", pc'[p] # "off",
         pc[p] \in AfterCommand => pc'[p] \in AfterCommand
  PROVE  CatInv'
<1> USE DEF CatInv, mapping, reports
<1>1. OwedIsPending'
  BY DEF OwedIsPending, Pending, CatTypeOK, TypeOK
<1>2. CallersHaveSaved'
  BY DEF CallersHaveSaved, CatTypeOK, TypeOK, AfterCommand
<1>3. AnswersAreCurrent' /\ SavedIsCovered'
  BY DEF AnswersAreCurrent, SavedIsCovered
<1>4. QED
  BY <1>1, <1>2, <1>3

(* Of a step that changes what p owes it is enough to look at p.           *)
LEMMA OwedAfter ==
  ASSUME CatInv, CatTypeOK', saved <= saved', saved' <= media',
         NEW p \in Invocation,
         \A q \in Invocation \ {p} : /\ owes'[q] = owes[q] /\ todo'[q] = todo[q]
                                     /\ pc'[q] = pc[q]
                                     /\ (update'[q] # "no") <=> (update[q] # "no"),
         \A v \in owes'[p] : v <= saved',
         owes'[p] # {} => Pending(p)',
         update'[p] # "no" => pc'[p] = "wait"
  PROVE  OwedIsPending'
<1> USE MaxChangesAssumption DEF CatInv, CatTypeOK, Version, OwedIsPending
<1>1. ASSUME NEW q \in Invocation
      PROVE  /\ \A v \in owes'[q] : v <= saved'
             /\ owes'[q] # {} => Pending(q)'
             /\ update'[q] # "no" => pc'[q] = "wait"
  <2>1. CASE q = p
    BY <2>1
  <2>2. CASE q # p
    <3>1. \A v \in owes[q] : v \in 0 .. MaxChanges /\ v <= saved
      OBVIOUS
    <3>2. \A v \in owes'[q] : v <= saved'
      BY <2>2, <3>1
    <3>3. QED
      BY <2>2, <3>2 DEF Pending
  <2>3. QED
    BY <2>1, <2>2
<1>2. QED
  BY <1>1

LEMMA CatInvInductive ==
  ASSUME CatInv, CatTypeOK', [CatNext]_catVars
  PROVE  CatInv'
<1> USE NoCallerAssumption, MaxChangesAssumption DEF CatInv, CatTypeOK, TypeOK, Version
<1>1. CASE UNCHANGED catVars
  <2>1. OwedIsPending'
    BY <1>1 DEF catVars, vars, mapping, reports, OwedIsPending, Pending
  <2>2. CallersHaveSaved' /\ AnswersAreCurrent'
    BY <1>1 DEF catVars, vars, mapping, reports, CallersHaveSaved, AnswersAreCurrent
  <2>3. SavedIsCovered'
    BY <1>1 DEF catVars, vars, mapping, reports, SavedIsCovered
  <2>4. QED
    BY <2>1, <2>2, <2>3
<1>2. CASE ChangeMedia
  <2>1. OwedIsPending'
    <3>1. UNCHANGED <<saved, owes, pc, todo, update>> /\ media' = media + 1
      BY <1>2 DEF ChangeMedia, vars, reports
    <3>2. saved <= media'
      BY <3>1 DEF OwedIsPending
    <3>3. QED
      BY <3>1, <3>2 DEF OwedIsPending, Pending
  <2>2. CallersHaveSaved' /\ AnswersAreCurrent'
    BY <1>2 DEF ChangeMedia, vars, reports, CallersHaveSaved, AnswersAreCurrent
  <2>3. SavedIsCovered'
    BY <1>2 DEF ChangeMedia, vars, reports, SavedIsCovered
  <2>4. QED
    BY <2>1, <2>2, <2>3
<1>3. ASSUME NEW p \in Invocation,
             \/ Begin(p) \/ Lock(p) \/ FailToInitialize(p) \/ EnterBconsole(p)
             \/ DestroySkipped(p) \/ Unlock(p) \/ NoMoreCommands(p) \/ LockAgain(p)
             \/ FirstDestroy(p)
      PROVE  CatInv'
  <2>1. /\ UNCHANGED <<mapping, reports, caller>>
        /\ \A q \in Invocation \ {p} : pc'[q] = pc[q] /\ todo'[q] = todo[q]
        /\ pc[p] # "wait" /\ pc'[p] # "off"
        /\ pc[p] \in AfterCommand => pc'[p] \in AfterCommand
    BY <1>3 DEF AfterCommand, Begin, Start, Lock, LockCommand,
       FailToInitialize, Fail, EnterBconsole, LockBconsole, DestroySkipped,
       DestroyAfterSkip, Unlock, UnlockCommand, NoMoreCommands, AllIssued, LockAgain,
       Relock, FirstDestroy, DestroyCommand, mapping, reports
  <2>2. owes[p] # {} => Pending(p)'
    BY <1>3 DEF OwedIsPending, Pending, Begin, Start, Lock, LockCommand,
       FailToInitialize, Fail, EnterBconsole, LockBconsole, DestroySkipped,
       DestroyAfterSkip, Unlock, UnlockCommand, NoMoreCommands, AllIssued, LockAgain,
       Relock, FirstDestroy, DestroyCommand, mapping, reports
  <2>3. QED
    BY <2>1, <2>2, OnlyMoves
<1>4. ASSUME NEW p \in Invocation, FailAfterSaving(p)
      PROVE  CatInv'
  <2>1. OwedIsPending'
    <3>1. /\ UNCHANGED <<media, owes, todo, update>> /\ saved' = media
          /\ pc[p] = "work" /\ \A q \in Invocation \ {p} : pc'[q] = pc[q]
      BY <1>4 DEF FailAfterSaving, Fail, SaveMapping
    <3>2. owes[p] = {} /\ update[p] = "no" /\ saved <= media
      BY <3>1 DEF OwedIsPending, Pending
    <3>3. QED
      BY <3>1, <3>2, OwedAfter
  <2>2. CallersHaveSaved'
    BY <1>4 DEF FailAfterSaving, Fail, SaveMapping, NewVersion, NeedsUpdate, CallersHaveSaved
  <2>3. AnswersAreCurrent'
    BY <1>4 DEF FailAfterSaving, Fail, SaveMapping, NewVersion, NeedsUpdate,
       AnswersAreCurrent, CallersHaveSaved, OwedIsPending
  <2>4. SavedIsCovered'
    BY <1>4 DEF FailAfterSaving, Fail, SaveMapping, NewVersion, NeedsUpdate,
       SavedIsCovered, AnswersAreCurrent, OwedIsPending
  <2>5. QED
    BY <2>1, <2>2, <2>3, <2>4
<1>5. ASSUME NEW p \in Invocation, PerformCommand(p)
      PROVE  CatInv'
  <2> DEFINE new == IF saved = media THEN {} ELSE {media}
  <2>1. /\ pc[p] = "work" /\ pc' = [pc EXCEPT ![p] = "enter"]
        /\ new # {} => "update slots" \in todo'[p]
        /\ \A q \in Invocation \ {p} : todo'[q] = todo[q]
        /\ saved' = media /\ media' = media
        /\ owes' = [owes EXCEPT ![p] = new]
        /\ UNCHANGED <<caller, told, dropped, update>>
    BY <1>5 DEF PerformCommand, Perform, SaveMapping, NewVersion, NeedsUpdate
  <2>2. \A q \in Invocation \ {p} : listed'[q] = listed[q]
    BY <1>5 DEF PerformCommand
  <2>3. caller[p] # NoCaller => listed'[p] \subseteq {media}
    <3>1. PICK answer \in Answers(p) : listed' = [listed EXCEPT ![p] = answer]
      BY <1>5 DEF PerformCommand
    <3>2. QED
      BY <3>1 DEF Answers
  <2>4. \A q \in Invocation : caller[q] # p
    BY <2>1 DEF CallersHaveSaved
  <2>5. \A q \in Invocation : saved # media => media \notin owes[q]
    BY DEF OwedIsPending
  <2>6. OwedIsPending'
    <3>1. update[p] = "no" /\ saved <= media
      BY <2>1 DEF OwedIsPending
    <3>2. owes'[p] = new /\ \A q \in Invocation \ {p} : owes'[q] = owes[q] /\ pc'[q] = pc[q]
      BY <2>1
    <3>3. new # {} => Pending(p)'
      BY <2>1 DEF Pending
    <3>4. \A v \in new : v <= media
      OBVIOUS
    <3>5. QED
      BY <2>1, <3>1, <3>2, <3>3, <3>4, OwedAfter
  <2>7. CallersHaveSaved'
    BY <2>1 DEF CallersHaveSaved
  <2>8. AnswersAreCurrent'
    <3>a. \A q \in Invocation : pc'[q] = "off" => listed'[q] = {}
      BY <2>1, <2>2 DEF AnswersAreCurrent
    <3>1. SUFFICES ASSUME NEW q \in Invocation, caller[q] # NoCaller,
                          media \in owes'[caller[q]]
                   PROVE  listed'[q] \subseteq {media}
      BY <2>1, <3>a DEF AnswersAreCurrent
    <3>2. caller[q] # p /\ media \in owes[caller[q]]
      BY <2>1, <2>4, <3>1
    <3>3. saved = media
      BY <2>5, <3>1, <3>2
    <3>4. QED
      BY <2>2, <2>3, <3>1, <3>2, <3>3 DEF AnswersAreCurrent
  <2>9. SavedIsCovered'
    <3>1. \A q \in Invocation : update[q] = "answered" /\ media \in owes'[q] => media \in told
      BY <2>1, <2>5 DEF SavedIsCovered, OwedIsPending
    <3>2. CASE saved = media
      <4>1. owes[p] = {}
        BY <2>1 DEF OwedIsPending, Pending
      <4>2. QED
        BY <2>1, <3>1, <3>2, <4>1 DEF SavedIsCovered
    <3>3. CASE saved # media
      BY <2>1, <3>1, <3>3 DEF SavedIsCovered
    <3>4. QED
      BY <3>2, <3>3
  <2>10. QED
    BY <2>6, <2>7, <2>8, <2>9
<1>6. ASSUME NEW p \in Invocation, Skip(p)
      PROVE  CatInv'
  <2>1. OwedIsPending'
    BY <1>6 DEF Skip, SkipBconsole, mapping, OwedIsPending, Pending
  <2>2. CallersHaveSaved'
    BY <1>6 DEF Skip, SkipBconsole, mapping, CallersHaveSaved
  <2>3. AnswersAreCurrent'
    BY <1>6 DEF Skip, SkipBconsole, mapping, AnswersAreCurrent, CallersHaveSaved, OwedIsPending
  <2>4. SavedIsCovered'
    BY <1>6 DEF Skip, SkipBconsole, mapping, SavedIsCovered, AnswersAreCurrent, OwedIsPending
  <2>5. QED
    BY <2>1, <2>2, <2>3, <2>4
<1>7. ASSUME NEW p \in Invocation, RunUpdate(p)
      PROVE  CatInv'
  <2>1. OwedIsPending'
    BY <1>7 DEF RunUpdate, RunBconsole, NextCommand, mapping, OwedIsPending, Pending
  <2>2. CallersHaveSaved'
    BY <1>7 DEF RunUpdate, RunBconsole, NextCommand, mapping, CallersHaveSaved
  <2>3. AnswersAreCurrent'
    BY <1>7 DEF RunUpdate, RunBconsole, NextCommand, mapping, AnswersAreCurrent,
       CallersHaveSaved, OwedIsPending
  <2>4. SavedIsCovered'
    BY <1>7 DEF RunUpdate, RunBconsole, NextCommand, mapping, SavedIsCovered,
       AnswersAreCurrent, OwedIsPending
  <2>5. QED
    BY <2>1, <2>2, <2>3, <2>4
<1>8. ASSUME NEW p \in Invocation, UpdateEnds(p) \/ UpdateLost(p)
      PROVE  CatInv'
  <2>1. OwedIsPending'
    <3>1. /\ UNCHANGED <<media, saved, todo>>
          /\ owes' = [owes EXCEPT ![p] = IF update[p] = "no" THEN owes[p] ELSE {}]
          /\ update' = [update EXCEPT ![p] = "no"]
          /\ pc[p] = "wait" /\ \A q \in Invocation \ {p} : pc'[q] = pc[q]
      BY <1>8 DEF UpdateEnds, UpdateLost, BconsoleExits, BconsoleLost, Conclude, mapping
    <3>2. owes'[p] = {} /\ saved <= media
      BY <3>1 DEF OwedIsPending, Pending
    <3>3. \A q \in Invocation \ {p} : owes'[q] = owes[q] /\ update'[q] = update[q]
      BY <3>1
    <3>4. update'[p] = "no"
      BY <3>1
    <3>5. QED
      BY <3>1, <3>2, <3>3, <3>4, OwedAfter
  <2>2. CallersHaveSaved'
    BY <1>8 DEF UpdateEnds, UpdateLost, BconsoleExits, BconsoleLost, Conclude, mapping,
       CallersHaveSaved
  <2>3. AnswersAreCurrent'
    BY <1>8 DEF UpdateEnds, UpdateLost, BconsoleExits, BconsoleLost, Conclude, mapping,
       AnswersAreCurrent, CallersHaveSaved, OwedIsPending
  <2>4. SavedIsCovered'
    BY <1>8 DEF UpdateEnds, UpdateLost, BconsoleExits, BconsoleLost, Conclude, mapping,
       SavedIsCovered, AnswersAreCurrent, OwedIsPending
  <2>5. QED
    BY <2>1, <2>2, <2>3, <2>4
<1>9. ASSUME NEW p \in Invocation, End(p)
      PROVE  CatInv'
  <2>1. OwedIsPending'
    <3>1. /\ pc[p] # "wait" /\ owes[p] = {} /\ update[p] = "no" /\ todo' = todo
          /\ UNCHANGED <<mapping, owes>>
      BY <1>9 DEF End, Release, DestroyBconsole, mapping, OwedIsPending, Pending
    <3>2. \A q \in Invocation : (update'[q] # "no") <=> (update[q] # "no")
      BY <1>9 DEF End, Answer
    <3>3. \A q \in Invocation \ {p} : pc'[q] = pc[q]
      BY <1>9 DEF End, Release, DestroyBconsole
    <3>4. QED
      BY <3>1, <3>2, <3>3, OwedAfter DEF mapping, OwedIsPending, Pending
  <2>2. CallersHaveSaved'
    BY <1>9 DEF End, Release, DestroyBconsole, Answer, mapping, CallersHaveSaved
  <2>3. AnswersAreCurrent'
    BY <1>9 DEF End, Release, DestroyBconsole, Answer, mapping, AnswersAreCurrent,
       CallersHaveSaved, OwedIsPending
  <2>4. SavedIsCovered'
    BY <1>9 DEF End, Release, DestroyBconsole, Answer, mapping, SavedIsCovered,
       AnswersAreCurrent, OwedIsPending
  <2>5. QED
    BY <2>1, <2>2, <2>3, <2>4
<1>10. ASSUME NEW p \in Invocation, NEW q \in Invocation, Ask(p, q)
      PROVE  CatInv'
  <2>1. OwedIsPending'
    BY <1>10 DEF Ask, StartNested, mapping, reports, OwedIsPending, Pending
  <2>2. CallersHaveSaved'
    BY <1>10 DEF Ask, StartNested, mapping, reports, CallersHaveSaved
  <2>3. AnswersAreCurrent'
    <3>1. /\ UNCHANGED <<saved, owes, listed>> /\ listed[q] = {}
          /\ \A r \in Invocation \ {q} : caller'[r] = caller[r] /\ pc'[r] = pc[r]
          /\ pc'[q] = "lock"
      BY <1>10 DEF Ask, StartNested, mapping, reports, AnswersAreCurrent
    <3>2. QED
      BY <3>1 DEF AnswersAreCurrent
  <2>4. SavedIsCovered'
    BY <1>10 DEF Ask, StartNested, mapping, reports, SavedIsCovered, AnswersAreCurrent,
       OwedIsPending
  <2>5. QED
    BY <2>1, <2>2, <2>3, <2>4
<1>11. QED
  BY <1>1, <1>2, <1>3, <1>4, <1>5, <1>6, <1>7, <1>8, <1>9, <1>10 DEF CatNext, CatStep

(***************************************************************************)
(* For any number of invocations, any nesting and any changes of the media *)
(* in between: once nobody runs, Bacula was told of the mapping in the     *)
(* state files, or some instance gave exactly that mapping up.             *)
(***************************************************************************)
THEOREM EverySavedMappingIsReportedHolds == CatSpec => []EverySavedMappingIsReported
<1>1. CatInit => CatInv
  BY SemValueMaxAssumption, MaxChangesAssumption
     DEF CatInit, Init, CatInv, CatTypeOK, TypeOK, Label, Version, OwedIsPending,
         CallersHaveSaved, AnswersAreCurrent, SavedIsCovered
<1>2. CatInv /\ TypeOK' /\ [CatNext]_catVars => CatInv'
  BY CatTypeInductive, CatInvInductive DEF CatInv
<1>3. CatInv => EverySavedMappingIsReported
  BY DEF CatInv, OwedIsPending, SavedIsCovered, EverySavedMappingIsReported, AtRest,
     Running, Ended, Pending
<1>4. QED
  BY <1>1, <1>2, <1>3, TypeCorrect, CatalogImplementsMutex, PTL DEF CatSpec
=============================================================================
