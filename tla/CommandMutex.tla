---------------------------- MODULE CommandMutex ----------------------------
(***************************************************************************)
(* How the instances of vchanger that run at the same time share the       *)
(* changer: main() (src/src/vchanger.cpp) and the named semaphores of      *)
(* src/src/mymutex.cpp.                                                     *)
(*                                                                         *)
(* An invocation takes the semaphore "vchanger-command", initializes the   *)
(* changer and performs its command.  If bconsole is configured it then    *)
(* tries the semaphore "vchanger-bconsole", gives the command semaphore    *)
(* back, runs bconsole for what is needed, and at the end posts both.      *)
(* Bacula answers a bconsole command by invoking vchanger again, so        *)
(* invocations nest: caller[q] is the invocation whose bconsole runs q.    *)
(*                                                                         *)
(* The semaphores live in the kernel.  mymutex_destroy() passes sem_unlink *)
(* a name without the "/vchanger-" prefix sem_open was given, so it never  *)
(* removes them: their counts outlive every invocation, and a crash.       *)
(***************************************************************************)
EXTENDS Naturals, FiniteSets

CONSTANTS
    Invocation,        \* the processes, each of which runs main() once
    NoCaller,          \* the caller of an invocation started by hand or udev
    SemValueMax,       \* the count at which sem_post fails with EOVERFLOW
    LockTimeouts,      \* may a wait for the command semaphore last 300 s?
    Crashes,           \* may an invocation be killed?
    ExecFailures       \* may execvp of bconsole fail in the forked child?

ASSUME SemValueMaxAssumption == SemValueMax \in Nat \ {0}
ASSUME NoCallerAssumption == NoCaller \notin Invocation

BconsoleCommand == {"update slots", "label barcodes"}

VARIABLES
    command,    \* count of the semaphore "vchanger-command"
    bconsole,   \* count of the semaphore "vchanger-bconsole"
    pc,         \* what each invocation does next
    caller,     \* the invocation whose bconsole child started it
    todo,       \* the bconsole commands it still has to issue
    skipped     \* invocations that logged "skipping further bconsole commands"

vars == <<command, bconsole, pc, caller, todo, skipped>>

(***************************************************************************)
(* The values of pc, in the order of main().  In "work" the invocation     *)
(* reads and writes the changer's state: Initialize() and the command.     *)
(***************************************************************************)
Ended == {"end", "dead"}
Label == {"off", "lock", "timeout", "work", "release", "enter", "skip",
          "unlock", "issue", "wait", "relock", "post1", "post2"} \cup Ended

Running(p) == pc[p] \notin {"off"} \cup Ended

TypeOK ==
    /\ command \in 0..SemValueMax
    /\ bconsole \in 0..SemValueMax
    /\ pc \in [Invocation -> Label]
    /\ caller \in [Invocation -> Invocation \cup {NoCaller}]
    /\ todo \in [Invocation -> SUBSET BconsoleCommand]
    /\ skipped \in SUBSET Invocation

Init ==
    /\ command = 1
    /\ bconsole = 1
    /\ pc = [p \in Invocation |-> "off"]
    /\ caller = [p \in Invocation |-> NoCaller]
    /\ todo = [p \in Invocation |-> {}]
    /\ skipped = {}

-----------------------------------------------------------------------------
(* mymutex_unlock() and the sem_post of mymutex_destroy().                 *)
Posted(count) == IF count < SemValueMax THEN count + 1 ELSE count

GoTo(p, from, to) ==
    /\ pc[p] = from
    /\ pc' = [pc EXCEPT ![p] = to]

PostCommand == /\ command' = Posted(command)
               /\ UNCHANGED bconsole
PostBconsole == /\ bconsole' = Posted(bconsole)
                /\ UNCHANGED command
NoSemaphore == UNCHANGED <<command, bconsole>>

-----------------------------------------------------------------------------
(***************************************************************************)
(* Starting.  A command line, udev or Bacula starts an invocation at any   *)
(* time; the bconsole an invocation waits for starts nested ones.          *)
(***************************************************************************)
Start(p) ==
    /\ GoTo(p, "off", "lock")
    /\ NoSemaphore
    /\ UNCHANGED <<caller, todo, skipped>>

StartNested(p, q) ==
    /\ pc[p] = "wait"
    /\ GoTo(q, "off", "lock")
    /\ caller' = [caller EXCEPT ![q] = p]
    /\ NoSemaphore
    /\ UNCHANGED <<todo, skipped>>

(***************************************************************************)
(* mymutex_lock(command_mux, 300).  When it times out main() destroys the  *)
(* mutex it does not hold, which posts it.                                 *)
(***************************************************************************)
LockCommandAnyway(p) ==
    /\ GoTo(p, "lock", "work")
    /\ command' = command - 1
    /\ UNCHANGED <<bconsole, caller, todo, skipped>>
LockCommand(p) ==
    /\ GoTo(p, "lock", "work")
    /\ command > 0
    /\ command' = command - 1
    /\ UNCHANGED <<bconsole, caller, todo, skipped>>

LockCommandTimeout(p) ==
    /\ LockTimeouts
    /\ GoTo(p, "lock", "timeout")
    /\ command = 0
    /\ NoSemaphore
    /\ UNCHANGED <<caller, todo, skipped>>

ExitAfterTimeout(p) ==
    /\ GoTo(p, "timeout", "end")
    /\ NoSemaphore
    /\ UNCHANGED <<caller, todo, skipped>>
DestroyAfterTimeout(p) ==
    /\ GoTo(p, "timeout", "end")
    /\ PostCommand
    /\ UNCHANGED <<caller, todo, skipped>>

(***************************************************************************)
(* changer.Initialize() and the command.  Either fails, or bconsole is not *)
(* configured, and the invocation only releases the command semaphore;     *)
(* otherwise NeedsUpdate() | force and NeedsLabel() say what is to issue.  *)
(***************************************************************************)
Fail(p) ==
    /\ GoTo(p, "work", "release")
    /\ NoSemaphore
    /\ UNCHANGED <<caller, todo, skipped>>

Perform(p) ==
    /\ GoTo(p, "work", "enter")
    /\ \E need \in SUBSET BconsoleCommand : todo' = [todo EXCEPT ![p] = need]
    /\ NoSemaphore
    /\ UNCHANGED <<caller, skipped>>

ExitWithoutRelease(p) ==
    /\ GoTo(p, "release", "end")
    /\ NoSemaphore
    /\ UNCHANGED <<caller, todo, skipped>>
Release(p) ==
    /\ GoTo(p, "release", "end")
    /\ PostCommand
    /\ UNCHANGED <<caller, todo, skipped>>

(***************************************************************************)
(* mymutex_lock(bconsole_mux, 0).  The branch taken when the semaphore is  *)
(* not available destroys, and so posts, the mutex it did not get.         *)
(***************************************************************************)
LockBconsole(p) ==
    /\ GoTo(p, "enter", "unlock")
    /\ bconsole > 0
    /\ bconsole' = bconsole - 1
    /\ UNCHANGED <<command, caller, todo, skipped>>

SkipBconsole(p) ==
    /\ GoTo(p, "enter", "skip")
    /\ bconsole = 0
    /\ skipped' = skipped \cup {p}
    /\ NoSemaphore
    /\ UNCHANGED <<caller, todo>>

DestroyAfterSkip(p) ==
    /\ GoTo(p, "skip", "release")
    /\ PostBconsole
    /\ UNCHANGED <<caller, todo, skipped>>

KeepCommand(p) ==
    /\ GoTo(p, "unlock", "issue")
    /\ NoSemaphore
    /\ UNCHANGED <<caller, todo, skipped>>
UnlockCommand(p) ==
    /\ GoTo(p, "unlock", "issue")
    /\ PostCommand
    /\ UNCHANGED <<caller, todo, skipped>>

(***************************************************************************)
(* IssueBconsoleCommands().  'update slots' goes first.  The process waits *)
(* for its child, and the child for the invocations Bacula makes; whether  *)
(* it succeeded is only logged.                                            *)
(***************************************************************************)
NextCommand(need) ==
    IF "update slots" \in need THEN "update slots" ELSE "label barcodes"

RunBconsole(p) ==
    /\ todo[p] # {}
    /\ GoTo(p, "issue", "wait")
    /\ todo' = [todo EXCEPT ![p] = @ \ {NextCommand(@)}]
    /\ NoSemaphore
    /\ UNCHANGED <<caller, skipped>>

BconsoleExits(p) ==
    /\ GoTo(p, "wait", "issue")
    /\ \A q \in Invocation : caller[q] = p => ~Running(q)
    /\ NoSemaphore
    /\ UNCHANGED <<caller, todo, skipped>>

(* The answers to Bacula are not part of bconsole: an invocation gives up  *)
(* on a bconsole it cannot write to, and one that is killed or runs into   *)
(* its own limit (-u 30) leaves behind the invocations it caused.          *)
BconsoleLost(p) ==
    /\ GoTo(p, "wait", "issue")
    /\ NoSemaphore
    /\ UNCHANGED <<caller, todo, skipped>>

(***************************************************************************)
(* When execvp fails the child returns from do_mypopen_raw() and goes on   *)
(* as a second copy of main(): it logs the failure, issues what is left,   *)
(* and cleans up semaphores only its parent holds.                         *)
(***************************************************************************)
ForkWithoutExec(p, q) ==
    /\ ExecFailures
    /\ todo[p] # {}
    /\ pc[p] = "issue" /\ pc[q] = "off"
    /\ pc' = [pc EXCEPT ![p] = "wait", ![q] = "issue"]
    /\ caller' = [caller EXCEPT ![q] = p]
    /\ todo' = [r \in Invocation |->
                   IF r \in {p, q} THEN todo[p] \ {NextCommand(todo[p])}
                                   ELSE todo[r]]
    /\ NoSemaphore
    /\ UNCHANGED skipped

AllIssued(p) ==
    /\ todo[p] = {}
    /\ GoTo(p, "issue", "relock")
    /\ NoSemaphore
    /\ UNCHANGED <<caller, todo, skipped>>

(***************************************************************************)
(* The second mymutex_lock(command_mux, 300), whose result main() ignores, *)
(* and the two mymutex_destroy() calls, whose handles are swapped: the     *)
(* first posts the command semaphore, the second the bconsole semaphore.   *)
(***************************************************************************)
RelockWithoutTaking(p) ==
    /\ GoTo(p, "relock", "post1")
    /\ command > 0
    /\ NoSemaphore
    /\ UNCHANGED <<caller, todo, skipped>>
Relock(p) ==
    /\ GoTo(p, "relock", "post1")
    /\ command > 0
    /\ command' = command - 1
    /\ UNCHANGED <<bconsole, caller, todo, skipped>>

RelockTimeout(p) ==
    /\ LockTimeouts
    /\ GoTo(p, "relock", "post1")
    /\ command = 0
    /\ NoSemaphore
    /\ UNCHANGED <<caller, todo, skipped>>

DestroyCommand(p) ==
    /\ GoTo(p, "post1", "post2")
    /\ PostCommand
    /\ UNCHANGED <<caller, todo, skipped>>

DestroyCommandTwice(p) ==
    /\ GoTo(p, "post2", "end")
    /\ PostCommand
    /\ UNCHANGED <<caller, todo, skipped>>
DestroyBconsole(p) ==
    /\ GoTo(p, "post2", "end")
    /\ PostBconsole
    /\ UNCHANGED <<caller, todo, skipped>>

(* A killed invocation leaves both semaphores as they are.                 *)
Crash(p) ==
    /\ Crashes
    /\ Running(p)
    /\ pc' = [pc EXCEPT ![p] = "dead"]
    /\ NoSemaphore
    /\ UNCHANGED <<caller, todo, skipped>>

-----------------------------------------------------------------------------
Locking(p) == LockCommand(p) \/ LockCommandTimeout(p) \/ DestroyAfterTimeout(p)
Working(p) == Fail(p) \/ Perform(p) \/ Release(p)
Guarding(p) == LockBconsole(p) \/ SkipBconsole(p) \/ DestroyAfterSkip(p)
                  \/ UnlockCommand(p)
Issuing(p) == RunBconsole(p) \/ BconsoleExits(p) \/ AllIssued(p)
Leaving(p) == Relock(p) \/ RelockTimeout(p) \/ DestroyCommand(p)
                 \/ DestroyBconsole(p)

(* What an invocation does by itself once it has been started.             *)
Step(p) == Locking(p) \/ Working(p) \/ Guarding(p) \/ Issuing(p) \/ Leaving(p)

(* Every invocation has been started and has ended.                        *)
AtRest == \A p \in Invocation : ~Running(p)
AllOver == /\ \A p \in Invocation : pc[p] \in Ended
           /\ UNCHANGED vars

Next ==
    \/ \E p \in Invocation : Start(p) \/ Step(p) \/ BconsoleLost(p) \/ Crash(p)
    \/ \E p, q \in Invocation : StartNested(p, q) \/ ForkWithoutExec(p, q)
    \/ AllOver

(***************************************************************************)
(* A process the kernel schedules goes on, and sem_timedwait returns: with *)
(* LockTimeouts a wait that is not served ends by itself.  A bconsole that *)
(* has its answers exits.  Nothing makes anyone start an invocation, kill  *)
(* one, or give up on bconsole.                                            *)
(***************************************************************************)
Spec == Init /\ [][Next]_vars
FairSpec == Spec /\ \A p \in Invocation : WF_vars(Step(p))

-----------------------------------------------------------------------------
(* Where an invocation has the command semaphore, and the bconsole one.    *)
HoldsCommand(p) ==
    pc[p] \in {"work", "release", "enter", "skip", "unlock", "post1"}
HoldsBconsole(p) ==
    pc[p] \in {"unlock", "issue", "wait", "relock", "post1", "post2"}

(***************************************************************************)
(* Two invocations never work on the changer's magazines, slots and drives *)
(* at the same time (vchanger.cpp:628, "A named mutex is created to        *)
(* serialize access to the changer"), whatever crashes or fails to start,  *)
(* as long as no wait for the mutex times out.                             *)
(***************************************************************************)
CommandExclusion ==
    \A p, q \in Invocation : pc[p] = "work" /\ pc[q] = "work" => p = q

(***************************************************************************)
(* No path through main() forgets a semaphore: when no invocation runs     *)
(* any more, and none was killed, the next one can take both.              *)
(***************************************************************************)
FreeAtRest ==
    AtRest /\ (\A p \in Invocation : pc[p] # "dead")
        => command > 0 /\ bconsole > 0

(***************************************************************************)
(* The excess of the bconsole semaphore is exactly what main() posts       *)
(* without having: one for each skipped instance.  It bounds how many      *)
(* invocations may be issuing bconsole commands at the same time.  (For    *)
(* runs without crashes and failed execs.)                                 *)
(***************************************************************************)
BconsoleAccount ==
    bconsole + Cardinality({p \in Invocation : HoldsBconsole(p)})
        = 1 + Cardinality({p \in skipped : pc[p] # "skip"})

(***************************************************************************)
(* Every invocation that starts comes to an end: an instance bconsole runs *)
(* never waits for good for the invocation that is waiting for it.         *)
(***************************************************************************)
EveryInvocationEnds == <>[]AtRest

(***************************************************************************)
(* A holder that is killed takes the command semaphore's only count with   *)
(* it, and nothing resets a named semaphore.  The post of an invocation    *)
(* that waited in vain is what makes the changer usable again.             *)
(***************************************************************************)
Lost == command = 0 /\ \A p \in Invocation : ~HoldsCommand(p)

LostCommandIsRestored ==
    \A p \in Invocation :
        (Lost /\ pc[p] \in {"lock", "timeout"}) ~> (command > 0 \/ pc[p] = "dead")
=============================================================================
