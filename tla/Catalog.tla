------------------------------ MODULE Catalog -------------------------------
(***************************************************************************)
(* What the mutexes are for: Bacula's catalog must learn which volumes are *)
(* in which slot.  CommandMutex composed with the media in the changer,    *)
(* the mapping in vchanger's state files and what Bacula has been told.    *)
(*                                                                         *)
(* Initialize() saves the mapping it finds at once, and remembers in the   *)
(* process alone that 'update slots' is needed.  From then on no other     *)
(* instance finds anything to tell Bacula, so an update that this instance *)
(* does not bring about is lost.  Bacula answers 'update slots' by asking  *)
(* another instance for the list; what that one prints goes into the       *)
(* catalog.  The mapping is a version number that every change of the      *)
(* media increases.                                                        *)
(***************************************************************************)
EXTENDS CommandMutex

CONSTANT MaxChanges    \* how often the media are changed

ASSUME MaxChangesAssumption == MaxChanges \in Nat

VARIABLES
    media,     \* the version of what is mounted
    saved,     \* the version in the state files
    told,      \* the versions Bacula has read from an instance it asked
    dropped,   \* the versions nobody will tell Bacula of
    owes,      \* the version an instance found new, if any, as a set
    listed,    \* the version it prints as an answer, if any, as a set
    update     \* how far its own 'update slots' has come

mapping == <<media, saved>>
reports == <<told, dropped, owes, listed, update>>
catVars == <<vars, mapping, reports>>

Version == 0..MaxChanges

(* The domains of the variables.                                           *)
CatTypeOK ==
    /\ TypeOK
    /\ media \in Version
    /\ saved \in Version
    /\ told \in SUBSET Version
    /\ dropped \in SUBSET Version
    /\ owes \in [Invocation -> SUBSET Version]
    /\ listed \in [Invocation -> SUBSET Version]
    /\ update \in [Invocation -> {"no", "asked", "answered"}]

CatInit ==
    /\ Init
    /\ media = 0 /\ saved = 0
    /\ told = {0} /\ dropped = {}
    /\ owes = [p \in Invocation |-> {}]
    /\ listed = [p \in Invocation |-> {}]
    /\ update = [p \in Invocation |-> "no"]

-----------------------------------------------------------------------------
(* A magazine is mounted, unmounted or changed, at any time.               *)
ChangeMedia ==
    /\ media < MaxChanges
    /\ media' = media + 1
    /\ UNCHANGED <<vars, saved, reports>>

Begin(p) == Start(p) /\ UNCHANGED <<mapping, reports>>
Ask(p, q) == StartNested(p, q) /\ UNCHANGED <<mapping, reports>>
Lock(p) == LockCommand(p) /\ UNCHANGED <<mapping, reports>>

(***************************************************************************)
(* Initialize(): the magazines' new ranges are saved, and whether that     *)
(* changed anything is known to this process alone.                        *)
(***************************************************************************)
NeedsUpdateUnlessAsked(p) == saved # media /\ caller[p] = NoCaller
NeedsUpdate(p) == saved # media
NewVersion(p) == IF NeedsUpdate(p) THEN {media} ELSE {}

SaveMapping == saved' = media /\ UNCHANGED media

(* Initialize() fails before it saves; a failing command, or a bconsole    *)
(* that is not configured, comes after.                                    *)
FailToInitialize(p) == Fail(p) /\ UNCHANGED <<mapping, reports>>

FailAfterSaving(p) ==
    /\ Fail(p)
    /\ SaveMapping
    /\ dropped' = dropped \cup NewVersion(p)
    /\ UNCHANGED <<told, owes, listed, update>>

Answers(p) == IF caller[p] = NoCaller THEN {{}} ELSE {{}, {media}}

(* The update is issued if it is needed, or if REFRESH was forced.  Bacula *)
(* asks for LIST, whose answer is the mapping, and for other things.       *)
PerformCommand(p) ==
    /\ Perform(p)
    /\ NeedsUpdate(p) => "update slots" \in todo'[p]
    /\ SaveMapping
    /\ owes' = [owes EXCEPT ![p] = NewVersion(p)]
    /\ \E answer \in Answers(p) : listed' = [listed EXCEPT ![p] = answer]
    /\ UNCHANGED <<told, dropped, update>>

(***************************************************************************)
(* The bconsole part of main().                                            *)
(***************************************************************************)
EnterBconsole(p) == LockBconsole(p) /\ UNCHANGED <<mapping, reports>>

Skip(p) ==
    /\ SkipBconsole(p)
    /\ dropped' = dropped \cup owes[p]
    /\ owes' = [owes EXCEPT ![p] = {}]
    /\ UNCHANGED <<mapping, told, listed, update>>

DestroySkipped(p) == DestroyAfterSkip(p) /\ UNCHANGED <<mapping, reports>>
Unlock(p) == UnlockCommand(p) /\ UNCHANGED <<mapping, reports>>

RunUpdate(p) ==
    /\ RunBconsole(p)
    /\ update' = [update EXCEPT ![p] =
                      IF NextCommand(todo[p]) = "update slots"
                          THEN "asked" ELSE "no"]
    /\ UNCHANGED <<mapping, told, dropped, owes, listed>>

(* bconsole is gone; if Bacula got no list, the update did not happen.     *)
Conclude(p) ==
    /\ dropped' = dropped \cup (IF update[p] = "asked" THEN owes[p] ELSE {})
    /\ owes' = [owes EXCEPT ![p] = IF update[p] = "no" THEN @ ELSE {}]
    /\ update' = [update EXCEPT ![p] = "no"]
    /\ UNCHANGED <<mapping, told, listed>>

UpdateEnds(p) == BconsoleExits(p) /\ Conclude(p)
UpdateLost(p) == BconsoleLost(p) /\ Conclude(p)

NoMoreCommands(p) == AllIssued(p) /\ UNCHANGED <<mapping, reports>>
LockAgain(p) == Relock(p) /\ UNCHANGED <<mapping, reports>>
FirstDestroy(p) == DestroyCommand(p) /\ UNCHANGED <<mapping, reports>>

(***************************************************************************)
(* The end of an instance's output is the end of the answer Bacula reads,  *)
(* if whoever asked for it still waits.                                    *)
(***************************************************************************)
Answer(q) ==
    IF /\ listed[q] # {}
       /\ \E p \in Invocation : caller[q] = p /\ update[p] # "no"
    THEN /\ told' = told \cup listed[q]
         /\ update' = [update EXCEPT ![caller[q]] = "answered"]
    ELSE UNCHANGED <<told, update>>

End(p) ==
    /\ Release(p) \/ DestroyBconsole(p)
    /\ Answer(p)
    /\ listed' = [listed EXCEPT ![p] = {}]
    /\ UNCHANGED <<mapping, dropped, owes>>

-----------------------------------------------------------------------------
CatStep(p) ==
    \/ Lock(p)
    \/ FailToInitialize(p) \/ FailAfterSaving(p) \/ PerformCommand(p)
    \/ EnterBconsole(p) \/ Skip(p) \/ DestroySkipped(p) \/ Unlock(p)
    \/ RunUpdate(p) \/ UpdateEnds(p) \/ NoMoreCommands(p)
    \/ LockAgain(p) \/ FirstDestroy(p) \/ End(p)

CatNext ==
    \/ ChangeMedia
    \/ \E p \in Invocation : Begin(p) \/ CatStep(p) \/ UpdateLost(p)
    \/ \E p, q \in Invocation : Ask(p, q)
    \/ AllOver /\ UNCHANGED catVars

(* The fairness of CommandMutex: an instance that can go on does.          *)
CatSpec ==
    /\ CatInit
    /\ [][CatNext]_catVars
    /\ \A p \in Invocation : WF_catVars(CatStep(p))

-----------------------------------------------------------------------------
(***************************************************************************)
(* When no instance runs, Bacula has been told of the mapping in the state *)
(* files, unless an instance gave exactly that mapping up: its command     *)
(* failed after Initialize(), it skipped bconsole, or its bconsole ended   *)
(* without having asked for the list.  In particular an answered 'update   *)
(* slots' never leaves Bacula with a mapping older than the one that       *)
(* caused it, however instances nest and media change meanwhile.           *)
(***************************************************************************)
EverySavedMappingIsReported == AtRest => saved \in told \cup dropped
=============================================================================
