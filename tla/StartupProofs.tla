---------------------------- MODULE StartupProofs ----------------------------
(***************************************************************************)
(* The start of vchanger, for any configuration file, any command line,    *)
(* any users and groups and any mount tables: the user the process runs    *)
(* as, the directory the lookup finds, the command, what IniFile::Read()   *)
(* makes of the file, and the configuration.                               *)
(***************************************************************************)
EXTENDS Startup, FiniteSetTheorems, SequenceTheorems, WellFoundedInduction, TLAPS

(***************************************************************************)
(* The inductive invariant: nothing is opened before drop_privs() has made *)
(* the process run as the user that was configured, who is not changed     *)
(* from then on.                                                           *)
(***************************************************************************)
Privileged == stage \in {"begin", "config", "override", "user"}
Dropped == stage \in {"log", "validate", "mount"}

UserInv ==
    /\ DOMAIN conf = DOMAIN Defaults
    /\ Privileged => made = {} /\ (byRoot => runsAs = Root)
    /\ Dropped => (byRoot /\ ~Nameless => runsAs = conf.user)
    /\ FilesBelongToUser

LEMMA UserInit == Init => UserInv
BY DEF Init, UserInv, Privileged, Dropped, FilesBelongToUser

LEMMA UserNext == UserInv /\ [Next]_vars => UserInv'
<1> SUFFICES ASSUME UserInv, [Next]_vars PROVE UserInv'
  OBVIOUS
<1> DEFINE owners == <<conf, runsAs, byRoot, made>>
<1>same. ASSUME UNCHANGED owners,
                \/ stage' = stage
                \/ stage' = "exit"
                \/ Privileged /\ Privileged' /\ ~Dropped'
         PROVE  UserInv'
  BY <1>same DEF UserInv, Privileged, Dropped, FilesBelongToUser, Nameless
<1>1. CASE \/ UNCHANGED vars \/ RefuseCmdline \/ RefuseConfig \/ FailToBecomeUser
           \/ FailToOpenLog \/ FailToValidate \/ End
  BY <1>1, <1>same DEF vars, process, RefuseCmdline, RefuseConfig, FailToBecomeUser,
     FailToOpenLog, FailToValidate, End, Exit
<1>2. CASE ReadConfigFile \/ LookupMagazine
  BY <1>2, <1>same DEF ReadConfigFile, LookupMagazine, process
<1>3. CASE ParseCmdline
  BY <1>3, <1>same DEF ParseCmdline, Step, Privileged, Dropped
<1>4. CASE TakeConfig \/ Override
  <2>1. /\ Privileged /\ Privileged' /\ ~Dropped'
        /\ UNCHANGED <<runsAs, byRoot, made>>
    BY <1>4 DEF TakeConfig, Override, Step, Privileged, Dropped
  <2>2. DOMAIN conf' = DOMAIN Defaults
    BY <1>4 DEF TakeConfig, Override, UserInv, Defaults
  <2>3. QED
    BY <2>1, <2>2 DEF UserInv, FilesBelongToUser
<1>5. CASE BecomeUser
  <2>1. /\ stage = "user" /\ stage' = "log" /\ UNCHANGED <<conf, byRoot, made>>
        /\ made = {} /\ (byRoot => runsAs = Root)
    BY <1>5 DEF BecomeUser, Step, UserInv, Privileged
  <2>2. byRoot /\ ~Nameless => runsAs' = conf.user
    BY <1>5, <2>1 DEF BecomeUser, KeepsUser
  <2>3. QED
    BY <2>1, <2>2 DEF UserInv, Privileged, Dropped, FilesBelongToUser, Nameless
<1>6. CASE OpenLog
  <2>1. /\ stage = "log" /\ stage' = "validate" /\ UNCHANGED <<conf, runsAs, byRoot>>
        /\ made' = made \cup {[file |-> conf.log, by |-> runsAs]}
    BY <1>6 DEF OpenLog, Step, File
  <2>2. byRoot /\ ~Nameless => runsAs = conf.user
    BY <2>1 DEF UserInv, Dropped
  <2>3. QED
    BY <2>1, <2>2 DEF UserInv, Privileged, Dropped, FilesBelongToUser, Nameless
<1>7. CASE Validate
  <2>1. /\ stage = "validate" /\ stage' = "mount" /\ UNCHANGED <<runsAs, byRoot>>
        /\ made' \in {made, made \cup {[file |-> conf.work, by |-> runsAs]}}
    BY <1>7 DEF Validate, Step, File
  <2>2. /\ DOMAIN conf' = DOMAIN Defaults
        /\ conf'.user = conf.user /\ conf'.group = conf.group
    BY <1>7 DEF Validate, UserInv, Defaults
  <2>3. byRoot /\ ~Nameless => runsAs = conf.user
    BY <2>1 DEF UserInv, Dropped
  <2>4. Nameless' <=> Nameless
    BY <2>2 DEF Nameless
  <2>5. FilesBelongToUser'
    BY <2>1, <2>2, <2>3, <2>4 DEF UserInv, FilesBelongToUser
  <2>6. QED
    BY <2>1, <2>2, <2>3, <2>4, <2>5 DEF UserInv, Privileged, Dropped
<1>8. CASE MountDirectory \/ MountFound
  BY <1>8, <1>same DEF MountDirectory, MountFound, Fill
<1>9. QED
  BY <1>1, <1>2, <1>3, <1>4, <1>5, <1>6, <1>7, <1>8 DEF Next

(* Started by root, the process opens its log and makes its work directory *)
(* as the configured user, if that user and group exist.                   *)
THEOREM FilesBelongToUserHolds == Spec => []FilesBelongToUser
<1>1. UserInv => FilesBelongToUser
  BY DEF UserInv
<1>2. QED
  BY UserInit, UserNext, <1>1, PTL DEF Spec

-----------------------------------------------------------------------------
(***************************************************************************)
(* The lookup of mountpoints, for any devices, mount tables and changes.   *)
(***************************************************************************)
(* Of numbers that fit, one is the first, and below a bound one the last.  *)
LEMMA FirstOf ==
  ASSUME NEW I \in SUBSET Nat, I # {}
  PROVE  Min(I) \in I /\ \A i \in I : Min(I) <= i
<1> DEFINE Less == {ss \in Nat \X Nat : ss[1] < ss[2]}
<1>1. PICK i \in I : \A j \in I : ~(<<j, i>> \in Less)
  <2>1. IsWellFoundedOn(Less, Nat)
    BY NatLessThanWellFounded DEF OpToRel
  <2> HIDE DEF Less
  <2>2. QED
    BY <2>1, WFMin
<1>2. \A j \in I : i <= j
  <2>1. SUFFICES ASSUME NEW j \in I, ~(i <= j)
                 PROVE  <<j, i>> \in Less
    BY <1>1
  <2>2. QED
    BY <2>1
<1>3. QED
  BY <1>2 DEF Min

LEMMA LastOf ==
  ASSUME NEW n \in Nat, NEW I \in SUBSET (0..n), I # {}
  PROVE  Max(I) \in I /\ \A i \in I : Max(I) >= i
<1> DEFINE J == {n - i : i \in I}
<1>1. J \in SUBSET Nat /\ J # {}
  <2>1. \A i \in I : n - i \in Nat
    OBVIOUS
  <2>2. QED
    BY <2>1
<1>2. PICK j \in J : \A k \in J : j <= k
  BY <1>1, FirstOf
<1>3. PICK i \in I : j = n - i
  BY <1>2
<1>4. \A k \in I : i >= k
  <2>1. SUFFICES ASSUME NEW k \in I
                 PROVE  i >= k
    OBVIOUS
  <2>2. n - k \in J
    OBVIOUS
  <2>3. n - i <= n - k
    BY <1>2, <1>3, <2>2
  <2>4. QED
    BY <2>3
<1>5. QED
  BY <1>4 DEF Max

(* GetDevMountpoint() finds an entry of that name if there is one.         *)
LEMMA FirstMountFound ==
  ASSUME table \in Seq(Entry), NEW name
  PROVE  /\ IsMounted(name) => \E i \in DOMAIN table :
                                  i = FirstMount(name) /\ table[i].name = name
         /\ ~IsMounted(name) => \A e \in ToSet(table) : e.name # name
<1> DEFINE I == {i \in 1..Len(table) : table[i].name = name}
<1>1. FirstMount(name) = IF I # {} THEN Min(I) ELSE 0
  BY DEF FirstMount, SelectInSeq
<1>2. I \in SUBSET Nat /\ 0 \notin I
  OBVIOUS
<1>3. I # {} => Min(I) \in I
  BY <1>2, FirstOf
<1>4. IsMounted(name) <=> I # {}
  BY <1>1, <1>2, <1>3 DEF IsMounted
<1>5. DOMAIN table = 1..Len(table)
  OBVIOUS
<1>6. QED
  BY <1>1, <1>3, <1>4, <1>5 DEF ToSet

(***************************************************************************)
(* The inductive invariant of the lookup.  Only devices with the UUID are  *)
(* listed, and if one of them has it for itself and is still attached,     *)
(* then it is the one that is looked at: its names so far are those of no  *)
(* entry that stayed, or the table was not read for them.                  *)
(***************************************************************************)
LookTypes ==
    /\ table \in Seq(Entry)
    /\ attached \subseteq Device
    /\ devices \in Seq(Device)
    /\ at \in Nat \ {0} /\ next \in Nat \ {0}
    /\ look \in {"idle", "device", "node", "alias", "done"}

Witnessed == stayed \subseteq ToSet(table) /\ ToSet(table) \subseteq was

DevicesMatch ==
    look # "idle" =>
        /\ \A i \in DOMAIN devices : devices[i].matches
        /\ \A d \in attached : d.matches => d \in ToSet(devices)

AtDevice ==
    look \in {"node", "alias"} => at \in DOMAIN devices /\ devices[at].node # ""

Unanswered ==
    /\ look \in {"device", "node"} => rc = 3
    /\ look = "alias" => rc = 4

NoneNamed(names) == \A e \in stayed : e.name \notin names \ unread

LookedFor(d) ==
    /\ look \in {"device", "node"} => at = 1 /\ next = 1
    /\ look = "alias" =>
          NoneNamed({d.node} \cup {d.aliases[i] : i \in 1..next - 1})
    /\ look = "done" /\ rc \in {3, 4} => NoneNamed(NamesOf(d))

LookInv ==
    /\ LookTypes /\ Witnessed /\ DevicesMatch /\ AtDevice /\ Unanswered
    /\ FoundIsMounted
    /\ \A d \in attached :
          look # "idle" /\ OnlyDevice(d) /\ d.node # "" => LookedFor(d)

LEMMA LookInvInit == NoLookup => LookInv
BY DEF NoLookup, LookInv, LookTypes, Witnessed, DevicesMatch, AtDevice, Unanswered,
   FoundIsMounted, ToSet

LEMMA LookAgrees == LookInv => LookupAgrees
BY DEF LookInv, LookupAgrees, MountedIsFound, LookedFor, NoneNamed

(* The device a lookup is at is the one that has the UUID for itself.      *)
LEMMA AtOnly ==
  ASSUME LookInv, NEW d \in attached, OnlyDevice(d), look # "idle",
         NEW i \in DOMAIN devices
  PROVE  devices[i] = d
<1>1. devices \in Seq(Device)
  BY DEF LookInv, LookTypes
<1>2. devices[i] \in Device
  BY <1>1
<1>3. devices[i].matches /\ devices[i] \in ToSet(devices)
  BY DEF LookInv, DevicesMatch, ToSet
<1>4. QED
  BY <1>2, <1>3 DEF OnlyDevice

LEMMA EnumerateKeeps ==
  ASSUME Enumerate
  PROVE  LookInv'
<1> DEFINE M == {d \in attached' : d.matches}
<1>1. /\ look' = "device" /\ at' = 1 /\ next' = 1 /\ rc' = 3
      /\ attached' \subseteq Device
      /\ was' = ToSet(table') /\ stayed' = ToSet(table')
  BY DEF Enumerate
<1>2. PICK k \in 0..MaxMounts : table' \in [1..k -> Entry]
  BY DEF Enumerate, Tables
<1>3. table' \in Seq(Entry)
  BY <1>2, LookupAssumption
<1>4. devices' \in [1..Cardinality(M) -> M] /\ ToSet(devices') = M
  BY DEF Enumerate, Orders
<1>5. M \in SUBSET Device /\ IsFiniteSet(M) /\ Cardinality(M) \in Nat
  BY <1>1, DeviceAssumption, FS_Subset, FS_CardinalityType
<1> HIDE DEF M
<1>6. devices' \in Seq(Device)
  BY <1>4, <1>5
<1>7. LookTypes'
  BY <1>1, <1>3, <1>6 DEF LookTypes
<1>8. DevicesMatch'
  BY <1>4 DEF DevicesMatch, M
<1>9. QED
  BY <1>1, <1>7, <1>8 DEF LookInv, Witnessed, AtDevice, Unanswered, FoundIsMounted, LookedFor

(* What comes and goes meanwhile.                                          *)
LEMMA OthersKeep ==
  ASSUME LookInv, Others
  PROVE  LookInv'
<1>1. /\ look \notin {"idle", "done"}
      /\ UNCHANGED <<devices, look, at, next, rc, found, unread>>
  BY DEF Others, MountDevice, Unmount, Unplug, Change, Remember, seen
<1>2. table' \in Seq(Entry)
  <2>1. table \in Seq(Entry)
    BY DEF LookInv, LookTypes
  <2>2. CASE MountDevice
    BY <2>1, <2>2 DEF MountDevice
  <2>3. CASE Unmount
    <3>1. PICK i \in 1..Len(table) : table' = RemoveAt(table, i)
      BY <2>1, <2>3 DEF Unmount
    <3>2. SubSeq(table, 1, i - 1) \in Seq(Entry)
      BY <2>1, <3>1
    <3>3. SubSeq(table, i + 1, Len(table)) \in Seq(Entry)
      BY <2>1, <3>1
    <3>4. QED
      BY <3>1, <3>2, <3>3 DEF RemoveAt
  <2>4. CASE Unplug
    BY <2>1, <2>4 DEF Unplug
  <2>5. QED
    BY <2>2, <2>3, <2>4 DEF Others
<1>3. attached' \subseteq attached /\ stayed' \subseteq stayed
  BY DEF Others, MountDevice, Unmount, Unplug, Remember, seen
<1>4. Witnessed'
  BY DEF Others, MountDevice, Unmount, Unplug, Remember, seen, LookInv, Witnessed
<1>5. LookTypes'
  BY <1>1, <1>2, <1>3 DEF LookInv, LookTypes
<1>6. DevicesMatch' /\ AtDevice' /\ Unanswered' /\ FoundIsMounted'
  BY <1>1, <1>3 DEF LookInv, DevicesMatch, AtDevice, Unanswered, FoundIsMounted
<1>7. ASSUME NEW d \in attached', OnlyDevice(d)', d.node # ""
      PROVE  LookedFor(d)'
  <2>1. LookedFor(d)
    BY <1>1, <1>3, <1>7 DEF LookInv, OnlyDevice
  <2>2. QED
    BY <1>1, <1>3, <2>1 DEF LookedFor, NoneNamed
<1>8. QED
  BY <1>4, <1>5, <1>6, <1>7 DEF LookInv

LEMMA LookupKeeps ==
  ASSUME LookInv, Lookup
  PROVE  LookInv'
<1>1. /\ UNCHANGED <<table, attached, devices, was, stayed>> /\ unread \subseteq unread'
      /\ look # "idle" /\ look' # "idle"
  BY DEF Lookup, NoMoreDevices, PassDevice, TakeDevice, LookupNode, NodeNotMounted,
     NodeUnknown, LookupAlias, PassAlias, AliasUnknown, NoMoreAliases, Answer, Finish,
     outside, seen
<1>2. /\ table \in Seq(Entry)
      /\ devices \in Seq(Device)
      /\ \A i \in DOMAIN devices : devices[i] \in Device /\ devices[i].matches
      /\ attached \subseteq Device
      /\ \A d \in attached : d.matches => d \in ToSet(devices)
      /\ at \in Nat \ {0} /\ next \in Nat \ {0}
      /\ stayed \subseteq ToSet(table) /\ ToSet(table) \subseteq was
  <2>1. /\ table \in Seq(Entry) /\ devices \in Seq(Device)
        /\ attached \subseteq Device /\ at \in Nat \ {0} /\ next \in Nat \ {0}
    BY DEF LookInv, LookTypes
  <2>2. \A i \in DOMAIN devices : devices[i] \in Device
    BY <2>1
  <2>3. /\ \A i \in DOMAIN devices : devices[i].matches
        /\ \A d \in attached : d.matches => d \in ToSet(devices)
    BY <1>1 DEF LookInv, DevicesMatch
  <2>4. QED
    BY <2>1, <2>2, <2>3 DEF LookInv, Witnessed
<1>3. \A d \in Device : /\ d.aliases \in Seq(STRING)
                        /\ \A i \in DOMAIN d.aliases : d.aliases[i] \in NamesOf(d)
                        /\ d.node # "" => d.node \in NamesOf(d)
  <2>1. SUFFICES ASSUME NEW d \in Device
                 PROVE  /\ d.aliases \in Seq(STRING)
                        /\ \A i \in DOMAIN d.aliases : d.aliases[i] \in NamesOf(d)
                        /\ d.node # "" => d.node \in NamesOf(d)
    OBVIOUS
  <2>2. d.aliases \in Seq(STRING)
    BY DeviceAssumption
  <2>3. QED
    BY <2>2 DEF NamesOf, ToSet
<1>4. Witnessed' /\ DevicesMatch'
  BY <1>1, <1>2 DEF Witnessed, DevicesMatch
<1>5. \A d \in attached : OnlyDevice(d) /\ d.node # "" => LookedFor(d) /\ d \in Device
  BY <1>1, <1>2 DEF LookInv
<1>6. \A d \in attached : OnlyDevice(d)' <=> OnlyDevice(d)
  BY <1>1 DEF OnlyDevice
(* It is enough to show what concerns the place of the lookup.             *)
<1>7. ASSUME at' \in Nat \ {0}, next' \in Nat \ {0},
             look' \in {"device", "node", "alias", "done"},
             AtDevice', Unanswered', FoundIsMounted',
             \A d \in attached : OnlyDevice(d) /\ d.node # "" => LookedFor(d)'
      PROVE  LookInv'
  <2>1. LookTypes'
    BY <1>1, <1>2, <1>7 DEF LookTypes
  <2>2. QED
    BY <1>1, <1>4, <1>6, <1>7, <2>1 DEF LookInv
<1>0. ~(look' = "done" /\ rc' = 0) => FoundIsMounted'
  BY Zenon DEF FoundIsMounted
<1>8. CASE NoMoreDevices
  <2>1. /\ look = "device" /\ at > Len(devices) /\ rc = 3
        /\ look' = "done" /\ UNCHANGED <<at, next, rc, found>>
    BY <1>8 DEF NoMoreDevices, Finish, LookInv, Unanswered
  <2>2. ASSUME NEW d \in attached, OnlyDevice(d), d.node # ""
        PROVE  FALSE
    <3>1. at = 1
      BY <1>5, <2>1, <2>2 DEF LookedFor
    <3>2. PICK i \in DOMAIN devices : devices[i] = d
      BY <1>2, <2>2 DEF OnlyDevice, ToSet
    <3>3. QED
      BY <1>2, <2>1, <3>1, <3>2
  <2>3. FoundIsMounted'
    BY <1>0, <2>1
  <2>4. AtDevice' /\ Unanswered'
    BY <2>1 DEF AtDevice, Unanswered
  <2>5. at' \in Nat \ {0} /\ next' \in Nat \ {0}
    BY <1>2, <2>1
  <2>6. QED
    BY <1>7, <2>1, <2>2, <2>3, <2>4, <2>5
<1>9. CASE PassDevice
  <2>1. /\ look = "device" /\ at <= Len(devices) /\ rc = 3
        /\ devices[at] \notin attached
        /\ at' = at + 1 /\ UNCHANGED <<look, next, rc, found>>
    BY <1>9 DEF PassDevice, LookInv, Unanswered
  <2>2. ASSUME NEW d \in attached, OnlyDevice(d), d.node # ""
        PROVE  FALSE
    <3>1. at \in DOMAIN devices
      BY <1>2, <2>1
    <3>2. QED
      BY <1>1, <2>1, <2>2, <3>1, AtOnly
  <2>3. FoundIsMounted'
    BY <1>0, <2>1
  <2>4. AtDevice' /\ Unanswered'
    BY <2>1 DEF AtDevice, Unanswered
  <2>5. at' \in Nat \ {0} /\ next' \in Nat \ {0}
    BY <1>2, <2>1
  <2>6. QED
    BY <1>7, <2>1, <2>2, <2>3, <2>4, <2>5
<1>10. CASE TakeDevice
  <2>1. /\ look = "device" /\ at <= Len(devices) /\ rc = 3
        /\ devices[at].node = "" => look' = "done"
        /\ devices[at].node # "" => look' = "node"
        /\ UNCHANGED <<at, next, rc, found>>
    BY <1>10 DEF TakeDevice, Finish, LookInv, Unanswered
  <2>2. at \in DOMAIN devices
    <3>1. at <= Len(devices) /\ at \in Nat \ {0} /\ devices \in Seq(Device)
      BY <1>2, <2>1
    <3>2. QED
      BY <3>1
  <2>3. ASSUME NEW d \in attached, OnlyDevice(d), d.node # ""
        PROVE  LookedFor(d)'
    <3>1. devices[at] = d
      BY <1>1, <2>2, <2>3, AtOnly
    <3>2. at = 1 /\ next = 1
      BY <1>5, <2>1, <2>3 DEF LookedFor
    <3>3. QED
      BY <2>1, <2>3, <3>1, <3>2 DEF LookedFor
  <2>4. AtDevice'
    BY <1>1, <2>1, <2>2 DEF AtDevice
  <2>5. Unanswered'
    BY <1>1, <2>1, <2>2 DEF Unanswered
  <2>6. FoundIsMounted'
    <3>1. rc' = 3
      BY <2>1
    <3>2. QED
      BY <1>0, <3>1
  <2>7. at' \in Nat \ {0} /\ next' \in Nat \ {0} /\ look' \in {"node", "done"}
    BY <1>2, <2>1
  <2>8. QED
    BY <1>7, <2>3, <2>4, <2>5, <2>6, <2>7
(* An answer is that of an entry under a name of the device.               *)
<1>11. ASSUME NEW name, Answer(name), look \in {"node", "alias"},
              name \in NamesOf(devices[at])
       PROVE  LookInv'
  <2>1. /\ IsMounted(name)
        /\ look' = "done" /\ rc' = 0 /\ found' = table[FirstMount(name)].dir
        /\ UNCHANGED <<at, next>>
    BY <1>11 DEF Answer, Finish
  <2>2. PICK i \in DOMAIN table : i = FirstMount(name) /\ table[i].name = name
    BY <1>2, <2>1, FirstMountFound
  <2>3. table[i] = [name |-> name, dir |-> found']
    <3>1. table[i] \in Entry
      BY <1>2, <2>2
    <3>2. table[i] = [name |-> table[i].name, dir |-> table[i].dir]
      BY <3>1 DEF Entry
    <3>3. QED
      BY <2>1, <2>2, <3>2
  <2>4. [name |-> name, dir |-> found'] \in was'
    BY <1>1, <1>2, <2>3 DEF ToSet
  <2>5. devices[at] \in Device /\ devices[at].matches
    BY <1>2, <1>11 DEF LookInv, AtDevice
  <2>6. FoundIsMounted'
    BY <1>11, <2>4, <2>5 DEF FoundIsMounted
  <2>7. QED
    BY <1>2, <1>7, <2>1, <2>6 DEF AtDevice, Unanswered, LookedFor
<1>12. look \in {"node", "alias"} =>
          /\ at \in DOMAIN devices /\ devices[at] \in Device
          /\ devices[at].node # ""
  BY <1>2 DEF LookInv, AtDevice
<1>13. CASE LookupNode
  BY <1>3, <1>11, <1>12, <1>13 DEF LookupNode
<1>14. CASE NodeNotMounted
  <2>1. /\ look = "node" /\ look' = "alias" /\ rc' = 4
        /\ ~IsMounted(devices[at].node)
        /\ UNCHANGED <<at, next, found>>
    BY <1>14 DEF NodeNotMounted
  <2>2. ASSUME NEW d \in attached, OnlyDevice(d), d.node # ""
        PROVE  LookedFor(d)'
    <3>1. devices[at] = d /\ next = 1
      BY <1>1, <1>5, <1>12, <2>1, <2>2, AtOnly DEF LookedFor
    <3>2. \A e \in stayed : e.name # d.node
      BY <1>2, <2>1, <3>1, FirstMountFound
    <3>3. {d.aliases[i] : i \in 1..next' - 1} = {}
      BY <2>1, <3>1
    <3>4. QED
      BY <1>1, <2>1, <3>2, <3>3 DEF LookedFor, NoneNamed
  <2>3. AtDevice' /\ Unanswered' /\ FoundIsMounted'
    BY <1>1, <1>12, <2>1 DEF AtDevice, Unanswered, FoundIsMounted
  <2>4. QED
    BY <1>2, <1>7, <2>1, <2>2, <2>3
<1>15. CASE NodeUnknown
  <2>1. look' = "done" /\ rc' = 1 /\ UNCHANGED <<at, next>>
    BY <1>15 DEF NodeUnknown, Finish
  <2>2. QED
    BY <1>2, <1>7, <2>1 DEF AtDevice, Unanswered, FoundIsMounted, LookedFor
<1>16. CASE LookupAlias
  <2>1. look = "alias" /\ next <= Len(devices[at].aliases) /\ Answer(devices[at].aliases[next])
    BY <1>16 DEF LookupAlias, Aliases
  <2>2. next \in DOMAIN devices[at].aliases
    <3>1. devices[at].aliases \in Seq(STRING)
      BY <1>3, <1>12, <2>1
    <3>2. DOMAIN devices[at].aliases = 1..Len(devices[at].aliases)
      BY <3>1
    <3>3. QED
      BY <1>2, <2>1, <3>2
  <2>3. QED
    BY <1>3, <1>11, <1>12, <2>1, <2>2
<1>17. CASE PassAlias
  <2>1. /\ look = "alias" /\ next <= Len(devices[at].aliases)
        /\ ~IsMounted(devices[at].aliases[next])
        /\ next' = next + 1 /\ UNCHANGED <<look, at, rc, found>>
    BY <1>17 DEF PassAlias, Aliases
  <2>2. ASSUME NEW d \in attached, OnlyDevice(d), d.node # ""
        PROVE  LookedFor(d)'
    <3>1. devices[at] = d
      BY <1>1, <1>12, <2>1, <2>2, AtOnly
    <3>2. \A e \in stayed : e.name # d.aliases[next]
      BY <1>2, <2>1, <3>1, FirstMountFound
    <3>3. NoneNamed({d.node} \cup {d.aliases[i] : i \in 1..next - 1})
      BY <1>5, <2>1, <2>2 DEF LookedFor
    <3>4. {d.aliases[i] : i \in 1..next' - 1}
             = {d.aliases[i] : i \in 1..next - 1} \cup {d.aliases[next]}
      <4>1. next \in Nat \ {0} /\ next' = next + 1
        BY <1>2, <2>1
      <4>2. 1..next' - 1 = (1..next - 1) \cup {next}
        BY <4>1
      <4>3. QED
        BY <4>2
    <3>5. QED
      BY <1>1, <2>1, <3>2, <3>3, <3>4 DEF LookedFor, NoneNamed
  <2>3. AtDevice' /\ Unanswered'
    BY <1>1, <1>12, <2>1 DEF LookInv, AtDevice, Unanswered
  <2>4. FoundIsMounted'
    BY <1>0, <2>1
  <2>5. at' \in Nat \ {0} /\ next' \in Nat \ {0}
    BY <1>2, <2>1
  <2>6. QED
    BY <1>7, <2>1, <2>2, <2>3, <2>4, <2>5
<1>18. CASE NoMoreAliases
  <2>1. /\ look = "alias" /\ next > Len(devices[at].aliases)
        /\ look' = "done" /\ rc = 4 /\ UNCHANGED <<at, next, rc, found>>
    BY <1>18 DEF NoMoreAliases, Aliases, Finish, LookInv, Unanswered
  <2>2. ASSUME NEW d \in attached, OnlyDevice(d), d.node # ""
        PROVE  LookedFor(d)'
    <3>1. devices[at] = d
      BY <1>1, <1>12, <2>1, <2>2, AtOnly
    <3>2. NoneNamed({d.node} \cup {d.aliases[i] : i \in 1..next - 1})
      BY <1>5, <2>1, <2>2 DEF LookedFor
    <3>3. NamesOf(d) \subseteq {d.node} \cup {d.aliases[i] : i \in 1..next - 1}
      <4>1. d.aliases \in Seq(STRING)
        BY <1>3, <1>5, <2>2
      <4>2. \A i \in DOMAIN d.aliases : i \in 1..next - 1
        BY <1>2, <2>1, <3>1, <4>1
      <4>3. QED
        BY <4>2 DEF NamesOf, ToSet
    <3>4. QED
      BY <1>1, <2>1, <3>2, <3>3 DEF LookedFor, NoneNamed
  <2>3. FoundIsMounted' /\ AtDevice' /\ Unanswered'
    BY <1>0, <2>1 DEF AtDevice, Unanswered
  <2>4. at' \in Nat \ {0} /\ next' \in Nat \ {0}
    BY <1>2, <2>1
  <2>5. QED
    BY <1>7, <2>1, <2>2, <2>3, <2>4
<1>19. CASE AliasUnknown
  <2>1. /\ look = "alias" /\ next <= Len(devices[at].aliases)
        /\ unread' = unread \cup {devices[at].aliases[next]}
        /\ next' = next + 1 /\ UNCHANGED <<look, at, rc, found>>
    BY <1>19 DEF AliasUnknown, Aliases
  <2>2. ASSUME NEW d \in attached, OnlyDevice(d), d.node # ""
        PROVE  LookedFor(d)'
    <3>1. devices[at] = d
      BY <1>1, <1>12, <2>1, <2>2, AtOnly
    <3>2. d.aliases[next] \in unread'
      BY <2>1, <3>1
    <3>3. NoneNamed({d.node} \cup {d.aliases[i] : i \in 1..next - 1})
      BY <1>5, <2>1, <2>2 DEF LookedFor
    <3>4. {d.aliases[i] : i \in 1..next' - 1}
             = {d.aliases[i] : i \in 1..next - 1} \cup {d.aliases[next]}
      <4>1. next \in Nat \ {0} /\ next' = next + 1
        BY <1>2, <2>1
      <4>2. 1..next' - 1 = (1..next - 1) \cup {next}
        BY <4>1
      <4>3. QED
        BY <4>2
    <3>5. QED
      BY <1>1, <2>1, <3>2, <3>3, <3>4 DEF LookedFor, NoneNamed
  <2>3. AtDevice' /\ Unanswered'
    BY <1>1, <1>12, <2>1 DEF LookInv, AtDevice, Unanswered
  <2>4. FoundIsMounted'
    BY <1>0, <2>1
  <2>5. at' \in Nat \ {0} /\ next' \in Nat \ {0}
    BY <1>2, <2>1
  <2>6. QED
    BY <1>7, <2>1, <2>2, <2>3, <2>4, <2>5
<1>20. QED
  BY <1>8, <1>9, <1>10, <1>13, <1>14, <1>15, <1>16, <1>17, <1>18, <1>19 DEF Lookup

LEMMA LookInvNext == LookInv /\ [Next]_vars => LookInv'
<1> SUFFICES ASSUME LookInv, [Next]_vars
             PROVE  LookInv'
  OBVIOUS
<1>1. CASE UNCHANGED lookVars
  <2>1. UNCHANGED <<table, attached, devices, look, at, next, rc, found, was, stayed,
                 unread>>
    BY <1>1 DEF lookVars, outside, seen
  <2>2. QED
    BY <2>1 DEF LookInv, LookTypes, Witnessed, DevicesMatch, AtDevice,
       Unanswered, FoundIsMounted, LookedFor, NoneNamed, OnlyDevice
<1>2. CASE LookupMagazine
  BY <1>2, EnumerateKeeps, LookupKeeps, OthersKeep DEF LookupMagazine
<1>3. CASE MountFound
  <2>1. NoLookup'
    BY <1>3 DEF MountFound, NoLookup
  <2>2. NoLookup' => LookInv'
    BY LookInvInit, PTL
  <2>3. QED
    BY <2>1, <2>2
<1>4. CASE ~LookupMagazine /\ ~MountFound
  <2>1. UNCHANGED lookVars
    BY <1>4 DEF Next, vars, ParseCmdline, RefuseCmdline, ReadConfigFile, TakeConfig,
       RefuseConfig, Override, BecomeUser, FailToBecomeUser, OpenLog, FailToOpenLog,
       Validate, FailToValidate, MountDirectory, End, Exit
  <2>2. QED
    BY <1>1, <2>1
<1>5. QED
  BY <1>2, <1>3, <1>4

(***************************************************************************)
(* A mountpoint that is found was one of a device with the UUID while it   *)
(* was looked for, and a filesystem that stayed mounted is found, or it is *)
(* mounted under an alias for which the table could not be opened: for any *)
(* devices, aliases and mount tables, whatever else comes and goes.        *)
(***************************************************************************)
THEOREM LookupAgreesHolds == Spec => []LookupAgrees
<1>1. Init => LookInv
  BY LookInvInit DEF Init
<1>2. QED
  BY <1>1, LookInvNext, LookAgrees, PTL DEF Spec

-----------------------------------------------------------------------------
(***************************************************************************)
(* The command that runs, for any command line and any width of an int.    *)
(***************************************************************************)
LEMMA SmallRemainder ==
  ASSUME NEW m \in Nat \ {0}, NEW x \in 0..m - 1
  PROVE  x % m = x
OBVIOUS

(* A number that an int holds is not changed by the conversion.            *)
LEMMA ToIntOfInt ==
  ASSUME NEW n \in -IntHalf .. IntHalf - 1
  PROVE  ToInt(n) = n
<1>1. PICK m \in Nat \ {0} : m = 2 * IntHalf
  BY IntHalfAssumption
<1>2. n \in Int /\ n + IntHalf \in 0..m - 1
  BY <1>1, IntHalfAssumption
<1>3. (n + IntHalf) % m = n + IntHalf
  BY <1>1, <1>2, SmallRemainder
<1>4. ToInt(n) = ((n + IntHalf) % m) - IntHalf
  BY <1>1 DEF ToInt
<1>5. QED
  BY <1>2, <1>3, <1>4, IntHalfAssumption

LEMMA ArgIsTyped ==
  ASSUME NEW i
  PROVE  Typed(i, Arg(args, i))
BY ToIntOfInt DEF Typed, Arg

(* What parse_cmdline() keeps of the options, whatever the command.        *)
LEMMA CmdlOptions ==
  ASSUME NEW a
  PROVE  /\ Cmdl(a).command = a.command
         /\ Cmdl(a).user = ValueOf(a, "user") /\ Cmdl(a).group = ValueOf(a, "group")
         /\ Cmdl(a).label = ValueOf(a, "label") /\ Cmdl(a).pool = ValueOf(a, "pool")
         /\ Cmdl(a).force = IsGiven(a, "force")
BY DEF Cmdl, NoCommand

(* And of the numbers.                                                     *)
LEMMA CmdlNumbers ==
  ASSUME NEW a
  PROVE  /\ a.command = "createvols" =>
               Cmdl(a).bay = Arg(a, 1) /\ Cmdl(a).count = Arg(a, 2)
         /\ a.command \in {"load", "unload"} =>
               Cmdl(a).slot = Arg(a, 1) /\ Cmdl(a).drive = Arg(a, 3)
         /\ a.command = "loaded" => Cmdl(a).drive = Arg(a, 3)
BY DEF Cmdl, NoCommand

(***************************************************************************)
(* The inductive invariant: the command line was accepted, cmdl is what it *)
(* says, and from Override on the configuration has its values.            *)
(***************************************************************************)
Parsed == stage \in {"config", "override", "user", "log", "validate", "mount"}

CommandInv ==
    /\ DOMAIN conf = DOMAIN Defaults
    /\ Parsed => Accepts(args) /\ cmdl = Cmdl(args)
    /\ Runs =>
          /\ Given("user") # << >> => conf.user = Given("user")
          /\ Given("group") # << >> => conf.group = Given("group")
          /\ Given("pool") # << >> => conf.pool = Given("pool")

LEMMA CommandInvInit == Init => CommandInv
BY DEF Init, CommandInv, Parsed, Runs

LEMMA CommandInvNext == CommandInv /\ [Next]_vars => CommandInv'
<1> SUFFICES ASSUME CommandInv, [Next]_vars
             PROVE  CommandInv'
  OBVIOUS
<1>same. ASSUME UNCHANGED <<args, cmdl, conf>>,
                \/ stage' = stage \/ stage' = "exit"
                \/ Runs /\ Parsed /\ Runs' /\ Parsed'
         PROVE  CommandInv'
  BY <1>same DEF CommandInv, Parsed, Runs, Given
<1>1. CASE \/ UNCHANGED vars \/ RefuseCmdline \/ RefuseConfig \/ FailToBecomeUser
           \/ FailToOpenLog \/ FailToValidate \/ End
  BY <1>1, <1>same DEF vars, process, RefuseCmdline, RefuseConfig, FailToBecomeUser,
     FailToOpenLog, FailToValidate, End, Exit
<1>2. CASE ReadConfigFile \/ LookupMagazine
  BY <1>2, <1>same DEF ReadConfigFile, LookupMagazine, process
<1>3. CASE MountDirectory \/ MountFound
  BY <1>3, <1>same DEF MountDirectory, MountFound, Fill
<1>4. CASE BecomeUser \/ OpenLog
  BY <1>4, <1>same DEF BecomeUser, OpenLog, Step, Runs, Parsed
<1>5. CASE ParseCmdline
  BY <1>5 DEF ParseCmdline, Step, CommandInv, Parsed, Runs
<1>6. CASE TakeConfig
  <2>1. /\ stage = "config" /\ stage' = "override" /\ UNCHANGED <<args, cmdl>>
        /\ DOMAIN conf' = DOMAIN Defaults
    BY <1>6 DEF TakeConfig, Step, Defaults
  <2>2. QED
    BY <2>1 DEF CommandInv, Parsed, Runs
<1>7. CASE Override
  <2>1. /\ stage = "override" /\ stage' = "user" /\ UNCHANGED <<args, cmdl>>
        /\ Accepts(args) /\ cmdl = Cmdl(args)
    BY <1>7 DEF Override, Step, CommandInv, Parsed
  <2>2. /\ DOMAIN conf' = DOMAIN Defaults
        /\ conf'.user = Unless(cmdl.user, conf.user)
        /\ conf'.group = Unless(cmdl.group, conf.group)
        /\ conf'.pool = Unless(cmdl.pool, conf.pool)
    BY <1>7 DEF Override, CommandInv, Defaults
  <2>3. /\ cmdl.user = Given("user") /\ cmdl.group = Given("group")
        /\ cmdl.pool = Given("pool")
    BY <2>1, CmdlOptions DEF Given
  <2>4. UNCHANGED <<Given("user"), Given("group"), Given("pool")>>
    BY <2>1 DEF Given
  <2>5. QED
    BY <2>1, <2>2, <2>3, <2>4 DEF CommandInv, Parsed, Runs, Unless
<1>8. CASE Validate
  <2>1. /\ stage = "validate" /\ stage' = "mount" /\ UNCHANGED <<args, cmdl>>
        /\ DOMAIN conf' = DOMAIN Defaults
        /\ conf'.user = conf.user /\ conf'.group = conf.group /\ conf'.pool = conf.pool
    BY <1>8 DEF Validate, Step, CommandInv, Defaults
  <2>2. UNCHANGED <<Given("user"), Given("group"), Given("pool")>>
    BY <2>1 DEF Given
  <2>3. QED
    BY <2>1, <2>2 DEF CommandInv, Parsed, Runs
<1>9. QED
  BY <1>1, <1>2, <1>3, <1>4, <1>5, <1>6, <1>7, <1>8 DEF Next

LEMMA CommandTyped == CommandInv => CommandIsAsTyped
<1> SUFFICES ASSUME CommandInv, Runs
             PROVE  CommandIsAsTyped
  BY DEF CommandIsAsTyped, OptionsTakeEffect, CommandHasItsNumbers
<1>1. Accepts(args) /\ cmdl = Cmdl(args)
  BY DEF CommandInv, Runs, Parsed
<1>2. OptionsFit(args) /\ NumbersFit(args)
  BY <1>1 DEF Accepts
<1>3. /\ cmdl.command = args.command /\ cmdl.label = Given("label")
      /\ cmdl.force = IsGiven(args, "force")
  BY <1>1, CmdlOptions DEF Given
<1>4. OptionsTakeEffect
  BY <1>2, <1>3 DEF OptionsTakeEffect, OptionsFit, Given, CommandInv
<1>5. ASSUME cmdl.command \in {"load", "unload"}
      PROVE  cmdl.slot >= 1 /\ Typed(1, cmdl.slot) /\ Typed(3, cmdl.drive)
  <2>1. cmdl.slot = Arg(args, 1) /\ cmdl.drive = Arg(args, 3)
    BY <1>1, <1>3, <1>5, CmdlNumbers
  <2>2. Arg(args, 1) >= 1
    BY <1>2, <1>3, <1>5 DEF NumbersFit, NeedsNoMore, SlotFits
  <2>3. QED
    BY <2>1, <2>2, ArgIsTyped
<1>6. cmdl.command = "loaded" => Typed(3, cmdl.drive)
  BY <1>1, <1>3, CmdlNumbers, ArgIsTyped
<1>7. ASSUME cmdl.command = "createvols"
      PROVE  cmdl.count > 0 /\ Typed(1, cmdl.bay) /\ Typed(2, cmdl.count)
  <2>1. cmdl.bay = Arg(args, 1) /\ cmdl.count = Arg(args, 2)
    BY <1>1, <1>3, <1>7, CmdlNumbers
  <2>2. Arg(args, 2) > 0
    BY <1>2, <1>3, <1>7 DEF NumbersFit, NeedsNoMore, CountFits
  <2>3. QED
    BY <2>1, <2>2, ArgIsTyped
<1>8. QED
  BY <1>4, <1>5, <1>6, <1>7 DEF CommandIsAsTyped, CommandHasItsNumbers

(***************************************************************************)
(* No option of an accepted command line is ignored, and the command acts  *)
(* on the numbers that were typed as far as an int holds them: for any     *)
(* command line, configuration file and width of an int.                   *)
(***************************************************************************)
THEOREM CommandIsAsTypedHolds == Spec => []CommandIsAsTyped
BY CommandInvInit, CommandInvNext, CommandTyped, PTL DEF Spec

-----------------------------------------------------------------------------
(***************************************************************************)
(* The words of the atoms, read from left to right.                        *)
(***************************************************************************)
IsUpTo(f, s, m) ==
    f = [n \in 0..m |-> IF n = 0 THEN NoText
                        ELSE IF s[n].kind = "A" THEN Append(f[n - 1], s[n].word)
                        ELSE f[n - 1]]

LEMMA UpToExists ==
  ASSUME NEW s, NEW m \in Nat
  PROVE  \E f : IsUpTo(f, s, m)
<1> DEFINE Less == {ss \in Nat \X Nat : ss[1] < ss[2]}
           N == {n \in Nat : ~\E f : IsUpTo(f, s, n)}
<1>1. SUFFICES ASSUME N # {} PROVE FALSE
  OBVIOUS
<1>2. PICK n \in N : \A k \in N : ~(<<k, n>> \in Less)
  <2>1. IsWellFoundedOn(Less, Nat) /\ N \subseteq Nat
    BY NatLessThanWellFounded DEF OpToRel
  <2> HIDE DEF Less, N
  <2>2. QED
    BY <1>1, <2>1, WFMin
<1>3. CASE n = 0
  <2>1. IsUpTo([i \in 0..0 |-> NoText], s, 0)
    BY DEF IsUpTo
  <2>2. QED
    BY <1>3, <2>1
<1>4. CASE n # 0
  <2>1. n - 1 \in Nat /\ <<n - 1, n>> \in Less
    BY <1>4
  <2>2. PICK f : IsUpTo(f, s, n - 1)
    BY <1>2, <2>1
  <2> DEFINE last == IF s[n].kind = "A" THEN Append(f[n - 1], s[n].word) ELSE f[n - 1]
             g == [i \in 0..n |-> IF i = n THEN last ELSE f[i]]
  <2>3. \A i \in 0..n - 1 : f[i] = IF i = 0 THEN NoText
                                   ELSE IF s[i].kind = "A" THEN Append(f[i - 1], s[i].word)
                                   ELSE f[i - 1]
    BY <2>1, <2>2 DEF IsUpTo
  <2>4. \A i \in 0..n : g[i] = IF i = 0 THEN NoText
                               ELSE IF s[i].kind = "A" THEN Append(g[i - 1], s[i].word)
                               ELSE g[i - 1]
    <3>1. TAKE i \in 0..n
    <3>2. CASE i = n
      <4>1. g[i] = last /\ g[i - 1] = f[n - 1]
        BY <1>4, <3>2
      <4>2. QED
        BY <1>4, <3>2, <4>1
    <3>3. CASE i # n
      <4>1. i \in 0..n - 1 /\ g[i] = f[i]
        BY <3>3
      <4>2. i # 0 => g[i - 1] = f[i - 1]
        BY <3>3, <4>1
      <4>3. QED
        BY <2>3, <4>1, <4>2
    <3>4. QED
      BY <3>2, <3>3
  <2>5. IsUpTo(g, s, n)
    <3>1. g = [i \in 0..n |-> g[i]]
      OBVIOUS
    <3> HIDE DEF g
    <3>2. QED
      BY <2>4, <3>1 DEF IsUpTo
  <2>6. QED
    BY <2>5
<1>5. QED
  BY <1>3, <1>4

(* It depends on the tokens that were read only.                           *)
LEMMA UpToSame ==
  ASSUME NEW s, NEW u, NEW m \in Nat, NEW l \in Nat, m <= l,
         NEW f, IsUpTo(f, s, m), NEW g, IsUpTo(g, u, l),
         \A i \in 1..m : s[i] = u[i]
  PROVE  f[m] = g[m]
<1> DEFINE Less == {ss \in Nat \X Nat : ss[1] < ss[2]}
           N == {n \in 0..m : f[n] # g[n]}
<1>1. SUFFICES ASSUME N # {} PROVE FALSE
  OBVIOUS
<1>2. PICK n \in N : \A k \in N : ~(<<k, n>> \in Less)
  <2>1. IsWellFoundedOn(Less, Nat) /\ N \subseteq Nat
    BY NatLessThanWellFounded DEF OpToRel
  <2> HIDE DEF Less, N
  <2>2. QED
    BY <1>1, <2>1, WFMin
<1>3. n \in 0..m /\ n \in 0..l
  OBVIOUS
<1>4. CASE n = 0
  <2>1. f[n] = NoText /\ g[n] = NoText
    BY <1>3, <1>4 DEF IsUpTo
  <2>2. QED
    BY <2>1
<1>5. CASE n # 0
  <2>1. n - 1 \in 0..m /\ <<n - 1, n>> \in Less /\ n \in 1..m
    BY <1>3, <1>5
  <2>2. f[n - 1] = g[n - 1]
    BY <1>2, <2>1
  <2>3. /\ f[n] = IF s[n].kind = "A" THEN Append(f[n - 1], s[n].word) ELSE f[n - 1]
        /\ g[n] = IF u[n].kind = "A" THEN Append(g[n - 1], u[n].word) ELSE g[n - 1]
    BY <1>3, <1>5 DEF IsUpTo
  <2>4. QED
    BY <2>1, <2>2, <2>3
<1>6. QED
  BY <1>4, <1>5

LEMMA AtomWordsUpTo ==
  ASSUME NEW s, Len(s) \in Nat
  PROVE  \E f : IsUpTo(f, s, Len(s)) /\ AtomWords(s) = f[Len(s)]
<1>1. \E f : IsUpTo(f, s, Len(s))
  BY UpToExists
<1>2. QED
  BY <1>1 DEF AtomWords, IsUpTo

LEMMA AtomWordsOfNone == AtomWords(<< >>) = NoText
<1>1. Len(<< >>) = 0
  OBVIOUS
<1>2. PICK f : IsUpTo(f, << >>, 0) /\ AtomWords(<< >>) = f[0]
  BY <1>1, AtomWordsUpTo
<1>3. QED
  BY <1>2 DEF IsUpTo

LEMMA AtomWordsOfAppend ==
  ASSUME NEW s \in Seq(Token), NEW t \in Token
  PROVE  AtomWords(Append(s, t)) = IF t.kind = "A" THEN Append(AtomWords(s), t.word)
                                   ELSE AtomWords(s)
<1> DEFINE n == Len(s)  u == Append(s, t)
<1>1. /\ n \in Nat /\ Len(u) = n + 1 /\ u[n + 1] = t
      /\ \A i \in 1..n : s[i] = u[i]
  OBVIOUS
<1> HIDE DEF n, u
<1>2. PICK f : IsUpTo(f, s, n) /\ AtomWords(s) = f[n]
  BY <1>1, AtomWordsUpTo DEF n
<1>3. PICK g : IsUpTo(g, u, n + 1) /\ AtomWords(u) = g[n + 1]
  BY <1>1, AtomWordsUpTo
<1>4. f[n] = g[n]
  BY <1>1, <1>2, <1>3, UpToSame
<1>5. g[n + 1] = IF u[n + 1].kind = "A" THEN Append(g[n], u[n + 1].word) ELSE g[n]
  <2>1. PICK k : k = n + 1
    OBVIOUS
  <2>2. k \in 0..n + 1 /\ k # 0 /\ k - 1 = n
    BY <1>1, <2>1
  <2>3. g[k] = IF u[k].kind = "A" THEN Append(g[k - 1], u[k].word) ELSE g[k - 1]
    BY <1>3, <2>2 DEF IsUpTo
  <2>4. QED
    BY <2>1, <2>2, <2>3
<1>6. QED
  BY <1>1, <1>2, <1>3, <1>4, <1>5 DEF u

-----------------------------------------------------------------------------
(***************************************************************************)
(* What is written, by the places of its signs.                            *)
(***************************************************************************)
LEMMA SignKinds ==
  /\ Newline.kind = "\n" /\ Blank.kind = " " /\ Backslash.kind = "\\"
  /\ Equals.kind = "=" /\ Open.kind = "[" /\ Close.kind = "]"
  /\ Blank.word = " " /\ Equals.word = "="
BY DEF Newline, Blank, Backslash, Equals, Open, Close, Sign

LEMMA Kinds ==
  ASSUME NEW t \in Token
  PROVE  /\ t.kind \in {"\n", " ", "\\", "=", "[", "]", "A", "S"}
         /\ t.kind = "\n" <=> t = Newline
         /\ t.kind = " " <=> t = Blank
         /\ t.kind = "\\" <=> t = Backslash
         /\ t.kind = "=" <=> t = Equals
         /\ t.kind = "[" <=> t = Open
         /\ t.kind = "]" <=> t = Close
<1>1. CASE t \in {Newline, Blank, Backslash, Equals, Open, Close}
  BY <1>1, SignKinds
<1>2. CASE t \in {AtomToken(w) : w \in Atom} \cup {QuotedToken(w) : w \in Quoted}
  <2>1. t.kind \in {"A", "S"}
    BY <1>2 DEF AtomToken, QuotedToken
  <2>2. QED
    BY <2>1, SignKinds
<1>3. QED
  BY <1>1, <1>2 DEF Token

Blanks(s, a, b) == \A i \in a..b : s[i] = Blank
Name(s, a, b) == \A i \in a..b : s[i].kind \in {" ", "A"}
Assigns(s, e) == e \in 1..Len(s) /\ s[e] = Equals /\ Name(s, 1, e - 1)
Heads(s, o) == o \in 1..Len(s) /\ s[o] = Open /\ Blanks(s, 1, o - 1)
Lacks(s, t) == \A i \in 1..Len(s) : s[i] # t

LEMMA FirstSignAt ==
  ASSUME NEW s \in Seq(Token), NEW i \in 1..Len(s), s[i] # Blank, Blanks(s, 1, i - 1)
  PROVE  FirstSign(s) = i
<1> DEFINE I == {j \in 1..Len(s) : s[j] # Blank}
<1>1. FirstSign(s) = IF I # {} THEN Min(I) ELSE 0
  BY DEF FirstSign, SelectInSeq
<1>2. I \in SUBSET Nat /\ i \in I
  OBVIOUS
<1>3. Min(I) \in I /\ Min(I) <= i
  BY <1>2, FirstOf
<1>4. Min(I) = i
  BY <1>3 DEF Blanks
<1>5. QED
  BY <1>1, <1>2, <1>4

LEMMA NoFirstSign ==
  ASSUME NEW s \in Seq(Token), Blanks(s, 1, Len(s))
  PROVE  FirstSign(s) = 0 /\ LastSign(s) = 0
<1> DEFINE I == {j \in 1..Len(s) : s[j] # Blank}
<1>1. /\ FirstSign(s) = IF I # {} THEN Min(I) ELSE 0
      /\ LastSign(s) = IF I # {} THEN Max(I) ELSE 0
  BY DEF FirstSign, SelectInSeq, LastSign, SelectLastInSeq
<1>2. I = {}
  BY DEF Blanks
<1>3. QED
  BY <1>1, <1>2

LEMMA LastSignAt ==
  ASSUME NEW s \in Seq(Token), NEW i \in 1..Len(s), s[i] # Blank,
         Blanks(s, i + 1, Len(s))
  PROVE  LastSign(s) = i
<1> DEFINE I == {j \in 1..Len(s) : s[j] # Blank}
<1>1. LastSign(s) = IF I # {} THEN Max(I) ELSE 0
  BY DEF LastSign, SelectLastInSeq
<1>2. I \in SUBSET (0..Len(s)) /\ i \in I /\ Len(s) \in Nat
  OBVIOUS
<1>3. Max(I) \in I /\ Max(I) >= i
  BY <1>2, LastOf
<1>4. Max(I) = i
  BY <1>3 DEF Blanks
<1>5. QED
  BY <1>1, <1>2, <1>4

(* A line goes on if a backslash is the last thing on it.                  *)
LEMMA GoesOn ==
  ASSUME NEW s \in Seq(Token), NEW b \in 1..Len(s), s[b] = Backslash,
         Blanks(s, b + 1, Len(s))
  PROVE  Continues(s) /\ LastSign(s) = b
<1>1. Backslash # Blank
  BY DEF Backslash, Blank, Sign
<1>2. LastSign(s) = b
  BY <1>1, LastSignAt
<1>3. QED
  BY <1>2 DEF Continues

LEMMA GoesNotOn ==
  ASSUME NEW s \in Seq(Token), Lacks(s, Backslash)
  PROVE  ~Continues(s)
<1> DEFINE I == {j \in 1..Len(s) : s[j] # Blank}
<1>1. LastSign(s) = IF I # {} THEN Max(I) ELSE 0
  BY DEF LastSign, SelectLastInSeq
<1>2. I \in SUBSET (0..Len(s)) /\ Len(s) \in Nat
  OBVIOUS
<1>3. I # {} => Max(I) \in I
  BY <1>2, LastOf
<1>4. LastSign(s) # 0 => LastSign(s) \in 1..Len(s)
  BY <1>1, <1>3
<1>5. QED
  BY <1>4 DEF Continues, Lacks

LEMMA HasItsHeading ==
  ASSUME NEW s \in Seq(Token), NEW o, Heads(s, o)
  PROVE  HasHeading(s) /\ FirstSign(s) = o
<1>1. Open # Blank
  BY DEF Open, Blank, Sign
<1>2. FirstSign(s) = o
  BY <1>1, FirstSignAt DEF Heads
<1>3. QED
  BY <1>2 DEF HasHeading, Heads

(* What begins with anything else has none.                                *)
LEMMA HasNoHeading ==
  ASSUME NEW s \in Seq(Token), NEW i \in 1..Len(s), s[i] # Blank, Blanks(s, 1, i - 1),
         s[i] # Open
  PROVE  ~HasHeading(s)
BY FirstSignAt DEF HasHeading

LEMMA BlankHasNoHeading ==
  ASSUME NEW s \in Seq(Token), Blanks(s, 1, Len(s))
  PROVE  ~HasHeading(s)
BY NoFirstSign DEF HasHeading

LEMMA NamedHasNoHeading ==
  ASSUME NEW s \in Seq(Token), NEW i \in 1..Len(s), s[i] # Open, s[i] # Blank,
         Name(s, 1, i - 1)
  PROVE  ~HasHeading(s)
<1> DEFINE I == {j \in 1..Len(s) : s[j] # Blank}
<1>1. FirstSign(s) = IF I # {} THEN Min(I) ELSE 0
  BY DEF FirstSign, SelectInSeq
<1>2. I \in SUBSET Nat /\ i \in I
  OBVIOUS
<1>3. Min(I) \in I /\ Min(I) <= i
  BY <1>2, FirstOf
<1>4. FirstSign(s) \in 1..i
  BY <1>1, <1>2, <1>3
<1>5. \A j \in 1..i - 1 : s[j] # Open
  BY SignKinds DEF Name
<1>6. QED
  BY <1>4, <1>5 DEF HasHeading

LEMMA EqualsAtFirst ==
  ASSUME NEW s \in Seq(Token), NEW e \in 1..Len(s), s[e] = Equals,
         \A i \in 1..e - 1 : s[i] # Equals
  PROVE  EqualsAt(s) = e
<1> DEFINE I == {j \in 1..Len(s) : s[j] = Equals}
<1>1. EqualsAt(s) = IF I # {} THEN Min(I) ELSE 0
  BY DEF EqualsAt, SelectInSeq
<1>2. I \in SUBSET Nat /\ e \in I
  OBVIOUS
<1>3. Min(I) \in I /\ Min(I) <= e
  BY <1>2, FirstOf
<1>4. Min(I) = e
  BY <1>3
<1>5. QED
  BY <1>1, <1>2, <1>4

LEMMA EqualsNowhere ==
  ASSUME NEW s \in Seq(Token), Lacks(s, Equals)
  PROVE  EqualsAt(s) = 0
<1> DEFINE I == {j \in 1..Len(s) : s[j] = Equals}
<1>1. EqualsAt(s) = IF I # {} THEN Min(I) ELSE 0
  BY DEF EqualsAt, SelectInSeq
<1>2. I = {}
  BY DEF Lacks
<1>3. QED
  BY <1>1, <1>2

LEMMA NameLacks ==
  ASSUME NEW s, NEW a, NEW b, Name(s, a, b), NEW i \in a..b
  PROVE  s[i] \notin {Newline, Backslash, Equals, Open, Close}
BY SignKinds DEF Name

LEMMA AssignsAt ==
  ASSUME NEW s \in Seq(Token), NEW e, Assigns(s, e)
  PROVE  EqualsAt(s) = e /\ ~HasHeading(s)
<1>1. \A i \in 1..e - 1 : s[i] # Equals
  BY NameLacks DEF Assigns
<1>2. Equals # Open /\ Equals # Blank
  BY DEF Equals, Open, Blank, Sign
<1>3. QED
  BY <1>1, <1>2, EqualsAtFirst, NamedHasNoHeading DEF Assigns

(* Blanks before a text do not count.                                      *)
Word == {t.word : t \in Token}
Phrase == Seq(Word)

LEMMA BeginningAt ==
  ASSUME NEW u \in Phrase, NEW v \in Phrase, NEW k \in Nat, NEW a \in Nat, NEW b \in Nat,
         1 <= a, a <= b, b <= Len(v), Len(u) = k + Len(v),
         \A i \in 1..Len(v) : u[k + i] = v[i]
  PROVE  SubSeq(u, k + a, k + b) = SubSeq(v, a, b)
<1> DEFINE x == SubSeq(u, k + a, k + b)  y == SubSeq(v, a, b)
<1>1. x \in Phrase /\ Len(x) = b - a + 1 /\ \A i \in 1..b - a + 1 : x[i] = u[k + a + i - 1]
  BY SubSeqProperties DEF Phrase
<1>2. y \in Phrase /\ Len(y) = b - a + 1 /\ \A i \in 1..b - a + 1 : y[i] = v[a + i - 1]
  BY SubSeqProperties DEF Phrase
<1>3. \A i \in 1..b - a + 1 : x[i] = y[i]
  <2>1. TAKE i \in 1..b - a + 1
  <2>2. PICK j : j = a + i - 1
    OBVIOUS
  <2>3. j \in 1..Len(v) /\ k + a + i - 1 = k + j
    BY <2>2
  <2>4. QED
    BY <1>1, <1>2, <2>2, <2>3
<1> HIDE DEF x, y
<1>4. x = y
  BY <1>1, <1>2, <1>3, SeqEqual DEF Phrase
<1>5. QED
  BY <1>4 DEF x, y

Shown(w) == w \notin {"", " "}

LEMMA StrippedAgain ==
  ASSUME NEW u \in Phrase, NEW v \in Phrase, NEW k \in Nat, Len(u) = k + Len(v),
         \A i \in 1..k : ~Shown(u[i]),
         \A i \in 1..Len(v) : u[k + i] = v[i]
  PROVE  Stripped(u) = Stripped(v)
<1> DEFINE I == {i \in 1..Len(u) : Shown(u[i])}
           J == {i \in 1..Len(v) : Shown(v[i])}
<1>1. /\ Stripped(u) = IF (IF I # {} THEN Min(I) ELSE 0) = 0 THEN NoText
                       ELSE NonEmpty(SubSeq(u, IF I # {} THEN Min(I) ELSE 0,
                                               IF I # {} THEN Max(I) ELSE 0))
      /\ Stripped(v) = IF (IF J # {} THEN Min(J) ELSE 0) = 0 THEN NoText
                       ELSE NonEmpty(SubSeq(v, IF J # {} THEN Min(J) ELSE 0,
                                               IF J # {} THEN Max(J) ELSE 0))
  BY DEF Stripped, SelectInSeq, SelectLastInSeq, Shown
<1>2. Len(u) \in Nat /\ Len(v) \in Nat
  BY DEF Phrase
<1>3. \A j \in J : k + j \in I
  BY <1>2
<1>4. \A i \in I : i - k \in J
  <2>1. TAKE i \in I
  <2>2. i > k
    BY <1>2
  <2>3. PICK j : j = i - k
    OBVIOUS
  <2>4. j \in 1..Len(v) /\ i = k + j
    BY <1>2, <2>2, <2>3
  <2>5. u[k + j] = v[j]
    BY <2>4
  <2>6. QED
    BY <2>3, <2>4, <2>5
<1>5. CASE J = {}
  <2>1. I = {}
    BY <1>4, <1>5
  <2> HIDE DEF I, J
  <2>2. QED
    BY <1>1, <1>5, <2>1
<1>6. CASE J # {}
  <2>1. /\ I \in SUBSET Nat /\ I \in SUBSET (0..Len(u))
        /\ J \in SUBSET Nat /\ J \in SUBSET (0..Len(v)) /\ J \in SUBSET (1..Len(v))
    BY <1>2
  <2>2. I # {}
    BY <1>3, <1>6
  <2> HIDE DEF I, J
  <2>3. Min(I) \in I /\ \A i \in I : Min(I) <= i
    BY <2>1, <2>2, FirstOf
  <2>4. Max(I) \in I /\ \A i \in I : Max(I) >= i
    BY <1>2, <2>1, <2>2, LastOf
  <2>5. Min(J) \in J /\ \A j \in J : Min(J) <= j
    BY <1>6, <2>1, FirstOf
  <2>6. Max(J) \in J /\ \A j \in J : Max(J) >= j
    BY <1>2, <1>6, <2>1, LastOf
  <2>7. PICK a, b, c, d : a = Min(J) /\ b = Max(J) /\ c = Min(I) /\ d = Max(I)
    OBVIOUS
  <2>8. /\ a \in J /\ b \in J /\ c \in I /\ d \in I
        /\ \A j \in J : a <= j /\ b >= j
        /\ \A i \in I : c <= i /\ d >= i
    BY <2>3, <2>4, <2>5, <2>6, <2>7
  <2>9. /\ a \in Nat /\ b \in Nat /\ c \in Nat /\ d \in Nat
        /\ 1 <= a /\ b <= Len(v)
    BY <1>2, <2>1, <2>8
  <2>10. a <= b /\ c = k + a /\ d = k + b
    <3>1. c <= k + a /\ a <= c - k
      BY <1>3, <1>4, <2>8
    <3>2. d >= k + b /\ b >= d - k
      BY <1>3, <1>4, <2>8
    <3>3. a <= b
      BY <2>8
    <3>4. QED
      BY <2>9, <3>1, <3>2, <3>3
  <2>11. Stripped(u) = NonEmpty(SubSeq(u, k + a, k + b))
    BY <1>1, <2>2, <2>7, <2>9, <2>10
  <2>12. Stripped(v) = NonEmpty(SubSeq(v, a, b))
    BY <1>1, <1>6, <2>7, <2>9
  <2>13. SubSeq(u, k + a, k + b) = SubSeq(v, a, b)
    BY <2>9, <2>10, BeginningAt
  <2>14. QED
    BY <2>11, <2>12, <2>13
<1>7. QED
  BY <1>5, <1>6

LEMMA ValuesOfMore ==
  ASSUME NEW q \in Seq(Phrase), NEW v \in Phrase
  PROVE  Values(Append(q, v)) = Append(Values(q), Stripped(v))
<1> DEFINE x == Values(Append(q, v))  y == Append(Values(q), Stripped(v))
           Seen == {Stripped(w) : w \in Phrase}
<1>1. /\ Append(q, v) \in Seq(Phrase) /\ Len(Append(q, v)) = Len(q) + 1
      /\ Append(q, v)[Len(q) + 1] = v /\ \A i \in 1..Len(q) : Append(q, v)[i] = q[i]
  OBVIOUS
<1>2. Values(q) \in Seq(Seen) /\ Len(Values(q)) = Len(q)
      /\ \A i \in 1..Len(q) : Values(q)[i] = Stripped(q[i])
  <2>1. Values(q) = [i \in 1..Len(q) |-> Stripped(q[i])]
    BY DEF Values
  <2>2. \A i \in 1..Len(q) : Stripped(q[i]) \in Seen
    OBVIOUS
  <2> HIDE DEF Seen
  <2>3. QED
    BY <2>1, <2>2
<1>3. x \in Seq(Seen) /\ Len(x) = Len(q) + 1
      /\ \A i \in 1..Len(q) + 1 : x[i] = Stripped(Append(q, v)[i])
  <2>1. x = [i \in 1..Len(q) + 1 |-> Stripped(Append(q, v)[i])]
    BY <1>1 DEF Values
  <2>2. \A i \in 1..Len(q) + 1 : Stripped(Append(q, v)[i]) \in Seen
    BY <1>1
  <2> HIDE DEF Seen, x
  <2>3. QED
    BY <2>1, <2>2
<1>4. y \in Seq(Seen) /\ Len(y) = Len(q) + 1 /\ y[Len(q) + 1] = Stripped(v)
      /\ \A i \in 1..Len(q) : y[i] = Values(q)[i]
  <2>1. Stripped(v) \in Seen
    OBVIOUS
  <2> HIDE DEF Seen
  <2>2. QED
    BY <1>2, <2>1
<1>5. \A i \in 1..Len(q) + 1 : x[i] = y[i]
  <2>1. TAKE i \in 1..Len(q) + 1
  <2>2. CASE i = Len(q) + 1
    <3>1. x[i] = Stripped(v)
      BY <1>1, <1>3, <2>2
    <3>2. QED
      BY <1>4, <2>2, <3>1
  <2>3. CASE i \in 1..Len(q)
    <3>1. x[i] = Stripped(q[i])
      BY <1>1, <1>3, <2>3
    <3>2. QED
      BY <1>2, <1>4, <2>3, <3>1
  <2>4. i = Len(q) + 1 \/ i \in 1..Len(q)
    <3>1. Len(q) \in Nat
      OBVIOUS
    <3>2. QED
      BY <3>1
  <2>5. QED
    BY <2>2, <2>3, <2>4
<1> HIDE DEF x, y, Seen
<1>6. x = y
  BY <1>3, <1>4, <1>5, SeqEqual
<1>7. QED
  BY <1>6 DEF x, y

(* Tokens that follow, and what was there before.                          *)
LEMMA Appended ==
  ASSUME NEW s \in Seq(Token), NEW t \in Token
  PROVE  /\ Append(s, t) \in Seq(Token) /\ Len(Append(s, t)) = Len(s) + 1
         /\ Append(s, t)[Len(s) + 1] = t
         /\ \A i \in 1..Len(s) : Append(s, t)[i] = s[i]
OBVIOUS

LEMMA PartOf ==
  ASSUME NEW s \in Seq(Token), NEW a \in 1..Len(s) + 1, NEW b \in 0..Len(s), a <= b + 1
  PROVE  /\ SubSeq(s, a, b) \in Seq(Token) /\ Len(SubSeq(s, a, b)) = b + 1 - a
         /\ \A i \in 1..b + 1 - a : SubSeq(s, a, b)[i] = s[a + i - 1]
<1>1. /\ a \in Int /\ b \in Int /\ a \in Nat \ {0} /\ b \in Nat
      /\ \A i \in a..b : i \in 1..Len(s)
  OBVIOUS
<1>2. \A i \in a..b : s[i] \in Token
  BY <1>1
<1>3. SubSeq(s, a, b) \in Seq(Token)
  BY <1>1, <1>2, SubSeqProperties
<1>4. Len(SubSeq(s, a, b)) = IF a <= b THEN b - a + 1 ELSE 0
  BY <1>1, <1>2, SubSeqProperties
<1>5. \A i \in 1..b - a + 1 : SubSeq(s, a, b)[i] = s[a + i - 1]
  BY <1>1, <1>2, SubSeqProperties
<1>6. b - a + 1 = b + 1 - a /\ (~(a <= b) => b + 1 - a = 0)
  BY <1>1
<1>7. QED
  BY <1>3, <1>4, <1>5, <1>6

LEMMA SamePart ==
  ASSUME NEW s \in Seq(Token), NEW u \in Seq(Token), NEW a \in 1..Len(s) + 1,
         NEW b \in 0..Len(s), a <= b + 1, b <= Len(u), a <= Len(u) + 1,
         \A i \in a..b : s[i] = u[i]
  PROVE  SubSeq(s, a, b) = SubSeq(u, a, b)
<1> DEFINE x == SubSeq(s, a, b)  y == SubSeq(u, a, b)  l == b + 1 - a
<1>1. x \in Seq(Token) /\ Len(x) = l /\ \A i \in 1..l : x[i] = s[a + i - 1]
  BY PartOf
<1>2. y \in Seq(Token) /\ Len(y) = l /\ \A i \in 1..l : y[i] = u[a + i - 1]
  BY PartOf
<1>3. \A i \in 1..l : x[i] = y[i]
  <2>1. TAKE i \in 1..l
  <2>2. PICK j : j = a + i - 1
    OBVIOUS
  <2>3. j \in a..b
    BY <2>2
  <2>4. QED
    BY <1>1, <1>2, <2>2, <2>3
<1> HIDE DEF x, y
<1>4. x = y
  BY <1>1, <1>2, <1>3, SeqEqual
<1>5. QED
  BY <1>4 DEF x, y

LEMMA PartOfMore ==
  ASSUME NEW s \in Seq(Token), NEW t \in Token, NEW a \in 1..Len(s) + 1
  PROVE  SubSeq(Append(s, t), a, Len(s) + 1) = Append(SubSeq(s, a, Len(s)), t)
<1> DEFINE n == Len(s)  u == Append(s, t)  x == SubSeq(u, a, n + 1)
           p == SubSeq(s, a, n)  y == Append(p, t)
<1>0. n \in Nat /\ a \in 1..n + 1
  OBVIOUS
<1>1. /\ u \in Seq(Token) /\ Len(u) = n + 1 /\ u[n + 1] = t
      /\ \A i \in 1..n : u[i] = s[i]
  BY Appended
<1>2. p \in Seq(Token) /\ Len(p) = n + 1 - a /\ \A i \in 1..n + 1 - a : p[i] = s[a + i - 1]
  BY <1>0, PartOf
<1> HIDE DEF n, u, p
<1>3. x \in Seq(Token) /\ Len(x) = n + 2 - a
      /\ \A i \in 1..n + 2 - a : x[i] = u[a + i - 1]
  <2>1. a \in 1..Len(u) + 1 /\ n + 1 \in 0..Len(u) /\ a <= n + 1 + 1
    BY <1>0, <1>1
  <2>2. n + 1 + 1 - a = n + 2 - a
    BY <1>0
  <2>3. QED
    BY <1>1, <2>1, <2>2, PartOf
<1>4. y \in Seq(Token) /\ Len(y) = n + 2 - a /\ y[n + 2 - a] = t
      /\ \A i \in 1..n + 1 - a : y[i] = p[i]
  <2>1. Len(p) + 1 = n + 2 - a
    BY <1>0, <1>2
  <2>2. QED
    BY <1>2, <2>1, Appended
<1>5. \A i \in 1..n + 2 - a : x[i] = y[i]
  <2>1. TAKE i \in 1..n + 2 - a
  <2>2. PICK j : j = a + i - 1
    OBVIOUS
  <2>3. CASE i = n + 2 - a
    <3>1. j = n + 1
      BY <1>0, <2>2, <2>3
    <3>2. QED
      BY <1>1, <1>3, <1>4, <2>2, <2>3, <3>1
  <2>4. CASE i # n + 2 - a
    <3>1. i \in 1..n + 1 - a /\ j \in 1..n
      BY <1>0, <2>2, <2>4
    <3>2. x[i] = s[j] /\ y[i] = s[j]
      BY <1>1, <1>2, <1>3, <1>4, <2>2, <3>1
    <3>3. QED
      BY <3>2
  <2>5. QED
    BY <2>3, <2>4
<1> HIDE DEF x, y
<1>6. x = y
  BY <1>3, <1>4, <1>5, SeqEqual
<1>7. QED
  BY <1>6 DEF x, y, u, p, n

(* What the statements say.                                                *)
LEMMA SaysNothing ==
  ASSUME NEW s \in Seq(Token), Lacks(s, Equals), NEW before
  PROVE  ~IsSetting(s) /\ Say(before, s) = before
BY EqualsNowhere DEF IsSetting, Say

KeyOf(s, e) == AtomWords(SubSeq(s, 1, e - 1))

LEMMA SaysSomething ==
  ASSUME NEW s \in Seq(Token), NEW e, Assigns(s, e), KeyOf(s, e) \in Keyword,
         \A i \in e + 1..Len(s) : s[i] # Backslash
  PROVE  /\ IsSetting(s)
         /\ AtomWords(Left(s)) = KeyOf(s, e)
         /\ Right(s) \in Seq(Token) /\ Len(Right(s)) = Len(s) - e
         /\ \A i \in 1..Len(s) - e : Right(s)[i] = s[e + i]
<1>1. EqualsAt(s) = e /\ e \in 1..Len(s) /\ Len(s) \in Nat
  BY AssignsAt DEF Assigns
<1>2. /\ Left(s) = SubSeq(s, 1, e - 1) /\ Left(s) \in Seq(Token) /\ Len(Left(s)) = e - 1
      /\ \A i \in 1..e - 1 : Left(s)[i] = s[i]
  <2>1. Left(s) = SubSeq(s, 1, e - 1)
    BY <1>1 DEF Left
  <2>2. 1 \in 1..Len(s) + 1 /\ e - 1 \in 0..Len(s) /\ 1 <= e - 1 + 1 /\ e - 1 + 1 - 1 = e - 1
    BY <1>1
  <2>3. \A i \in 1..e - 1 : 1 + i - 1 = i
    BY <1>1
  <2>4. QED
    BY <2>1, <2>2, <2>3, PartOf
<1>3. /\ Right(s) \in Seq(Token) /\ Len(Right(s)) = Len(s) - e
      /\ \A i \in 1..Len(s) - e : Right(s)[i] = s[e + i]
  <2>1. Right(s) = SubSeq(s, e + 1, Len(s))
    BY <1>1 DEF Right
  <2>2. /\ e + 1 \in 1..Len(s) + 1 /\ Len(s) \in 0..Len(s) /\ e + 1 <= Len(s) + 1
        /\ Len(s) + 1 - (e + 1) = Len(s) - e
    BY <1>1
  <2>3. \A i \in 1..Len(s) - e : e + 1 + i - 1 = e + i
    BY <1>1
  <2>4. QED
    BY <2>1, <2>2, <2>3, PartOf
<1>4. \A i \in DOMAIN Left(s) : Left(s)[i].kind \in {" ", "A"}
  <2>1. DOMAIN Left(s) = 1..e - 1
    BY <1>2
  <2>2. QED
    BY <1>2, <2>1 DEF Assigns, Name
<1>5. \A i \in DOMAIN Right(s) : Right(s)[i] # Backslash
  <2>1. DOMAIN Right(s) = 1..Len(s) - e
    BY <1>3
  <2>2. \A i \in 1..Len(s) - e : e + i \in e + 1..Len(s)
    BY <1>1
  <2>3. QED
    BY <1>3, <2>1, <2>2
<1>6. EqualsAt(s) # 0
  BY <1>1
<1>7. AtomWords(Left(s)) = KeyOf(s, e)
  BY <1>2 DEF KeyOf
<1>8. QED
  BY <1>3, <1>4, <1>5, <1>6, <1>7 DEF IsSetting

LEMMA SaysClear ==
  ASSUME NEW s \in Seq(Token), NEW e, Assigns(s, e), KeyOf(s, e) \in Keyword,
         Blanks(s, e + 1, Len(s)), NEW before
  PROVE  IsSetting(s) /\ Say(before, s) = [before EXCEPT ![KeyOf(s, e)] = << >>]
<1>1. \A i \in e + 1..Len(s) : s[i] # Backslash
  BY SignKinds DEF Blanks
<1>2. /\ IsSetting(s) /\ AtomWords(Left(s)) = KeyOf(s, e)
      /\ Right(s) \in Seq(Token) /\ Len(Right(s)) = Len(s) - e
      /\ \A i \in 1..Len(s) - e : Right(s)[i] = s[e + i]
  BY <1>1, SaysSomething
<1>3. IsBlank(Right(s))
  <2>1. DOMAIN Right(s) = 1..Len(s) - e
    BY <1>2
  <2>2. \A i \in 1..Len(s) - e : e + i \in e + 1..Len(s)
    BY DEF Assigns
  <2>3. QED
    BY <1>2, <2>1, <2>2 DEF IsBlank, Blanks
<1>4. QED
  BY <1>2, <1>3 DEF Say

Holds(s, e, f, m, v) ==
    /\ f \in e + 1..m /\ Blanks(s, e + 1, f - 1) /\ s[f] # Blank
    /\ \A i \in f..m : s[i] # Backslash
    /\ v \in Phrase /\ Len(v) = m + 1 - f
    /\ \A i \in 1..Len(v) : v[i] = s[f + i - 1].word

LEMMA SaysValue ==
  ASSUME NEW s \in Seq(Token), NEW e, Assigns(s, e), KeyOf(s, e) \in Keyword,
         NEW f, NEW v, Holds(s, e, f, Len(s), v), NEW before
  PROVE  /\ IsSetting(s)
         /\ Say(before, s) = [before EXCEPT ![KeyOf(s, e)] =
                                  IF KeyOf(s, e) \in List THEN Append(@, Stripped(v))
                                  ELSE <<Stripped(v)>>]
<1>0. /\ e \in 1..Len(s) /\ Len(s) \in Nat /\ f \in e + 1..Len(s) /\ s[f] # Blank
      /\ \A i \in e + 1..f - 1 : s[i] = Blank
      /\ v \in Phrase /\ Len(v) = Len(s) + 1 - f
      /\ \A i \in 1..Len(v) : v[i] = s[f + i - 1].word
  BY DEF Assigns, Holds, Blanks
<1>1. \A i \in e + 1..Len(s) : s[i] # Backslash
  <2>1. Blank # Backslash
    BY SignKinds
  <2>2. \A i \in e + 1..Len(s) : i \in e + 1..f - 1 \/ i \in f..Len(s)
    BY <1>0
  <2>3. QED
    BY <1>0, <2>1, <2>2 DEF Holds
<1>2. /\ IsSetting(s) /\ AtomWords(Left(s)) = KeyOf(s, e)
      /\ Right(s) \in Seq(Token) /\ Len(Right(s)) = Len(s) - e
      /\ \A i \in 1..Len(s) - e : Right(s)[i] = s[e + i]
  BY <1>1, SaysSomething
<1>3. ~IsBlank(Right(s))
  <2>1. DOMAIN Right(s) = 1..Len(s) - e
    BY <1>2
  <2>2. PICK j : j = f - e
    OBVIOUS
  <2>3. j \in 1..Len(s) - e /\ e + j = f
    BY <1>0, <2>2
  <2>4. QED
    BY <1>0, <1>2, <2>1, <2>3 DEF IsBlank
<1>4. Stripped(Words(Right(s))) = Stripped(v)
  <2> DEFINE u == Words(Right(s))  k == f - (e + 1)
  <2>1. u = [i \in 1..Len(s) - e |-> Right(s)[i].word]
    BY <1>2 DEF Words
  <2>2. \A i \in 1..Len(s) - e : Right(s)[i].word \in Word
    BY <1>2 DEF Word
  <2>3. u \in Phrase /\ Len(u) = Len(s) - e /\ \A i \in 1..Len(s) - e : u[i] = s[e + i].word
    <3>1. Len(s) - e \in Nat
      BY <1>0
    <3>2. u \in Phrase /\ Len(u) = Len(s) - e
      BY <2>1, <2>2, <3>1 DEF Phrase
    <3>3. \A i \in 1..Len(s) - e : u[i] = s[e + i].word
      BY <1>2, <2>1
    <3>4. QED
      BY <3>2, <3>3
  <2>4. k \in Nat /\ Len(u) = k + Len(v)
    BY <1>0, <2>3
  <2>5. \A i \in 1..k : ~Shown(u[i])
    <3>1. ~Shown(Blank.word)
      BY SignKinds DEF Shown
    <3>2. \A i \in 1..k : e + i \in e + 1..f - 1 /\ i \in 1..Len(s) - e
      BY <1>0
    <3>3. QED
      BY <1>0, <2>3, <3>1, <3>2
  <2>6. \A i \in 1..Len(v) : u[k + i] = v[i]
    <3>1. TAKE i \in 1..Len(v)
    <3>2. PICK j : j = k + i
      OBVIOUS
    <3>3. j \in 1..Len(s) - e /\ e + j = f + i - 1
      BY <1>0, <3>2
    <3>4. QED
      BY <1>0, <2>3, <3>2, <3>3
  <2> HIDE DEF u, k
  <2>7. Stripped(u) = Stripped(v)
    BY <1>0, <2>3, <2>4, <2>5, <2>6, StrippedAgain
  <2>8. QED
    BY <2>7 DEF u
<1>5. QED
  BY <1>2, <1>3, <1>4 DEF Say

-----------------------------------------------------------------------------
(***************************************************************************)
(* The inductive invariant: in each state of the machine, what the line is *)
(* up to here, and which part of it the keyword and the value are.         *)
(***************************************************************************)
Here == Len(line)

Keyed(e) == Assigns(line, e) /\ KeyOf(line, e) = key /\ key \in Keyword
Broken(b) == b \in 1..Here /\ line[b] = Backslash /\ Blanks(line, b + 1, Here)
HasAtom(a, b) == \E i \in a..b : line[i].kind = "A"

LineInv ==
    /\ state = "start" => Blanks(line, 1, Here) /\ AtomWords(line) = NoText
    /\ state = "keyword" => Name(line, 1, Here) /\ HasAtom(1, Here) /\ AtomWords(line) = key
    /\ state = "before" => \E e : Keyed(e) /\ Blanks(line, e + 1, Here)
    /\ state = "value" => \E e, f : Keyed(e) /\ Holds(line, e, f, Here, val)
    /\ state = "before\\" =>
           \E e, b : /\ Keyed(e) /\ e < b /\ Blanks(line, e + 1, b - 1)
                     /\ Broken(b)
    /\ state = "value\\" =>
           \E e, f, b : /\ Keyed(e) /\ Holds(line, e, f, b - 1, val)
                        /\ Broken(b)
    /\ state = "heading" =>
           \E o : /\ Heads(line, o) /\ Blanks(line, o + 1, Here)
                  /\ AtomWords(SubSeq(line, o + 1, Here)) = NoText
    /\ state = "section" =>
           \E o : /\ Heads(line, o) /\ Name(line, o + 1, Here) /\ HasAtom(o + 1, Here)
                  /\ AtomWords(SubSeq(line, o + 1, Here)) = key
                  /\ key \in Phrase /\ key # NoText

FileInv ==
    /\ line \in Seq(Token)
    /\ setting \in [Keyword -> Seq(Phrase)] /\ DOMAIN meant = Keyword
    /\ \A k \in Keyword : Values(setting[k]) = meant[k]
    /\ LineInv

LEMMA ValuesOfNone == Values(<< >>) = << >>
BY DEF Values

(* How the line goes on.                                                   *)
LEMMA WriteMore ==
  ASSUME NEW t, Write(t), ~Ends(t), t # Newline
  PROVE  line' = Append(line, t) /\ meant' = meant
BY DEF Write

LEMMA WriteEnds ==
  ASSUME NEW t, Write(t), Ends(t), state' # "refused"
  PROVE  line' = << >> /\ meant' = Say(meant, Statement)
BY DEF Write

LEMMA WriteGoesOn ==
  ASSUME Write(Newline), Continues(line), state' # "refused"
  PROVE  line' = SubSeq(line, 1, LastSign(line) - 1) /\ meant' = meant
<1>1. Newline # Close
  BY SignKinds
<1>2. QED
  BY <1>1 DEF Write, Ends, Closes

LEMMA NoHeadingNoClose ==
  ASSUME NEW t, ~HasHeading(line)
  PROVE  (Ends(t) <=> t = Newline /\ ~Continues(line)) /\ Statement = line
BY DEF Ends, Closes, Statement

(* With nothing left of a statement, the next one begins.                  *)
LEMMA FileInvAtStart ==
  ASSUME FileInv, state' = "start", line' = << >>,
         setting' \in [Keyword -> Seq(Phrase)], DOMAIN meant' = Keyword,
         \A k \in Keyword : Values(setting'[k]) = meant'[k]
  PROVE  FileInv'
<1>1. << >> \in Seq(Token) /\ Len(<< >>) = 0
  OBVIOUS
<1>2. Blanks(line', 1, Here')
  BY <1>1 DEF Blanks, Here
<1>3. AtomWords(line') = NoText
  BY AtomWordsOfNone
<1>4. LineInv'
  BY <1>2, <1>3 DEF LineInv
<1>5. QED
  BY <1>1, <1>4 DEF FileInv

LEMMA FileInvAtEnd ==
  ASSUME FileInv, state' \in {"read", "refused", "unreadable"}, line' \in Seq(Token),
         setting' \in [Keyword -> Seq(Phrase)], DOMAIN meant' = Keyword,
         \A k \in Keyword : Values(setting'[k]) = meant'[k]
  PROVE  FileInv'
BY DEF FileInv, LineInv

(* Before the sign, and in a heading, nothing is said.                     *)
LEMMA RefusedKeeps ==
  ASSUME FileInv, NEW t \in Token, Write(t), state' = "refused", UNCHANGED setting,
         Lacks(line, Equals) \/ (t # Newline /\ ~HasHeading(line))
  PROVE  FileInv'
<1>1. line \in Seq(Token) /\ line' = Append(line, t) /\ line' \in Seq(Token)
  BY DEF FileInv, Write
<1>2. meant' = IF Ends(t) THEN Say(meant, Statement) ELSE meant
  BY DEF Write
<1>3. CASE t # Newline /\ ~HasHeading(line)
  <2>1. meant' = meant
    BY <1>2, <1>3, NoHeadingNoClose
  <2>2. QED
    BY <1>1, <2>1, FileInvAtEnd DEF FileInv
<1>4. CASE Lacks(line, Equals)
  <2>1. Close \in Token /\ Close # Equals
    BY SignKinds DEF Token
  <2>2. Statement \in Seq(Token) /\ Lacks(Statement, Equals)
    <3>1. Append(line, Close) \in Seq(Token) /\ Lacks(Append(line, Close), Equals)
      BY <1>1, <1>4, <2>1, Appended DEF Lacks
    <3>2. QED
      BY <1>1, <1>4, <3>1 DEF Statement
  <2>3. meant' = meant
    BY <1>2, <2>2, SaysNothing
  <2>4. QED
    BY <1>1, <2>3, FileInvAtEnd DEF FileInv
<1>5. QED
  BY <1>3, <1>4

(* What does not end a statement.                                          *)
LEMMA FileInvGoesOn ==
  ASSUME FileInv, line' \in Seq(Token), UNCHANGED <<setting, meant>>, LineInv'
  PROVE  FileInv'
BY DEF FileInv

LEMMA StartKeeps ==
  ASSUME FileInv, NEW t \in Token, Start(t), Write(t)
  PROVE  FileInv'
<1>1. /\ state = "start" /\ line \in Seq(Token) /\ Here \in Nat
      /\ Blanks(line, 1, Here) /\ AtomWords(line) = NoText
  BY DEF Start, From, FileInv, LineInv, Here
<1>2. Lacks(line, Equals) /\ Lacks(line, Backslash)
  BY <1>1, SignKinds DEF Blanks, Lacks, Here
<1>3. ~HasHeading(line) /\ ~Continues(line)
  BY <1>1, <1>2, BlankHasNoHeading, GoesNotOn DEF Here
<1>4. CASE t = Newline
  <2>1. state' = "start" /\ UNCHANGED setting
    BY <1>1, <1>4, SignKinds DEF Start, Skip
  <2>2. line' = << >> /\ meant' = Say(meant, line)
    BY <1>3, <1>4, <2>1, NoHeadingNoClose, WriteEnds
  <2>3. meant' = meant
    BY <1>1, <1>2, <2>2, SaysNothing
  <2>4. QED
    BY <2>1, <2>2, <2>3, FileInvAtStart DEF FileInv
<1>5. CASE t # Newline
  <2>1. line' = Append(line, t) /\ meant' = meant
    BY <1>3, <1>5, NoHeadingNoClose, WriteMore
  <2>2. /\ line' \in Seq(Token) /\ Here' = Here + 1 /\ line'[Here + 1] = t
        /\ \A i \in 1..Here : line'[i] = line[i]
    BY <1>1, <2>1, Appended DEF Here
  <2>3. AtomWords(line') = IF t.kind = "A" THEN Append(AtomWords(line), t.word)
                           ELSE AtomWords(line)
    BY <1>1, <2>1, AtomWordsOfAppend
  <2>4. CASE t = Blank
    <3>1. state' = "start" /\ UNCHANGED setting
      BY <1>1, <2>4, SignKinds DEF Start, Skip
    <3>2. Blanks(line', 1, Here')
      BY <1>1, <2>2, <2>4 DEF Blanks
    <3>3. AtomWords(line') = NoText
      BY <1>1, <2>3, <2>4, SignKinds
    <3>4. LineInv'
      BY <3>1, <3>2, <3>3 DEF LineInv
    <3>5. QED
      BY <2>1, <2>2, <3>1, <3>4, FileInvGoesOn
  <2>5. CASE t = Open
    <3>1. state' = "heading" /\ UNCHANGED setting
      BY <2>5, SignKinds DEF Start, GoTo
    <3>2. Heads(line', Here + 1) /\ Blanks(line', Here + 1 + 1, Here')
      BY <1>1, <2>2, <2>5 DEF Heads, Blanks, Here
    <3>3. SubSeq(line', Here + 1 + 1, Here') = << >>
      BY <1>1, <2>2, SubSeqEmpty
    <3>4. AtomWords(SubSeq(line', Here + 1 + 1, Here')) = NoText
      BY <3>3, AtomWordsOfNone
    <3>5. LineInv'
      BY <3>1, <3>2, <3>4 DEF LineInv
    <3>6. QED
      BY <2>1, <2>2, <3>1, <3>5, FileInvGoesOn
  <2>6. CASE t.kind = "A"
    <3>1. state' = "keyword" /\ key' = <<t.word>> /\ UNCHANGED setting
      BY <2>6, SignKinds DEF Start, GoTo
    <3>2. AtomWords(line') = key'
      BY <1>1, <2>3, <2>6, <3>1 DEF NoText
    <3>3. Name(line', 1, Here')
      <4>1. \A i \in 1..Here : line'[i].kind = " "
        BY <1>1, <2>2, SignKinds DEF Blanks
      <4>2. \A i \in 1..Here' : i \in 1..Here \/ i = Here + 1
        BY <1>1, <2>2
      <4>3. QED
        BY <2>2, <2>6, <4>1, <4>2 DEF Name
    <3>4. HasAtom(1, Here)'
      BY <1>1, <2>2, <2>6 DEF HasAtom
    <3>5. LineInv'
      BY <3>1, <3>2, <3>3, <3>4 DEF LineInv
    <3>6. QED
      BY <2>1, <2>2, <3>1, <3>5, FileInvGoesOn
  <2>7. CASE t # Blank /\ t # Open /\ t.kind # "A"
    <3>1. state' = "refused" /\ UNCHANGED setting
      BY <1>5, <2>7 DEF Start, Refuse, GoTo
    <3>2. QED
      BY <1>2, <3>1, RefusedKeeps
  <2>8. QED
    BY <2>4, <2>5, <2>6, <2>7
<1>6. QED
  BY <1>4, <1>5

LEMMA AssignsStays ==
  ASSUME NEW s \in Seq(Token), NEW u \in Seq(Token), NEW e, Assigns(s, e),
         NEW m \in Nat, e <= m, m <= Len(s), m <= Len(u),
         \A i \in 1..m : u[i] = s[i]
  PROVE  Assigns(u, e) /\ KeyOf(u, e) = KeyOf(s, e)
<1>1. e \in 1..m /\ e \in 1..Len(s) /\ e \in 1..Len(u) /\ Len(s) \in Nat /\ Len(u) \in Nat
  BY DEF Assigns
<1>2. Assigns(u, e)
  <2>1. \A i \in 1..e - 1 : i \in 1..m
    BY <1>1
  <2>2. QED
    BY <1>1, <2>1 DEF Assigns, Name
<1>3. SubSeq(s, 1, e - 1) = SubSeq(u, 1, e - 1)
  <2>1. /\ 1 \in 1..Len(s) + 1 /\ e - 1 \in 0..Len(s) /\ 1 <= e - 1 + 1
        /\ e - 1 <= Len(u) /\ 1 <= Len(u) + 1
    BY <1>1
  <2>2. \A i \in 1..e - 1 : s[i] = u[i]
    BY <1>1
  <2>3. QED
    BY <2>1, <2>2, SamePart
<1>4. QED
  BY <1>2, <1>3 DEF KeyOf

LEMMA HoldsStays ==
  ASSUME NEW s \in Seq(Token), NEW u, NEW e \in Nat, NEW f, NEW m \in Nat, NEW v,
         Holds(s, e, f, m, v), \A i \in 1..m : u[i] = s[i]
  PROVE  Holds(u, e, f, m, v)
<1>1. f \in e + 1..m /\ f \in Nat /\ v \in Phrase /\ Len(v) = m + 1 - f
  BY DEF Holds
<1>2. (\A i \in e + 1..f - 1 : i \in 1..m) /\ \A i \in f..m : i \in 1..m
  BY <1>1
<1>3. Blanks(u, e + 1, f - 1) /\ u[f] # Blank /\ \A i \in f..m : u[i] # Backslash
  <2>1. Blanks(u, e + 1, f - 1)
    BY <1>2 DEF Holds, Blanks
  <2>2. u[f] # Blank
    <3>1. f \in 1..m
      BY <1>1
    <3>2. QED
      BY <3>1 DEF Holds
  <2>3. \A i \in f..m : u[i] # Backslash
    BY <1>2 DEF Holds
  <2>4. QED
    BY <2>1, <2>2, <2>3
<1>4. \A i \in 1..Len(v) : v[i] = u[f + i - 1].word
  <2>1. TAKE i \in 1..Len(v)
  <2>2. PICK j : j = f + i - 1
    OBVIOUS
  <2>3. j \in 1..m
    BY <1>1, <2>2
  <2>4. QED
    BY <2>2, <2>3 DEF Holds
<1>5. QED
  BY <1>1, <1>3, <1>4 DEF Holds

LEMMA ValueIsCleared ==
  ASSUME FileInv, key \in Keyword, ClearSetting, meant' = [meant EXCEPT ![key] = << >>]
  PROVE  /\ setting' \in [Keyword -> Seq(Phrase)] /\ DOMAIN meant' = Keyword
         /\ \A k \in Keyword : Values(setting'[k]) = meant'[k]
<1>1. << >> \in Seq(Phrase)
  OBVIOUS
<1>2. setting' \in [Keyword -> Seq(Phrase)] /\ DOMAIN meant' = Keyword
  BY <1>1 DEF FileInv, ClearSetting
<1>3. \A k \in Keyword : Values(setting'[k]) = meant'[k]
  <2>1. TAKE k \in Keyword
  <2>2. CASE k = key
    <3>1. setting'[k] = << >> /\ meant'[k] = << >>
      BY <2>2 DEF FileInv, ClearSetting
    <3>2. QED
      BY <3>1, ValuesOfNone
  <2>3. CASE k # key
    BY <2>3 DEF FileInv, ClearSetting
  <2>4. QED
    BY <2>2, <2>3
<1>4. QED
  BY <1>2, <1>3

LEMMA ValueIsSet ==
  ASSUME FileInv, key \in Keyword, val \in Phrase, SetValue,
         meant' = [meant EXCEPT ![key] = IF key \in List THEN Append(@, Stripped(val))
                                         ELSE <<Stripped(val)>>]
  PROVE  /\ setting' \in [Keyword -> Seq(Phrase)] /\ DOMAIN meant' = Keyword
         /\ \A k \in Keyword : Values(setting'[k]) = meant'[k]
<1>1. setting[key] \in Seq(Phrase) /\ Values(setting[key]) = meant[key]
  BY DEF FileInv
<1>2. Append(setting[key], val) \in Seq(Phrase) /\ <<val>> \in Seq(Phrase)
  BY <1>1
<1>3. setting' \in [Keyword -> Seq(Phrase)] /\ DOMAIN meant' = Keyword
  <2>1. CASE key \in List
    BY <1>2, <2>1 DEF FileInv, SetValue
  <2>2. CASE key \notin List
    BY <1>2, <2>2 DEF FileInv, SetValue
  <2>3. QED
    BY <2>1, <2>2
<1>4. Values(setting'[key]) = meant'[key]
  <2>1. CASE key \in List
    <3>1. setting'[key] = Append(setting[key], val)
          /\ meant'[key] = Append(meant[key], Stripped(val))
      BY <2>1 DEF FileInv, SetValue
    <3>2. QED
      BY <1>1, <3>1, ValuesOfMore
  <2>2. CASE key \notin List
    <3>1. setting'[key] = <<val>> /\ meant'[key] = <<Stripped(val)>>
      BY <2>2 DEF FileInv, SetValue
    <3>2. Values(<<val>>) = <<Stripped(val)>>
      BY DEF Values
    <3>3. QED
      BY <3>1, <3>2
  <2>3. QED
    BY <2>1, <2>2
<1>5. \A k \in Keyword \ {key} : Values(setting'[k]) = meant'[k]
  BY DEF FileInv, SetValue
<1>6. QED
  BY <1>3, <1>4, <1>5

LEMMA KeywordKeeps ==
  ASSUME FileInv, NEW t \in Token, ReadKeyword(t), Write(t)
  PROVE  FileInv'
<1>1. /\ state = "keyword" /\ line \in Seq(Token) /\ Here \in Nat /\ Here = Len(line)
      /\ Name(line, 1, Here) /\ HasAtom(1, Here) /\ AtomWords(line) = key
  BY DEF ReadKeyword, From, FileInv, LineInv, Here
<1>2. Lacks(line, Equals) /\ Lacks(line, Backslash)
  BY <1>1, NameLacks DEF Lacks
<1>3. ~HasHeading(line) /\ ~Continues(line)
  <2>1. PICK i \in 1..Here : line[i].kind = "A"
    BY <1>1 DEF HasAtom
  <2>2. line[i] # Open /\ line[i] # Blank
    BY <2>1, SignKinds
  <2>3. Name(line, 1, i - 1)
    <3>1. \A j \in 1..i - 1 : j \in 1..Here
      BY <1>1
    <3>2. QED
      BY <1>1, <3>1 DEF Name
  <2>4. QED
    BY <1>1, <1>2, <2>2, <2>3, NamedHasNoHeading, GoesNotOn
<1>4. CASE state' = "refused"
  <2>1. UNCHANGED setting
    BY <1>1, <1>4 DEF ReadKeyword, Refuse, Skip, GoTo
  <2>2. QED
    BY <1>2, <1>4, <2>1, RefusedKeeps
<1>5. CASE state' # "refused"
  <2>1. \/ t = Blank /\ UNCHANGED <<state, key, setting>>
        \/ t.kind = "A" /\ key' = Append(key, t.word) /\ UNCHANGED <<state, setting>>
        \/ t = Equals /\ key \in Keyword /\ state' = "before" /\ UNCHANGED <<key, setting>>
    BY <1>5 DEF ReadKeyword, Refuse, Skip, GoTo
  <2>2. t # Newline
    BY <2>1, SignKinds
  <2>3. line' = Append(line, t) /\ meant' = meant
    BY <1>3, <2>2, NoHeadingNoClose, WriteMore
  <2>4. /\ line' \in Seq(Token) /\ Here' = Here + 1 /\ line'[Here + 1] = t
        /\ \A i \in 1..Here : line'[i] = line[i]
    BY <1>1, <2>3, Appended DEF Here
  <2>5. AtomWords(line') = IF t.kind = "A" THEN Append(AtomWords(line), t.word)
                           ELSE AtomWords(line)
    BY <1>1, <2>3, AtomWordsOfAppend
  <2>6. t.kind \in {" ", "A"} => Name(line', 1, Here') /\ HasAtom(1, Here)'
    <3>1. \A i \in 1..Here' : i \in 1..Here \/ i = Here + 1
      BY <1>1, <2>4
    <3>2. \A i \in 1..Here : i \in 1..Here'
      BY <1>1, <2>4
    <3>3. QED
      BY <1>1, <2>4, <3>1, <3>2 DEF Name, HasAtom
  <2>7. CASE t = Blank /\ UNCHANGED <<state, key, setting>>
    <3>1. AtomWords(line') = key'
      BY <1>1, <2>5, <2>7, SignKinds
    <3>2. LineInv'
      BY <1>1, <2>6, <2>7, <3>1, SignKinds DEF LineInv
    <3>3. QED
      BY <2>3, <2>4, <2>7, <3>2, FileInvGoesOn
  <2>8. CASE t.kind = "A" /\ key' = Append(key, t.word) /\ UNCHANGED <<state, setting>>
    <3>1. AtomWords(line') = key'
      BY <1>1, <2>5, <2>8
    <3>2. LineInv'
      BY <1>1, <2>6, <2>8, <3>1 DEF LineInv
    <3>3. QED
      BY <2>3, <2>4, <2>8, <3>2, FileInvGoesOn
  <2>9. CASE t = Equals /\ key \in Keyword /\ state' = "before" /\ UNCHANGED <<key, setting>>
    <3> DEFINE e == Here + 1
    <3>1. e - 1 = Here /\ e \in 1..Len(line') /\ line'[e] = Equals /\ Here' = e /\ e \in Nat
      BY <1>1, <2>4, <2>9 DEF Here
    <3>2. Assigns(line', e) /\ Blanks(line', e + 1, Here')
      <4>1. Name(line', 1, Here)
        BY <1>1, <2>4 DEF Name
      <4> HIDE DEF e
      <4>2. Assigns(line', e)
        BY <3>1, <4>1 DEF Assigns
      <4>3. Blanks(line', e + 1, Here')
        BY <3>1 DEF Blanks
      <4>4. QED
        BY <4>2, <4>3
    <3>3. SubSeq(line', 1, Here) = SubSeq(line, 1, Here)
      <4>1. 1 \in 1..Len(line') + 1 /\ Here \in 0..Len(line') /\ 1 <= Here + 1
            /\ Here <= Len(line) /\ 1 <= Len(line) + 1
        BY <1>1, <2>4 DEF Here
      <4>2. QED
        BY <1>1, <2>4, <4>1, SamePart
    <3>4. SubSeq(line, 1, Here) = line
      BY <1>1
    <3> HIDE DEF e
    <3>5. KeyOf(line', e) = key
      BY <1>1, <3>1, <3>3, <3>4 DEF KeyOf
    <3>6. LineInv'
      BY <2>9, <3>2, <3>5 DEF LineInv, Keyed
    <3>7. QED
      BY <2>3, <2>4, <2>9, <3>6, FileInvGoesOn
  <2>10. QED
    BY <2>1, <2>7, <2>8, <2>9
<1>6. QED
  BY <1>4, <1>5

(* Of a line that assigns something.                                       *)
LEMMA InSetting ==
  ASSUME FileInv, NEW e, Keyed(e)
  PROVE  /\ line \in Seq(Token) /\ Here = Len(line) /\ Here \in Nat
         /\ e \in Nat /\ e \in 1..Here /\ Assigns(line, e)
         /\ KeyOf(line, e) = key /\ key \in Keyword
         /\ ~HasHeading(line)
         /\ \A i \in 1..e : line[i] # Backslash
<1>1. line \in Seq(Token) /\ Here = Len(line) /\ Here \in Nat
  BY DEF FileInv, Here
<1>2. Assigns(line, e) /\ KeyOf(line, e) = key /\ key \in Keyword
  BY DEF Keyed
<1>3. e \in 1..Here /\ e \in Nat /\ line[e] = Equals /\ Name(line, 1, e - 1)
  BY <1>1, <1>2 DEF Assigns
<1>4. ~HasHeading(line)
  BY <1>1, <1>2, AssignsAt
<1>5. \A i \in 1..e : line[i] # Backslash
  <2>1. \A i \in 1..e : i = e \/ i \in 1..e - 1
    BY <1>3
  <2>2. Equals # Backslash
    BY SignKinds
  <2>3. QED
    BY <1>3, <2>1, <2>2, NameLacks
<1>6. QED
  BY <1>1, <1>2, <1>3, <1>4, <1>5

LEMMA KeyedStays ==
  ASSUME FileInv, NEW e, Keyed(e), line' \in Seq(Token), UNCHANGED key,
         NEW m \in Nat, e <= m, m <= Here, m <= Len(line'),
         \A i \in 1..m : line'[i] = line[i]
  PROVE  Keyed(e)'
<1>1. /\ line \in Seq(Token) /\ Here = Len(line) /\ Assigns(line, e)
      /\ KeyOf(line, e) = key /\ key \in Keyword
  BY InSetting
<1>2. Assigns(line', e) /\ KeyOf(line', e) = KeyOf(line, e)
  BY <1>1, AssignsStays
<1>3. QED
  BY <1>1, <1>2 DEF Keyed

(* One more token of it.                                                   *)
LEMMA MoreOfSetting ==
  ASSUME FileInv, NEW t \in Token, NEW e, Keyed(e), line' = Append(line, t), UNCHANGED key
  PROVE  /\ line' \in Seq(Token) /\ Here' = Here + 1 /\ Here' \in Nat /\ line'[Here + 1] = t
         /\ \A i \in 1..Here : line'[i] = line[i]
         /\ Keyed(e)'
<1>1. line \in Seq(Token) /\ Here = Len(line) /\ Here \in Nat /\ e \in 1..Here
  BY InSetting
<1>2. /\ line' \in Seq(Token) /\ Len(line') = Here + 1 /\ line'[Here + 1] = t
      /\ \A i \in 1..Here : line'[i] = line[i]
  BY <1>1, Appended
<1>3. Here' = Here + 1 /\ Here' \in Nat
  BY <1>1, <1>2 DEF Here
<1>4. e <= Here /\ Here <= Len(line')
  BY <1>1, <1>2
<1>5. Keyed(e)'
  BY <1>1, <1>2, <1>4, KeyedStays
<1>6. QED
  BY <1>2, <1>3, <1>5

LEMMA BeforeKeeps ==
  ASSUME FileInv, NEW t \in Token, Before(t), Write(t)
  PROVE  FileInv'
<1>1. PICK e : Keyed(e) /\ Blanks(line, e + 1, Here)
  BY DEF Before, From, FileInv, LineInv
<1>2. /\ line \in Seq(Token) /\ Here = Len(line) /\ Here \in Nat
      /\ e \in Nat /\ e \in 1..Here /\ Assigns(line, e)
      /\ KeyOf(line, e) = key /\ key \in Keyword
      /\ ~HasHeading(line)
      /\ \A i \in 1..e : line[i] # Backslash
  BY <1>1, InSetting
<1>3. ~Continues(line)
  <2>1. \A i \in 1..Here : i \in 1..e \/ i \in e + 1..Here
    BY <1>2
  <2>2. Lacks(line, Backslash)
    BY <1>1, <1>2, <2>1, SignKinds DEF Lacks, Blanks
  <2>3. QED
    BY <1>2, <2>2, GoesNotOn
<1>4. CASE t = Newline
  <2>1. state' = "start" /\ ClearSetting
    BY <1>4, SignKinds DEF Before, GoTo
  <2>2. line' = << >> /\ meant' = Say(meant, line)
    BY <1>2, <1>3, <1>4, <2>1, NoHeadingNoClose, WriteEnds
  <2>3. meant' = [meant EXCEPT ![key] = << >>]
    BY <1>1, <1>2, <2>2, SaysClear
  <2>4. QED
    BY <1>2, <2>1, <2>2, <2>3, ValueIsCleared, FileInvAtStart
<1>5. CASE t # Newline
  <2>1. line' = Append(line, t) /\ meant' = meant
    BY <1>2, <1>5, NoHeadingNoClose, WriteMore
  <2>2. UNCHANGED <<key, setting>>
    BY <1>5 DEF Before, Skip
  <2>3. /\ line' \in Seq(Token) /\ Here' = Here + 1 /\ Here' \in Nat /\ line'[Here + 1] = t
        /\ \A i \in 1..Here : line'[i] = line[i]
        /\ Keyed(e)'
    BY <1>1, <2>1, <2>2, MoreOfSetting
  <2>4. Blanks(line', e + 1, Here)
    <3>1. \A i \in e + 1..Here : i \in 1..Here
      BY <1>2
    <3>2. QED
      BY <1>1, <2>3, <3>1 DEF Blanks
  <2>5. CASE t = Blank
    <3>1. UNCHANGED state /\ state = "before"
      BY <2>5, SignKinds DEF Before, Skip, From
    <3>2. Blanks(line', e + 1, Here')
      <4>1. \A i \in e + 1..Here' : i \in e + 1..Here \/ i = Here + 1
        BY <1>2, <2>3
      <4>2. QED
        BY <2>3, <2>4, <2>5, <4>1 DEF Blanks
    <3>3. LineInv'
      BY <2>3, <3>1, <3>2 DEF LineInv
    <3>4. QED
      BY <2>1, <2>2, <2>3, <3>3, FileInvGoesOn
  <2>6. CASE t = Backslash
    <3>1. state' = "before\\"
      BY <2>6, SignKinds DEF Before, GoTo
    <3>0. PICK b : b = Here + 1
      OBVIOUS
    <3>2. b \in 1..Here' /\ e < b /\ b - 1 = Here /\ b \in Nat /\ Here' = b
      BY <1>2, <2>3, <3>0
    <3>3. line'[b] = Backslash
      BY <2>3, <2>6, <3>0
    <3>4. Blanks(line', e + 1, b - 1) /\ Blanks(line', b + 1, Here')
      <4>1. Blanks(line', b + 1, Here')
        BY <3>2 DEF Blanks
      <4>2. QED
        BY <2>4, <3>2, <4>1
    <3>5. Broken(b)'
      BY <3>2, <3>3, <3>4 DEF Broken
    <3>6. LineInv'
      BY <2>3, <3>1, <3>2, <3>4, <3>5 DEF LineInv
    <3>7. QED
      BY <2>1, <2>2, <2>3, <3>6, FileInvGoesOn
  <2>7. CASE t # Blank /\ t # Backslash
    <3>1. state' = "value" /\ val' = <<t.word>>
      BY <1>5, <2>7 DEF Before, GoTo
    <3> DEFINE f == Here + 1
    <3>2. /\ f \in e + 1..Here' /\ f - 1 = Here /\ f \in Nat /\ Here' = f
          /\ Here' + 1 - f = 1 /\ \A i \in f..Here' : i = f
      BY <1>2, <2>3
    <3>3. line'[f] = t
      BY <2>3
    <3> HIDE DEF f
    <3>4. t.word \in Word
      BY DEF Word
    <3>5. val' \in Phrase /\ Len(val') = 1 /\ val'[1] = t.word
      BY <3>1, <3>4 DEF Phrase
    <3>6. \A i \in 1..Len(val') : val'[i] = line'[f + i - 1].word
      <4>1. \A i \in 1..Len(val') : i = 1 /\ f + i - 1 = f
        BY <3>2, <3>5
      <4>2. QED
        BY <3>3, <3>5, <4>1
    <3>7. \A i \in f..Here' : line'[i] # Backslash
      BY <2>7, <3>2, <3>3
    <3>8. Holds(line', e, f, Here', val')
      BY <2>4, <2>7, <3>2, <3>3, <3>5, <3>6, <3>7 DEF Holds
    <3>9. LineInv'
      BY <2>3, <3>1, <3>8 DEF LineInv
    <3>10. QED
      BY <2>1, <2>2, <2>3, <3>9, FileInvGoesOn
  <2>8. QED
    BY <2>5, <2>6, <2>7
<1>6. QED
  BY <1>4, <1>5

LEMMA ValueKeeps ==
  ASSUME FileInv, NEW t \in Token, Value(t), Write(t)
  PROVE  FileInv'
<1>1. PICK e, f : Keyed(e) /\ Holds(line, e, f, Here, val)
  BY DEF Value, From, FileInv, LineInv
<1>2. /\ line \in Seq(Token) /\ Here = Len(line) /\ Here \in Nat
      /\ e \in Nat /\ e \in 1..Here /\ Assigns(line, e)
      /\ KeyOf(line, e) = key /\ key \in Keyword
      /\ ~HasHeading(line)
      /\ \A i \in 1..e : line[i] # Backslash
  BY <1>1, InSetting
<1>3. /\ f \in e + 1..Here /\ f \in Nat /\ val \in Phrase /\ Len(val) = Here + 1 - f
      /\ \A i \in f..Here : line[i] # Backslash
      /\ Blanks(line, e + 1, f - 1)
      /\ \A i \in 1..Len(val) : val[i] = line[f + i - 1].word
  BY <1>1, <1>2 DEF Holds
<1>4. ~Continues(line)
  <2>1. \A i \in 1..Here : i \in 1..e \/ i \in e + 1..f - 1 \/ i \in f..Here
    BY <1>2, <1>3
  <2>2. Lacks(line, Backslash)
    BY <1>2, <1>3, <2>1, SignKinds DEF Lacks, Blanks
  <2>3. QED
    BY <1>2, <2>2, GoesNotOn
<1>5. CASE t = Newline
  <2>1. state' = "start" /\ SetValue
    BY <1>5, SignKinds DEF Value, GoTo
  <2>2. line' = << >> /\ meant' = Say(meant, line)
    BY <1>2, <1>4, <1>5, <2>1, NoHeadingNoClose, WriteEnds
  <2>3. meant' = [meant EXCEPT ![key] = IF key \in List THEN Append(@, Stripped(val))
                                        ELSE <<Stripped(val)>>]
    BY <1>1, <1>2, <2>2, SaysValue
  <2>4. QED
    BY <1>2, <1>3, <2>1, <2>2, <2>3, ValueIsSet, FileInvAtStart
<1>6. CASE t # Newline
  <2>1. line' = Append(line, t) /\ meant' = meant
    BY <1>2, <1>6, NoHeadingNoClose, WriteMore
  <2>2. UNCHANGED <<key, setting>>
    BY <1>6 DEF Value
  <2>3. /\ line' \in Seq(Token) /\ Here' = Here + 1 /\ Here' \in Nat /\ line'[Here + 1] = t
        /\ \A i \in 1..Here : line'[i] = line[i]
        /\ Keyed(e)'
    BY <1>1, <2>1, <2>2, MoreOfSetting
  <2>4. Holds(line', e, f, Here, val)
    BY <1>1, <1>2, <2>3, HoldsStays
  <2>5. CASE t = Backslash
    <3>1. state' = "value\\" /\ UNCHANGED val
      BY <2>5, SignKinds DEF Value, GoTo
    <3>0. PICK b : b = Here + 1
      OBVIOUS
    <3>2. b \in 1..Here' /\ b - 1 = Here /\ b \in Nat /\ Here' = b
      BY <1>2, <2>3, <3>0
    <3>3. line'[b] = Backslash
      BY <2>3, <2>5, <3>0
    <3>4. Broken(b)'
      BY <3>2, <3>3 DEF Broken, Blanks
    <3>5. Holds(line', e, f, b - 1, val')
      BY <2>4, <3>1, <3>2
    <3>6. LineInv'
      BY <2>3, <3>1, <3>4, <3>5 DEF LineInv
    <3>7. QED
      BY <2>1, <2>2, <2>3, <3>6, FileInvGoesOn
  <2>6. CASE t # Backslash
    <3>1. state' = "value" /\ val' = Append(val, t.word)
      BY <1>6, <2>6 DEF Value, From
    <3>2. t.word \in Word
      BY DEF Word
    <3>3. /\ val' \in Phrase /\ Len(val') = Len(val) + 1 /\ val'[Len(val) + 1] = t.word
          /\ \A i \in 1..Len(val) : val'[i] = val[i]
      BY <1>3, <3>1, <3>2 DEF Phrase
    <3>4. f \in e + 1..Here' /\ Len(val') = Here' + 1 - f
      BY <1>2, <1>3, <2>3, <3>3
    <3>5. \A i \in 1..Len(val') : val'[i] = line'[f + i - 1].word
      <4>1. TAKE i \in 1..Len(val')
      <4>2. CASE i = Len(val) + 1
        <5>1. f + i - 1 = Here + 1
          <6>1. PICK l : l = Len(val)
            OBVIOUS
          <6>2. l = Here + 1 - f /\ i = l + 1 /\ f \in Nat /\ Here \in Nat
            BY <1>2, <1>3, <4>2, <6>1
          <6>3. QED
            BY <6>2
        <5>2. QED
          BY <2>3, <3>3, <4>2, <5>1
      <4>3. CASE i # Len(val) + 1
        <5>1. i \in 1..Len(val)
          <6>1. PICK l : l = Len(val)
            OBVIOUS
          <6>2. l \in Nat
            BY <1>2, <1>3, <6>1
          <6>3. i \in 1..l + 1 /\ i # l + 1
            BY <3>3, <4>3, <6>1
          <6>4. i \in 1..l
            BY <6>2, <6>3
          <6>5. QED
            BY <6>1, <6>4
        <5>2. val[i] = line'[f + i - 1].word
          BY <2>4, <5>1 DEF Holds
        <5>3. QED
          BY <3>3, <5>1, <5>2
      <4>4. QED
        BY <4>2, <4>3
    <3>6. \A i \in f..Here' : line'[i] # Backslash
      <4>1. \A i \in f..Here' : i \in f..Here \/ i = Here + 1
        BY <1>2, <1>3, <2>3
      <4>2. QED
        BY <2>3, <2>4, <2>6, <4>1 DEF Holds
    <3>7. Holds(line', e, f, Here', val')
      BY <2>4, <3>3, <3>4, <3>5, <3>6 DEF Holds
    <3>8. LineInv'
      BY <2>3, <3>1, <3>7 DEF LineInv
    <3>9. QED
      BY <2>1, <2>2, <2>3, <3>8, FileInvGoesOn
  <2>7. QED
    BY <2>5, <2>6
<1>7. QED
  BY <1>5, <1>6

(* A line that goes on: without its backslash, what it was before it.      *)
LEMMA GoneOn ==
  ASSUME FileInv, NEW e, Keyed(e), NEW b, Broken(b), e < b,
         Write(Newline), state' # "refused", UNCHANGED key
  PROVE  /\ line' \in Seq(Token) /\ Here' = b - 1 /\ meant' = meant
         /\ \A i \in 1..b - 1 : line'[i] = line[i]
         /\ Keyed(e)'
<1>1. /\ line \in Seq(Token) /\ Here = Len(line) /\ Here \in Nat
      /\ e \in Nat /\ e \in 1..Here
  BY InSetting
<1>2. b \in 1..Here /\ line[b] = Backslash /\ Blanks(line, b + 1, Here)
  BY DEF Broken
<1>3. Continues(line) /\ LastSign(line) = b
  BY <1>1, <1>2, GoesOn
<1>4. line' = SubSeq(line, 1, b - 1) /\ meant' = meant
  BY <1>3, WriteGoesOn
<1>5. /\ b - 1 \in 0..Len(line) /\ 1 \in 1..Len(line) + 1 /\ 1 <= b - 1 + 1
      /\ b - 1 + 1 - 1 = b - 1 /\ \A i \in Nat : 1 + i - 1 = i
      /\ b - 1 \in Nat /\ e <= b - 1 /\ b - 1 <= Here
  BY <1>1, <1>2
<1>6. /\ line' \in Seq(Token) /\ Len(line') = b - 1
      /\ \A i \in 1..b - 1 : line'[i] = line[i]
  <2> DEFINE c == b - 1
  <2>1. /\ SubSeq(line, 1, c) \in Seq(Token) /\ Len(SubSeq(line, 1, c)) = c + 1 - 1
        /\ \A i \in 1..c + 1 - 1 : SubSeq(line, 1, c)[i] = line[1 + i - 1]
    BY <1>1, <1>5, PartOf
  <2>2. c \in Nat /\ c + 1 - 1 = c
    BY <1>5
  <2> HIDE DEF c
  <2>3. line' = SubSeq(line, 1, c)
    BY <1>4 DEF c
  <2>4. \A i \in 1..c : 1 + i - 1 = i
    BY <2>2
  <2>5. line' \in Seq(Token) /\ Len(line') = c /\ \A i \in 1..c : line'[i] = line[i]
    BY <2>1, <2>2, <2>3, <2>4
  <2>6. QED
    BY <2>5 DEF c
<1>7. Keyed(e)'
  <2>1. PICK c : c = b - 1
    OBVIOUS
  <2>2. c \in Nat /\ e <= c /\ c <= Here /\ c <= Len(line')
    BY <1>5, <1>6, <2>1
  <2>3. \A i \in 1..c : line'[i] = line[i]
    BY <1>6, <2>1
  <2>4. QED
    BY <1>6, <2>2, <2>3, KeyedStays
<1>8. QED
  BY <1>4, <1>6, <1>7 DEF Here

LEMMA ContinueKeeps ==
  ASSUME FileInv, NEW t \in Token, Continue(t), Write(t)
  PROVE  FileInv'
<1>1. PICK e, b : /\ Keyed(e) /\ Broken(b) /\ e < b
                  /\ \/ state = "before\\" /\ Blanks(line, e + 1, b - 1)
                     \/ state = "value\\" /\ \E f : Holds(line, e, f, b - 1, val)
  <2>1. CASE state = "before\\"
    BY <2>1 DEF FileInv, LineInv
  <2>2. CASE state = "value\\"
    <3>1. PICK e, f, b : Keyed(e) /\ Holds(line, e, f, b - 1, val) /\ Broken(b)
      BY <2>2 DEF FileInv, LineInv
    <3>2. e < b
      <4>1. e \in Nat /\ Here \in Nat
        BY <3>1, InSetting
      <4>2. b \in 1..Here /\ f \in e + 1..b - 1
        BY <3>1 DEF Broken, Holds
      <4>3. QED
        BY <4>1, <4>2
    <3>3. QED
      BY <2>2, <3>1, <3>2
  <2>3. QED
    BY <2>1, <2>2 DEF Continue
<1>2. /\ line \in Seq(Token) /\ Here = Len(line) /\ Here \in Nat
      /\ e \in Nat /\ e \in 1..Here /\ ~HasHeading(line)
      /\ b \in 1..Here /\ b \in Nat /\ line[b] = Backslash /\ Blanks(line, b + 1, Here)
  BY <1>1, InSetting DEF Broken
<1>3. CASE t = Newline
  <2>1. /\ state' = IF state = "value\\" THEN "value" ELSE "before"
        /\ UNCHANGED <<key, val, setting>>
    BY <1>3, SignKinds DEF Continue, GoTo, From
  <2>2. /\ line' \in Seq(Token) /\ Here' = b - 1 /\ meant' = meant
        /\ \A i \in 1..b - 1 : line'[i] = line[i]
        /\ Keyed(e)'
    BY <1>1, <1>3, <2>1, GoneOn
  <2>3. CASE state = "before\\" /\ Blanks(line, e + 1, b - 1)
    <3>1. \A i \in e + 1..b - 1 : i \in 1..b - 1
      BY <1>2
    <3>2. Blanks(line', e + 1, Here')
      BY <2>2, <2>3, <3>1 DEF Blanks
    <3>3. LineInv'
      BY <2>1, <2>2, <2>3, <3>2 DEF LineInv
    <3>4. QED
      BY <2>1, <2>2, <3>3, FileInvGoesOn
  <2>4. CASE state = "value\\" /\ \E f : Holds(line, e, f, b - 1, val)
    <3>1. PICK f : Holds(line, e, f, b - 1, val)
      BY <2>4
    <3>2. b - 1 \in Nat
      BY <1>2
    <3>3. Holds(line', e, f, b - 1, val)
      BY <1>2, <2>2, <3>1, <3>2, HoldsStays
    <3>4. Holds(line', e, f, Here', val')
      BY <2>1, <2>2, <3>3
    <3>5. LineInv'
      BY <2>1, <2>2, <2>4, <3>4 DEF LineInv
    <3>6. QED
      BY <2>1, <2>2, <3>5, FileInvGoesOn
  <2>5. QED
    BY <1>1, <2>3, <2>4
<1>4. CASE t = Blank
  <2>1. UNCHANGED <<state, key, val, setting>> /\ t # Newline
    BY <1>4, SignKinds DEF Continue, Skip
  <2>2. line' = Append(line, t) /\ meant' = meant
    BY <1>2, <2>1, NoHeadingNoClose, WriteMore
  <2>3. /\ line' \in Seq(Token) /\ Here' = Here + 1 /\ Here' \in Nat
        /\ line'[Here + 1] = t /\ \A i \in 1..Here : line'[i] = line[i]
        /\ Keyed(e)'
    BY <1>1, <2>1, <2>2, MoreOfSetting
  <2>4. Broken(b)'
    <3>1. \A i \in b + 1..Here' : i = Here + 1 \/ (i \in 1..Here /\ i \in b + 1..Here)
      BY <1>2, <2>3
    <3>2. Blanks(line', b + 1, Here')
      BY <1>2, <1>4, <2>3, <3>1 DEF Blanks
    <3>3. b \in 1..Here'
      BY <1>2, <2>3
    <3>4. QED
      BY <1>2, <2>3, <3>2, <3>3 DEF Broken
  <2>5. b - 1 \in Nat /\ \A i \in 1..b - 1 : line'[i] = line[i]
    <3>1. b - 1 \in Nat /\ \A i \in 1..b - 1 : i \in 1..Here
      BY <1>2
    <3>2. QED
      BY <2>3, <3>1
  <2>6. CASE state = "before\\" /\ Blanks(line, e + 1, b - 1)
    <3>1. \A i \in e + 1..b - 1 : i \in 1..b - 1
      BY <1>2
    <3>2. Blanks(line', e + 1, b - 1)
      BY <2>5, <2>6, <3>1 DEF Blanks
    <3>3. LineInv'
      BY <1>1, <2>1, <2>3, <2>4, <2>6, <3>2 DEF LineInv
    <3>4. QED
      BY <2>1, <2>2, <2>3, <3>3, FileInvGoesOn
  <2>7. CASE state = "value\\" /\ \E f : Holds(line, e, f, b - 1, val)
    <3>1. PICK f : Holds(line, e, f, b - 1, val)
      BY <2>7
    <3>2. Holds(line', e, f, b - 1, val)
      BY <1>2, <2>5, <3>1, HoldsStays
    <3>3. Holds(line', e, f, b - 1, val')
      BY <2>1, <3>2
    <3>4. LineInv'
      BY <2>1, <2>3, <2>4, <2>7, <3>3 DEF LineInv
    <3>5. QED
      BY <2>1, <2>2, <2>3, <3>4, FileInvGoesOn
  <2>8. QED
    BY <1>1, <2>6, <2>7
<1>5. CASE t # Newline /\ t # Blank
  <2>1. state' = "refused" /\ UNCHANGED setting
    BY <1>5 DEF Continue, Refuse, GoTo
  <2>2. QED
    BY <1>2, <1>5, <2>1, RefusedKeeps
<1>6. QED
  BY <1>3, <1>4, <1>5

(* In a heading.                                                           *)
InHeading(o) == Heads(line, o) /\ Name(line, o + 1, Here)

LEMMA HeadingLacks ==
  ASSUME FileInv, NEW o, InHeading(o)
  PROVE  /\ line \in Seq(Token) /\ Here = Len(line) /\ Here \in Nat
         /\ o \in Nat /\ o \in 1..Here
         /\ HasHeading(line) /\ Lacks(line, Equals) /\ Lacks(line, Backslash)
<1>1. line \in Seq(Token) /\ Here = Len(line) /\ Here \in Nat
  BY DEF FileInv, Here
<1>2. /\ o \in 1..Here /\ o \in Nat /\ line[o] = Open /\ Blanks(line, 1, o - 1)
      /\ Name(line, o + 1, Here)
  BY <1>1 DEF InHeading, Heads
<1>3. HasHeading(line)
  BY <1>1, HasItsHeading DEF InHeading
<1>4. \A i \in 1..Here : i \in 1..o - 1 \/ i = o \/ i \in o + 1..Here
  BY <1>1, <1>2
<1>5. \A i \in 1..Here : line[i] # Equals /\ line[i] # Backslash
  <2>1. TAKE i \in 1..Here
  <2>2. CASE i \in 1..o - 1
    BY <1>2, <2>2, SignKinds DEF Blanks
  <2>3. CASE i = o
    BY <1>2, <2>3, SignKinds
  <2>4. CASE i \in o + 1..Here
    BY <1>2, <2>4, NameLacks
  <2>5. QED
    BY <1>4, <2>2, <2>3, <2>4
<1>6. QED
  BY <1>1, <1>2, <1>3, <1>5 DEF Lacks

OfName(t) == t.kind \in {" ", "A"}

LEMMA MoreOfHeading ==
  ASSUME FileInv, NEW t \in Token, NEW o, InHeading(o), Write(t), OfName(t)
  PROVE  /\ line' = Append(line, t) /\ meant' = meant /\ line' \in Seq(Token)
         /\ Heads(line', o) /\ Here' = Here + 1 /\ line'[Here + 1] = t
         /\ \A i \in 1..Here : line'[i] = line[i]
         /\ Name(line', o + 1, Here')
         /\ AtomWords(SubSeq(line', o + 1, Here')) =
                IF t.kind = "A" THEN Append(AtomWords(SubSeq(line, o + 1, Here)), t.word)
                ELSE AtomWords(SubSeq(line, o + 1, Here))
<1>1. /\ line \in Seq(Token) /\ Here = Len(line) /\ Here \in Nat
      /\ o \in Nat /\ o \in 1..Here
      /\ line[o] = Open /\ Blanks(line, 1, o - 1) /\ Name(line, o + 1, Here)
  BY HeadingLacks DEF InHeading, Heads
<1>2. t # Newline /\ t # Close
  BY SignKinds DEF OfName
<1>3. line' = Append(line, t) /\ meant' = meant
  BY <1>2, WriteMore DEF Ends, Closes
<1>4. /\ line' \in Seq(Token) /\ Len(line') = Here + 1 /\ line'[Here + 1] = t
      /\ \A i \in 1..Here : line'[i] = line[i]
  BY <1>1, <1>3, Appended
<1>5. Here' = Here + 1
  BY <1>4 DEF Here
<1>6. Heads(line', o)
  <2>1. \A i \in 1..o - 1 : i \in 1..Here
    BY <1>1
  <2>2. o \in 1..Len(line')
    BY <1>1, <1>4
  <2>3. QED
    BY <1>1, <1>4, <2>1, <2>2 DEF Heads, Blanks
<1>7. Name(line', o + 1, Here')
  <2>1. \A i \in o + 1..Here' : i = Here + 1 \/ (i \in 1..Here /\ i \in o + 1..Here)
    BY <1>1, <1>5
  <2>2. QED
    BY <1>1, <1>4, <2>1 DEF Name, OfName
<1>8. SubSeq(line', o + 1, Here') = Append(SubSeq(line, o + 1, Here), t)
  <2>1. o + 1 \in 1..Len(line) + 1
    BY <1>1
  <2>2. SubSeq(Append(line, t), o + 1, Len(line) + 1) =
            Append(SubSeq(line, o + 1, Len(line)), t)
    BY <1>1, <2>1, PartOfMore
  <2>3. QED
    BY <1>1, <1>3, <1>5, <2>2
<1>9. SubSeq(line, o + 1, Here) \in Seq(Token)
  <2>1. o + 1 \in 1..Len(line) + 1 /\ Here \in 0..Len(line) /\ o + 1 <= Here + 1
    BY <1>1
  <2>2. QED
    BY <1>1, <2>1, PartOf
<1>10. QED
  BY <1>3, <1>4, <1>5, <1>6, <1>7, <1>8, <1>9, AtomWordsOfAppend

LEMMA HeadingEnds ==
  ASSUME FileInv, NEW o, InHeading(o), Write(Close), state' = "start", UNCHANGED setting
  PROVE  FileInv'
<1>1. line \in Seq(Token) /\ HasHeading(line) /\ Lacks(line, Equals)
  BY HeadingLacks
<1>2. Ends(Close) /\ Statement = Append(line, Close)
  BY <1>1 DEF Ends, Closes, Statement
<1>3. line' = << >> /\ meant' = Say(meant, Statement)
  BY <1>2, WriteEnds
<1>4. Close \in Token /\ Close # Equals
  BY SignKinds DEF Token
<1>5. Statement \in Seq(Token) /\ Lacks(Statement, Equals)
  <2>1. Append(line, Close) \in Seq(Token) /\ Lacks(Append(line, Close), Equals)
    BY <1>1, <1>4, Appended DEF Lacks
  <2>2. QED
    BY <1>2, <2>1
<1>6. meant' = meant
  BY <1>3, <1>5, SaysNothing
<1>7. QED
  BY <1>3, <1>6, FileInvAtStart DEF FileInv

LEMMA HeadingKeeps ==
  ASSUME FileInv, NEW t \in Token, Heading(t), Write(t)
  PROVE  FileInv'
<1>1. PICK o : /\ Heads(line, o) /\ Blanks(line, o + 1, Here)
               /\ AtomWords(SubSeq(line, o + 1, Here)) = NoText
  BY DEF Heading, From, FileInv, LineInv
<1>2. InHeading(o)
  BY <1>1, SignKinds DEF InHeading, Blanks, Name
<1>3. CASE t = Close
  <2>1. state' = "start" /\ UNCHANGED setting
    BY <1>3, SignKinds DEF Heading, GoTo
  <2>2. QED
    BY <1>2, <1>3, <2>1, HeadingEnds
<1>4. CASE t = Blank
  <2>1. state = "heading" /\ UNCHANGED <<state, setting>> /\ t.kind = " "
    BY <1>4, SignKinds DEF Heading, Skip, From
  <2>2. /\ meant' = meant /\ line' \in Seq(Token)
        /\ Heads(line', o) /\ Here' = Here + 1 /\ line'[Here + 1] = t
        /\ \A i \in 1..Here : line'[i] = line[i]
        /\ AtomWords(SubSeq(line', o + 1, Here')) = AtomWords(SubSeq(line, o + 1, Here))
    BY <1>2, <2>1, MoreOfHeading DEF OfName
  <2>3. Blanks(line', o + 1, Here')
    <3>1. Here \in Nat /\ o \in Nat
      BY <1>2, HeadingLacks
    <3>2. \A i \in o + 1..Here' : i = Here + 1 \/ (i \in 1..Here /\ i \in o + 1..Here)
      BY <2>2, <3>1
    <3>3. QED
      BY <1>1, <1>4, <2>2, <3>2 DEF Blanks
  <2>4. LineInv'
    BY <1>1, <2>1, <2>2, <2>3 DEF LineInv
  <2>5. QED
    BY <2>1, <2>2, <2>4, FileInvGoesOn
<1>5. CASE t.kind = "A"
  <2>1. state' = "section" /\ key' = <<t.word>> /\ UNCHANGED setting
    BY <1>5, SignKinds DEF Heading, GoTo
  <2>2. /\ meant' = meant /\ line' \in Seq(Token)
        /\ Heads(line', o) /\ Here' = Here + 1 /\ line'[Here + 1] = t
        /\ Name(line', o + 1, Here')
        /\ AtomWords(SubSeq(line', o + 1, Here')) =
               Append(AtomWords(SubSeq(line, o + 1, Here)), t.word)
    BY <1>2, <1>5, MoreOfHeading DEF OfName
  <2>3. AtomWords(SubSeq(line', o + 1, Here')) = key'
    BY <1>1, <2>1, <2>2 DEF NoText
  <2>0. key' \in Phrase /\ key' # NoText
    BY <2>1 DEF Phrase, Word, NoText
  <2>4. HasAtom(o + 1, Here)'
    <3>1. Here \in Nat /\ o \in 1..Here
      BY <1>2, HeadingLacks
    <3>2. Here + 1 \in o + 1..Here'
      BY <2>2, <3>1
    <3>3. QED
      BY <1>5, <2>2, <3>2 DEF HasAtom
  <2>5. LineInv'
    BY <2>0, <2>1, <2>2, <2>3, <2>4 DEF LineInv
  <2>6. QED
    BY <2>1, <2>2, <2>5, FileInvGoesOn
<1>6. CASE t # Close /\ t # Blank /\ t.kind # "A"
  <2>1. state' = "refused" /\ UNCHANGED setting
    BY <1>6 DEF Heading, Refuse, GoTo
  <2>2. QED
    BY <1>2, <2>1, HeadingLacks, RefusedKeeps
<1>7. QED
  BY <1>3, <1>4, <1>5, <1>6

LEMMA LongerPhrase ==
  ASSUME NEW k \in Phrase, NEW w \in Word
  PROVE  Append(k, w) \in Phrase /\ Append(k, w) # NoText
<1>1. Append(k, w) \in Seq(Word) /\ Len(Append(k, w)) = Len(k) + 1 /\ Len(k) \in Nat
  BY DEF Phrase
<1>2. Len(Append(k, w)) # Len(<< >>)
  BY <1>1
<1>3. QED
  BY <1>1, <1>2 DEF Phrase, NoText

LEMMA SectionKeeps ==
  ASSUME FileInv, NEW t \in Token, Section(t), Write(t)
  PROVE  FileInv'
<1>1. PICK o : /\ Heads(line, o) /\ Name(line, o + 1, Here) /\ HasAtom(o + 1, Here)
               /\ AtomWords(SubSeq(line, o + 1, Here)) = key
               /\ key \in Phrase /\ key # NoText
  BY DEF Section, From, FileInv, LineInv
<1>2. InHeading(o)
  BY <1>1 DEF InHeading
<1>3. CASE state' = "refused"
  <2>1. UNCHANGED setting
    BY <1>3 DEF Section, Refuse, Skip, GoTo, From
  <2>2. QED
    BY <1>2, <1>3, <2>1, HeadingLacks, RefusedKeeps
<1>4. CASE state' # "refused"
  <2>1. \/ t = Close /\ state' = "start" /\ UNCHANGED setting
        \/ t = Blank /\ UNCHANGED <<state, key, setting>>
        \/ t.kind = "A" /\ key' = Append(key, t.word) /\ UNCHANGED <<state, setting>>
    BY <1>4 DEF Section, Refuse, Skip, GoTo
  <2>2. CASE t = Close /\ state' = "start" /\ UNCHANGED setting
    BY <1>2, <2>2, HeadingEnds
  <2>3. CASE /\ t.kind \in {" ", "A"} /\ UNCHANGED <<state, setting>>
             /\ key' = IF t.kind = "A" THEN Append(key, t.word) ELSE key
    <3>1. /\ meant' = meant /\ line' \in Seq(Token)
          /\ Heads(line', o) /\ Here' = Here + 1
          /\ \A i \in 1..Here : line'[i] = line[i]
          /\ Name(line', o + 1, Here')
          /\ AtomWords(SubSeq(line', o + 1, Here')) =
                 IF t.kind = "A" THEN Append(AtomWords(SubSeq(line, o + 1, Here)), t.word)
                 ELSE AtomWords(SubSeq(line, o + 1, Here))
      BY <1>2, <2>3, MoreOfHeading DEF OfName
    <3>2. AtomWords(SubSeq(line', o + 1, Here')) = key'
      BY <1>1, <2>3, <3>1
    <3>3. HasAtom(o + 1, Here)'
      <4>1. Here \in Nat /\ o \in Nat
        BY <1>2, HeadingLacks
      <4>2. \A i \in o + 1..Here : i \in 1..Here /\ i \in o + 1..Here'
        BY <3>1, <4>1
      <4>3. QED
        BY <1>1, <3>1, <4>2 DEF HasAtom
    <3>0. key' \in Phrase /\ key' # NoText
      <4>1. t.word \in Word
        BY DEF Word
      <4>3. key' = key \/ key' = Append(key, t.word)
        BY <2>3
      <4>4. QED
        BY <1>1, <4>1, <4>3, LongerPhrase
    <3>4. state = "section"
      BY DEF Section, From
    <3>5. LineInv'
      BY <2>3, <3>0, <3>1, <3>2, <3>3, <3>4 DEF LineInv
    <3>6. QED
      BY <2>3, <3>1, <3>5, FileInvGoesOn
  <2>4. QED
    BY <2>1, <2>2, <2>3, SignKinds
<1>5. QED
  BY <1>3, <1>4

(* The end of the file, of its reading, and of the process.                *)
LEMMA EndOfFileKeeps ==
  ASSUME FileInv, EndOfFile
  PROVE  FileInv'
<1>1. << >> \in Seq(Token) /\ line \in Seq(Token)
  BY DEF FileInv
<1>2. CASE state' = "read"
  <2>1. line' = << >> /\ meant' = Say(meant, line) /\ line' \in Seq(Token)
    BY <1>1, <1>2 DEF EndOfFile
  <2>2. CASE state = "start" /\ UNCHANGED setting
    <3>1. Blanks(line, 1, Len(line))
      BY <2>2 DEF FileInv, LineInv, Here
    <3>2. Lacks(line, Equals)
      BY <3>1, SignKinds DEF Blanks, Lacks
    <3>3. meant' = meant
      BY <1>1, <2>1, <3>2, SaysNothing
    <3>4. QED
      BY <1>2, <2>1, <2>2, <3>3, FileInvAtEnd DEF FileInv
  <2>3. CASE state = "before" /\ ClearSetting
    <3>1. PICK e : Keyed(e) /\ Blanks(line, e + 1, Here)
      BY <2>3 DEF FileInv, LineInv
    <3>2. /\ Here = Len(line) /\ Assigns(line, e)
          /\ KeyOf(line, e) = key /\ key \in Keyword
      BY <3>1, InSetting
    <3>3. meant' = [meant EXCEPT ![key] = << >>]
      BY <1>1, <2>1, <3>1, <3>2, SaysClear
    <3>4. QED
      BY <1>2, <2>1, <2>3, <3>2, <3>3, ValueIsCleared, FileInvAtEnd
  <2>4. CASE state = "value" /\ SetValue
    <3>1. PICK e, f : Keyed(e) /\ Holds(line, e, f, Here, val)
      BY <2>4 DEF FileInv, LineInv
    <3>2. /\ Here = Len(line) /\ Assigns(line, e)
          /\ KeyOf(line, e) = key /\ key \in Keyword /\ val \in Phrase
      BY <3>1, InSetting DEF Holds
    <3>3. meant' = [meant EXCEPT ![key] = IF key \in List THEN Append(@, Stripped(val))
                                          ELSE <<Stripped(val)>>]
      BY <1>1, <2>1, <3>1, <3>2, SaysValue
    <3>4. QED
      BY <1>2, <2>1, <2>4, <3>2, <3>3, ValueIsSet, FileInvAtEnd
  <2>5. QED
    BY <1>2, <2>2, <2>3, <2>4 DEF EndOfFile, AtEnd, From, GoTo
<1>3. CASE state' # "read"
  <2>1. state' = "refused" /\ UNCHANGED <<setting, line, meant>>
    BY <1>3 DEF EndOfFile, AtEnd, From, GoTo
  <2>2. QED
    BY <1>1, <2>1, FileInvAtEnd DEF FileInv
<1>4. QED
  BY <1>2, <1>3

LEMMA BadTokenKeeps ==
  ASSUME FileInv, BadToken
  PROVE  FileInv'
<1>1. /\ state' = "unreadable" /\ line' = << >> /\ << >> \in Seq(Token)
      /\ UNCHANGED <<setting, meant>>
  BY DEF BadToken, GoTo
<1>2. QED
  BY <1>1, FileInvAtEnd DEF FileInv

LEMMA NothingSaid ==
  /\ << >> \in Seq(Token) /\ NoSettings \in [Keyword -> Seq(Phrase)]
  /\ DOMAIN NoSettings = Keyword
  /\ \A k \in Keyword : Values(NoSettings[k]) = NoSettings[k]
BY ValuesOfNone DEF NoSettings

LEMMA FileInvInit == IniInit => FileInv
<1> SUFFICES ASSUME IniInit PROVE FileInv
  OBVIOUS
<1>1. state = "start" /\ line = << >> /\ setting = NoSettings /\ meant = NoSettings
  BY DEF IniInit
<1>2. Len(<< >>) = 0
  OBVIOUS
<1>3. Blanks(line, 1, Here) /\ AtomWords(line) = NoText
  BY <1>1, <1>2, AtomWordsOfNone DEF Blanks, Here
<1>4. LineInv
  BY <1>1, <1>3 DEF LineInv
<1>5. QED
  BY <1>1, <1>4, NothingSaid DEF FileInv

LEMMA ForgetKeeps ==
  ASSUME FileInv, Forget
  PROVE  FileInv'
<1>1. state' = "start" /\ line' = << >> /\ setting' = NoSettings /\ meant' = NoSettings
  BY DEF Forget, GoTo
<1>2. QED
  BY <1>1, NothingSaid, FileInvAtStart

LEMMA ReadFileKeeps ==
  ASSUME FileInv, ReadFile
  PROVE  FileInv'
<1>1. ASSUME NEW t \in Token, ReadToken(t)
      PROVE  FileInv'
  BY <1>1, StartKeeps, KeywordKeeps, BeforeKeeps, ValueKeeps, ContinueKeeps, HeadingKeeps,
     SectionKeeps DEF ReadToken
<1>2. QED
  BY <1>1, EndOfFileKeeps, BadTokenKeeps DEF ReadFile

LEMMA FileInvNext == FileInv /\ [Next]_vars => FileInv'
<1> SUFFICES ASSUME FileInv, [Next]_vars PROVE FileInv'
  OBVIOUS
<1>1. CASE UNCHANGED iniVars
  BY <1>1 DEF iniVars, FileInv, LineInv, Here, Keyed, Broken, HasAtom
<1>2. CASE ReadConfigFile
  BY <1>2, ReadFileKeeps DEF ReadConfigFile
<1>3. CASE TakeConfig
  <2>1. state = "read" /\ UNCHANGED <<state, setting, line, meant>>
    BY <1>3 DEF TakeConfig, From
  <2>2. QED
    BY <2>1, FileInvAtEnd DEF FileInv
<1>4. CASE RefuseCmdline \/ RefuseConfig \/ FailToBecomeUser \/ FailToOpenLog \/ FailToValidate
  BY <1>4, ForgetKeeps DEF RefuseCmdline, RefuseConfig, FailToBecomeUser, FailToOpenLog,
     FailToValidate, Exit
<1>5. QED
  BY <1>1, <1>2, <1>3, <1>4 DEF Next, vars, ParseCmdline, Override, BecomeUser, OpenLog,
     Validate, LookupMagazine, MountDirectory, MountFound, Fill, End

(***************************************************************************)
(* Whenever a statement of the configuration file has ended, each keyword  *)
(* has what the statements so far say of it: for any file, with its        *)
(* continuations, blanks, headings, quotes and cleared values.             *)
(***************************************************************************)
THEOREM ReadAsWrittenHolds == Spec => []ReadAsWritten
<1>1. Init => FileInv
  BY FileInvInit DEF Init
<1>2. FileInv => ReadAsWritten
  BY DEF FileInv, ReadAsWritten
<1>3. QED
  BY <1>1, <1>2, FileInvNext, PTL DEF Spec

-----------------------------------------------------------------------------
(***************************************************************************)
(* What is a statement, and what can never become one.                     *)
(***************************************************************************)
LEMMA NotBlank ==
  ASSUME NEW s \in Seq(Token), NEW i \in 1..Len(s), s[i] # Blank
  PROVE  ~IsBlank(s)
BY DEF IsBlank

LEMMA NoSettingBefore ==
  ASSUME NEW s \in Seq(Token), NEW i \in 1..Len(s), s[i] # Equals,
         ~OfName(s[i]), \A j \in 1..i - 1 : s[j] # Equals
  PROVE  ~IsSetting(s)
<1> DEFINE I == {j \in 1..Len(s) : s[j] = Equals}
<1>1. SUFFICES ASSUME IsSetting(s) PROVE FALSE
  OBVIOUS
<1>2. EqualsAt(s) = IF I # {} THEN Min(I) ELSE 0
  BY DEF EqualsAt, SelectInSeq
<1>0. I \in SUBSET Nat
  OBVIOUS
<1>3. EqualsAt(s) # 0
  BY <1>1 DEF IsSetting
<1>4. PICK e \in I : e = EqualsAt(s)
  BY <1>0, <1>2, <1>3, FirstOf
<1>5. e \in 1..Len(s) /\ s[e] = Equals
  OBVIOUS
<1>6. Len(s) \in Nat
  OBVIOUS
<1> HIDE DEF I
<1>7. i # e /\ e \notin 1..i - 1
  BY <1>5
<1>8. i \in 1..e - 1 /\ 1 \in 1..Len(s) + 1 /\ e - 1 \in 0..Len(s) /\ 1 <= e - 1 + 1
  <2>1. i \in 1..Len(s)
    OBVIOUS
  <2>2. QED
    BY <1>5, <1>6, <1>7, <2>1
<1>9. Left(s)[i] = s[i] /\ i \in DOMAIN Left(s)
  <2>1. PICK c : c = e - 1
    OBVIOUS
  <2>2. c \in 0..Len(s) /\ 1 <= c + 1 /\ i \in 1..c /\ c + 1 - 1 = c /\ 1 + i - 1 = i
    BY <1>8, <2>1
  <2>3. /\ SubSeq(s, 1, c) \in Seq(Token) /\ Len(SubSeq(s, 1, c)) = c + 1 - 1
        /\ \A k \in 1..c + 1 - 1 : SubSeq(s, 1, c)[k] = s[1 + k - 1]
    BY <1>8, <2>2, PartOf
  <2>4. SubSeq(s, 1, c)[i] = s[i] /\ i \in DOMAIN SubSeq(s, 1, c)
    BY <2>2, <2>3
  <2>5. Left(s) = SubSeq(s, 1, c)
    BY <1>4, <2>1 DEF Left
  <2>6. QED
    BY <2>4, <2>5
<1>10. QED
  BY <1>1, <1>9 DEF IsSetting, OfName

LEMMA NoSettingOfKey ==
  ASSUME NEW s \in Seq(Token), NEW e, Assigns(s, e), KeyOf(s, e) \notin Keyword
  PROVE  ~IsSetting(s)
<1>1. EqualsAt(s) = e
  BY AssignsAt
<1>2. QED
  BY <1>1 DEF IsSetting, KeyOf, Left

LEMMA NoSettingBroken ==
  ASSUME NEW s \in Seq(Token), NEW e, Assigns(s, e),
         NEW b \in e + 1..Len(s), s[b] = Backslash
  PROVE  ~IsSetting(s)
<1>1. EqualsAt(s) = e /\ e \in 1..Len(s) /\ Len(s) \in Nat
  BY AssignsAt DEF Assigns
<1>2. PICK a, k : a = e + 1 /\ k = b - e
  OBVIOUS
<1>3. /\ a \in 1..Len(s) + 1 /\ Len(s) \in 0..Len(s) /\ a <= Len(s) + 1
      /\ k \in 1..Len(s) + 1 - a /\ a + k - 1 = b
  BY <1>1, <1>2
<1>4. /\ SubSeq(s, a, Len(s)) \in Seq(Token)
      /\ Len(SubSeq(s, a, Len(s))) = Len(s) + 1 - a
      /\ \A i \in 1..Len(s) + 1 - a : SubSeq(s, a, Len(s))[i] = s[a + i - 1]
  BY <1>3, PartOf
<1>5. SubSeq(s, a, Len(s))[k] = Backslash /\ k \in DOMAIN SubSeq(s, a, Len(s))
  BY <1>3, <1>4
<1>6. Right(s) = SubSeq(s, a, Len(s))
  BY <1>1, <1>2 DEF Right
<1>7. QED
  BY <1>5, <1>6 DEF IsSetting

LEMMA NoHeadingInside ==
  ASSUME NEW s \in Seq(Token), NEW o, Heads(s, o),
         NEW i \in o + 1..Len(s) - 1, ~OfName(s[i])
  PROVE  ~IsHeading(s)
<1>1. FirstSign(s) = o /\ o \in 1..Len(s) /\ Len(s) \in Nat
  BY HasItsHeading DEF Heads
<1>2. PICK a, b, k : a = o + 1 /\ b = Len(s) - 1 /\ k = i - o
  OBVIOUS
<1>0. i \in o + 1..Len(s) - 1
  OBVIOUS
<1>3. /\ a \in 1..Len(s) + 1 /\ b \in 0..Len(s) /\ a <= b + 1
      /\ k \in 1..b + 1 - a /\ a + k - 1 = i
  BY <1>0, <1>1, <1>2
<1>4. /\ SubSeq(s, a, b) \in Seq(Token) /\ Len(SubSeq(s, a, b)) = b + 1 - a
      /\ \A j \in 1..b + 1 - a : SubSeq(s, a, b)[j] = s[a + j - 1]
  BY <1>3, PartOf
<1>5. SubSeq(s, a, b)[k] = s[i] /\ k \in DOMAIN SubSeq(s, a, b)
  BY <1>3, <1>4
<1>6. QED
  BY <1>1, <1>2, <1>5 DEF IsHeading, OfName

LEMMA NoHeadingUnclosed ==
  ASSUME NEW s \in Seq(Token), Len(s) # 0, s[Len(s)] # Close
  PROVE  ~IsHeading(s)
BY DEF IsHeading, Last

Global(words) == words \in {NoText, <<"global">>}

LEMMA IsItsHeading ==
  ASSUME NEW s \in Seq(Token), NEW o, Heads(s, o), Name(s, o + 1, Len(s)),
         Global(AtomWords(SubSeq(s, o + 1, Len(s))))
  PROVE  IsHeading(Append(s, Close))
<1> DEFINE u == Append(s, Close)  n == Len(s)
<1>0. n \in Nat
  OBVIOUS
<1>1. Close \in Token /\ Close # Blank /\ n \in Nat
  BY <1>0, SignKinds DEF Token
<1>2. /\ u \in Seq(Token) /\ Len(u) = n + 1 /\ u[n + 1] = Close
      /\ \A i \in 1..n : u[i] = s[i]
  BY <1>1, Appended
<1>3. o \in 1..n /\ s[o] = Open /\ Blanks(s, 1, o - 1)
  BY DEF Heads
<1>4. SubSeq(s, o + 1, n) \in Seq(Token)
      /\ \A i \in DOMAIN SubSeq(s, o + 1, n) :
            OfName(SubSeq(s, o + 1, n)[i])
  <2>1. PICK a : a = o + 1
    OBVIOUS
  <2>2. a \in 1..n + 1 /\ n \in 0..n /\ a <= n + 1
    BY <1>1, <1>3, <2>1
  <2>3. /\ SubSeq(s, a, n) \in Seq(Token) /\ Len(SubSeq(s, a, n)) = n + 1 - a
        /\ \A i \in 1..n + 1 - a : SubSeq(s, a, n)[i] = s[a + i - 1]
    BY <2>2, PartOf
  <2>4. \A i \in DOMAIN SubSeq(s, a, n) : SubSeq(s, a, n)[i] = s[a + i - 1]
                                          /\ a + i - 1 \in a..n
    BY <1>1, <2>2, <2>3
  <2>5. \A j \in a..n : OfName(s[j])
    BY <2>1 DEF Name, OfName
  <2>6. QED
    BY <2>1, <2>3, <2>4, <2>5
<1> HIDE DEF u, n
<1>5. Heads(u, o)
  <2>1. \A i \in 1..o - 1 : i \in 1..n
    BY <1>1, <1>3
  <2>2. o \in 1..Len(u)
    BY <1>1, <1>2, <1>3
  <2>3. QED
    BY <1>2, <1>3, <2>1, <2>2 DEF Heads, Blanks
<1>6. HasHeading(u) /\ FirstSign(u) = o
  BY <1>2, <1>5, HasItsHeading
<1>7. LastSign(u) = Len(u) /\ Last(u) = Close
  <2>1. PICK l : l = Len(u)
    OBVIOUS
  <2>2. l \in Nat /\ l \in 1..l /\ l = n + 1
    BY <1>1, <1>2, <2>1
  <2>3. Blanks(u, l + 1, l)
    BY <2>2 DEF Blanks
  <2>4. QED
    BY <1>1, <1>2, <2>1, <2>2, <2>3, LastSignAt DEF Last
<1>8. SubSeq(u, FirstSign(u) + 1, Len(u) - 1) = SubSeq(s, o + 1, n)
  <2>1. PICK a : a = o + 1
    OBVIOUS
  <2>2. /\ a \in 1..Len(s) + 1 /\ n \in 0..Len(s) /\ a <= n + 1 /\ n <= Len(u)
        /\ a <= Len(u) + 1 /\ Len(u) - 1 = n /\ \A i \in a..n : i \in 1..n
    BY <1>1, <1>2, <1>3, <2>1 DEF n
  <2>3. SubSeq(s, a, n) = SubSeq(u, a, n)
    BY <1>2, <2>2, SamePart
  <2>4. QED
    BY <1>6, <2>1, <2>2, <2>3
<1>9. QED
  BY <1>4, <1>6, <1>7, <1>8 DEF IsHeading, u, n, OfName, Global

(* No token that follows makes a statement of it.                          *)
Begins(s, u) == u \in Seq(Token) /\ Len(s) <= Len(u) /\ \A i \in 1..Len(s) : u[i] = s[i]
NeverStatement(s) == \A u : Begins(s, u) => ~IsStatement(u)

LEMMA NeverMeans ==
  ASSUME NEW s \in Seq(Token), NeverStatement(s)
  PROVE  ~IsStatement(s) /\ ~CanBecomeStatement(s)
<1>1. ASSUME NEW c \in Completions
      PROVE  ~IsStatement(s \o c)
  <2>1. Equals \in Token /\ Close \in Token /\ \A w \in Atom : AtomToken(w) \in Token
    BY DEF Token
  <2>2. c \in Seq(Token)
    <3>1. \/ c = << >> \/ c = <<Equals>> \/ c = <<Close>>
          \/ \E w \in Atom : c = <<AtomToken(w), Equals>>
      BY DEF Completions
    <3>2. CASE \E w \in Atom : c = <<AtomToken(w), Equals>>
      BY <2>1, <3>2
    <3>3. << >> \in Seq(Token) /\ <<Equals>> \in Seq(Token) /\ <<Close>> \in Seq(Token)
      BY <2>1
    <3>4. QED
      BY <3>1, <3>2, <3>3
  <2>3. Begins(s, s \o c)
    BY <2>2 DEF Begins
  <2>4. QED
    BY <2>3 DEF NeverStatement
<1>2. Begins(s, s)
  BY DEF Begins
<1>3. QED
  BY <1>1, <1>2 DEF CanBecomeStatement, NeverStatement

LEMMA BeginsWithMore ==
  ASSUME NEW s \in Seq(Token), NEW t \in Token, NEW u, Begins(Append(s, t), u)
  PROVE  /\ u \in Seq(Token) /\ Len(s) \in Nat /\ Len(u) \in Nat /\ Len(s) + 1 <= Len(u)
         /\ u[Len(s) + 1] = t /\ \A i \in 1..Len(s) : u[i] = s[i]
         /\ Begins(s, u)
<1>1. /\ Append(s, t) \in Seq(Token) /\ Len(Append(s, t)) = Len(s) + 1
      /\ Append(s, t)[Len(s) + 1] = t
      /\ \A i \in 1..Len(s) : Append(s, t)[i] = s[i]
      /\ Len(s) \in Nat
  BY Appended
<1>2. u \in Seq(Token) /\ Len(s) + 1 <= Len(u) /\ Len(u) \in Nat
  BY <1>1 DEF Begins
<1>3. Len(s) + 1 \in 1..Len(Append(s, t)) /\ \A i \in 1..Len(s) : i \in 1..Len(Append(s, t))
  BY <1>1
<1>4. u[Len(s) + 1] = t /\ \A i \in 1..Len(s) : u[i] = s[i]
  BY <1>1, <1>3 DEF Begins
<1>5. QED
  BY <1>1, <1>2, <1>4 DEF Begins

(* A keyword that is not one, or is followed by something else.            *)
LEMMA NamedNever ==
  ASSUME NEW s \in Seq(Token), NEW t \in Token, Name(s, 1, Len(s)), ~OfName(t),
         t = Equals => AtomWords(s) \notin Keyword,
         t # Open \/ \E i \in 1..Len(s) : s[i] # Blank
  PROVE  NeverStatement(Append(s, t))
<1>1. SUFFICES ASSUME NEW u, Begins(Append(s, t), u) PROVE ~IsStatement(u)
  BY DEF NeverStatement
<1> DEFINE n == Len(s)
<1>2. /\ u \in Seq(Token) /\ n \in Nat /\ Len(u) \in Nat /\ n + 1 <= Len(u)
      /\ u[n + 1] = t /\ \A i \in 1..n : u[i] = s[i]
  <2>1. /\ u \in Seq(Token) /\ Len(s) \in Nat /\ Len(u) \in Nat
        /\ Len(s) + 1 <= Len(u) /\ u[Len(s) + 1] = t
        /\ \A i \in 1..Len(s) : u[i] = s[i]
    BY <1>1, BeginsWithMore
  <2>2. QED
    BY <2>1
<1>3. PICK e : e = n + 1
  OBVIOUS
<1>4. e \in 1..Len(u) /\ u[e] = t /\ e - 1 = n /\ n <= Len(u)
  BY <1>2, <1>3
<1>5. \A i \in 1..n : i \in 1..Len(u)
  BY <1>2
<1> HIDE DEF n
<1>6. Name(u, 1, e - 1) /\ \A j \in 1..e - 1 : u[j] # Equals
  <2>1. Name(u, 1, n)
    BY <1>2 DEF Name, n
  <2>2. QED
    BY <1>4, <2>1, NameLacks
<1>7. t # Blank
  BY SignKinds DEF OfName
<1>8. ~IsBlank(u)
  BY <1>2, <1>4, <1>7, NotBlank
<1>9. ~IsHeading(u)
  <2>1. CASE t # Open
    BY <1>2, <1>4, <1>6, <1>7, <2>1, NamedHasNoHeading DEF IsHeading
  <2>2. CASE \E i \in 1..n : s[i] # Blank
    <3>1. PICK i \in 1..n : s[i] # Blank
      BY <2>2
    <3>2. i \in 1..Len(u) /\ u[i] # Blank
      BY <1>2, <1>5, <3>1
    <3>3. u[i] # Open
      BY <1>4, <1>6, NameLacks
    <3>4. Name(u, 1, i - 1)
      <4>1. \A j \in 1..i - 1 : j \in 1..n
        BY <1>2
      <4>2. QED
        BY <1>4, <1>6, <4>1 DEF Name
    <3>5. QED
      BY <1>2, <3>2, <3>3, <3>4, NamedHasNoHeading DEF IsHeading
  <2>3. QED
    BY <2>1, <2>2 DEF n
<1>10. ~IsSetting(u)
  <2>1. CASE t # Equals
    BY <1>2, <1>4, <1>6, <2>1, NoSettingBefore
  <2>2. CASE t = Equals
    <3>1. Assigns(u, e)
      BY <1>4, <1>6, <2>2 DEF Assigns
    <3>2. SubSeq(u, 1, n) = SubSeq(s, 1, n) /\ SubSeq(s, 1, n) = s
      <4>1. /\ 1 \in 1..Len(s) + 1 /\ n \in 0..Len(s) /\ 1 <= n + 1
            /\ 1 <= Len(u) + 1
        BY <1>2 DEF n
      <4>2. SubSeq(s, 1, n) = SubSeq(u, 1, n)
        BY <1>2, <1>4, <4>1, SamePart
      <4>3. SubSeq(s, 1, Len(s)) = s
        OBVIOUS
      <4>4. QED
        BY <4>2, <4>3 DEF n
    <3>3. KeyOf(u, e) = AtomWords(s)
      BY <1>4, <3>2 DEF KeyOf
    <3>4. QED
      BY <1>2, <2>2, <3>1, <3>3, NoSettingOfKey
  <2>3. QED
    BY <2>1, <2>2
<1>11. QED
  BY <1>8, <1>9, <1>10 DEF IsStatement

(* A backslash that is followed by anything else than the end of its line. *)
LEMMA BrokenNever ==
  ASSUME NEW s \in Seq(Token), NEW e, Assigns(s, e), NEW b \in e + 1..Len(s),
         s[b] = Backslash
  PROVE  NeverStatement(s)
<1>1. SUFFICES ASSUME NEW u, Begins(s, u) PROVE ~IsStatement(u)
  BY DEF NeverStatement
<1>0. /\ u \in Seq(Token) /\ Len(s) <= Len(u)
      /\ \A i \in 1..Len(s) : u[i] = s[i]
  BY <1>1 DEF Begins
<1>2. /\ u \in Seq(Token) /\ Len(s) \in Nat /\ Len(u) \in Nat /\ Len(s) <= Len(u)
      /\ \A i \in 1..Len(s) : u[i] = s[i]
  BY <1>0
<1>3. e \in 1..Len(s) /\ e <= Len(s) /\ Len(s) <= Len(s)
  BY <1>2 DEF Assigns
<1>4. Assigns(u, e)
  BY <1>2, <1>3, AssignsStays
<1>5. b \in e + 1..Len(u) /\ u[b] = Backslash
  <2>1. b \in 1..Len(s) /\ b \in e + 1..Len(u)
    BY <1>2, <1>3
  <2>2. QED
    BY <1>2, <2>1
<1>6. ~IsSetting(u)
  BY <1>2, <1>4, <1>5, NoSettingBroken
<1>7. ~IsHeading(u)
  BY <1>2, <1>4, AssignsAt DEF IsHeading
<1>8. ~IsBlank(u)
  <2>1. e \in 1..Len(u) /\ u[e] # Blank
    BY <1>4, SignKinds DEF Assigns
  <2>2. QED
    BY <1>2, <2>1, NotBlank
<1>9. QED
  BY <1>6, <1>7, <1>8 DEF IsStatement

(* A heading that is not the global one.                                   *)
LEMMA HeadingNever ==
  ASSUME NEW s \in Seq(Token), NEW o, Heads(s, o), NEW t \in Token, ~OfName(t),
         t = Close => ~Global(AtomWords(SubSeq(s, o + 1, Len(s))))
  PROVE  NeverStatement(Append(s, t))
<1>1. SUFFICES ASSUME NEW u, Begins(Append(s, t), u) PROVE ~IsStatement(u)
  BY DEF NeverStatement
<1> DEFINE n == Len(s)
<1>2. /\ u \in Seq(Token) /\ n \in Nat /\ Len(u) \in Nat /\ n + 1 <= Len(u)
      /\ u[n + 1] = t /\ \A i \in 1..n : u[i] = s[i]
  <2>1. /\ u \in Seq(Token) /\ Len(s) \in Nat /\ Len(u) \in Nat
        /\ Len(s) + 1 <= Len(u) /\ u[Len(s) + 1] = t
        /\ \A i \in 1..Len(s) : u[i] = s[i]
    BY <1>1, BeginsWithMore
  <2>2. QED
    BY <2>1
<1>3. o \in 1..n /\ s[o] = Open /\ Blanks(s, 1, o - 1)
  BY DEF Heads
<1> HIDE DEF n
<1>4. o \in 1..Len(u) /\ u[o] = Open /\ \A i \in 1..o - 1 : i \in 1..n
  BY <1>2, <1>3
<1>5. Heads(u, o)
  BY <1>2, <1>3, <1>4 DEF Heads, Blanks
<1>6. ~IsSetting(u)
  <2>1. \A j \in 1..o - 1 : u[j] # Equals
    BY <1>5, SignKinds DEF Heads, Blanks
  <2>2. u[o] # Equals /\ ~OfName(u[o])
    BY <1>4, SignKinds DEF OfName
  <2>3. QED
    BY <1>2, <1>4, <2>1, <2>2, NoSettingBefore
<1>7. ~IsBlank(u)
  BY <1>2, <1>4, SignKinds, NotBlank
<1>8. ~IsHeading(u)
  <2>1. CASE n + 1 < Len(u)
    <3>1. PICK i : i = n + 1
      OBVIOUS
    <3>2. i \in o + 1..Len(u) - 1
      BY <1>2, <1>3, <2>1, <3>1
    <3>3. ~OfName(u[i])
      BY <1>2, <3>1
    <3>4. QED
      BY <1>2, <1>5, <3>2, <3>3, NoHeadingInside
  <2>2. CASE n + 1 = Len(u) /\ t # Close
    BY <1>2, <2>2, NoHeadingUnclosed
  <2>3. CASE n + 1 = Len(u) /\ t = Close
    <3>1. FirstSign(u) = o
      BY <1>2, <1>5, HasItsHeading
    <3>2. SubSeq(u, FirstSign(u) + 1, Len(u) - 1) = SubSeq(s, o + 1, Len(s))
      <4>1. PICK a : a = o + 1
        OBVIOUS
      <4>2. /\ a \in 1..Len(s) + 1 /\ n \in 0..Len(s) /\ a <= n + 1 /\ n <= Len(u)
            /\ a <= Len(u) + 1 /\ Len(u) - 1 = n /\ \A i \in a..n : i \in 1..n
        <5>1. n = Len(s) /\ Len(u) = n + 1
          BY <2>3 DEF n
        <5>2. QED
          BY <1>2, <1>3, <4>1, <5>1
      <4>3. SubSeq(s, a, n) = SubSeq(u, a, n)
        BY <1>2, <4>2, SamePart
      <4>4. QED
        BY <3>1, <4>1, <4>2, <4>3 DEF n
    <3>3. QED
      BY <2>3, <3>2 DEF IsHeading, Global
  <2>4. QED
    BY <1>2, <2>1, <2>2, <2>3
<1>9. QED
  BY <1>6, <1>7, <1>8 DEF IsStatement

(* Reading on, by what becomes of the statement.                           *)
LEMMA NoneEnds ==
  ASSUME state' \notin {"start", "read", "refused"} \/ UNCHANGED state, state' # "refused"
  PROVE  ReadOn
BY DEF ReadOn

LEMMA StatementEnds ==
  ASSUME IsStatement(Statement), state' # "refused"
  PROVE  ReadOn
BY DEF ReadOn

LEMMA NoneRefused ==
  ASSUME state' = "refused", line' \in Seq(Token), NeverStatement(line')
  PROVE  ReadOn
BY NeverMeans DEF ReadOn

LEMMA RefusedLine ==
  ASSUME FileInv, NEW t \in Token, Write(t), state' = "refused"
  PROVE  line \in Seq(Token) /\ line' = Append(line, t) /\ line' \in Seq(Token)
BY DEF FileInv, Write

LEMMA NotOfName ==
  ASSUME NEW t \in Token, t # Blank, t.kind # "A"
  PROVE  ~OfName(t)
BY Kinds DEF OfName

LEMMA StartReadsOn ==
  ASSUME FileInv, NEW t \in Token, Start(t), Write(t), NoText \notin Keyword
  PROVE  ReadOn
<1>1. /\ state = "start" /\ Blanks(line, 1, Len(line)) /\ AtomWords(line) = NoText
  BY DEF Start, From, FileInv, LineInv, Here
<1>2. CASE state' = "refused"
  <2>1. t # Blank /\ t.kind # "A" /\ t # Open
    BY <1>1, <1>2 DEF Start, Skip, GoTo
  <2>2. Name(line, 1, Len(line))
    BY <1>1, SignKinds DEF Blanks, Name
  <2>3. line \in Seq(Token) /\ line' = Append(line, t) /\ line' \in Seq(Token)
    BY <1>2, RefusedLine
  <2>4. ~OfName(t)
    BY <2>1, NotOfName
  <2>5. NeverStatement(Append(line, t))
    BY <1>1, <2>1, <2>2, <2>3, <2>4, NamedNever
  <2>6. QED
    BY <1>2, <2>3, <2>5, NoneRefused
<1>3. CASE state' # "refused"
  <2>1. state' \in {"start", "heading", "keyword"}
    BY <1>1, <1>3 DEF Start, Skip, GoTo, Refuse
  <2>2. QED
    BY <1>1, <1>3, <2>1, NoneEnds
<1>4. QED
  BY <1>2, <1>3

LEMMA KeywordReadsOn ==
  ASSUME FileInv, NEW t \in Token, ReadKeyword(t), Write(t)
  PROVE  ReadOn
<1>1. /\ state = "keyword" /\ Name(line, 1, Len(line)) /\ HasAtom(1, Len(line))
      /\ AtomWords(line) = key
  BY DEF ReadKeyword, From, FileInv, LineInv, Here
<1>2. CASE state' = "refused"
  <2>1. t # Blank /\ t.kind # "A" /\ (t = Equals => key \notin Keyword)
    BY <1>1, <1>2 DEF ReadKeyword, Skip, GoTo
  <2>2. \E i \in 1..Len(line) : line[i] # Blank
    BY <1>1, SignKinds DEF HasAtom
  <2>3. line \in Seq(Token) /\ line' = Append(line, t) /\ line' \in Seq(Token)
    BY <1>2, RefusedLine
  <2>4. ~OfName(t)
    BY <2>1, NotOfName
  <2>5. NeverStatement(Append(line, t))
    BY <1>1, <2>1, <2>2, <2>3, <2>4, NamedNever
  <2>6. QED
    BY <1>2, <2>3, <2>5, NoneRefused
<1>3. CASE state' # "refused"
  <2>1. state' \in {"keyword", "before"}
    BY <1>1, <1>3 DEF ReadKeyword, Skip, GoTo, Refuse
  <2>2. QED
    BY <1>1, <1>3, <2>1, NoneEnds
<1>4. QED
  BY <1>2, <1>3

(* A line that assigns something says something.                           *)
LEMMA SettingEnds ==
  ASSUME FileInv, NEW e, Keyed(e), state' # "refused",
         \/ Blanks(line, e + 1, Here)
         \/ \E f : Holds(line, e, f, Here, val)
  PROVE  ReadOn
<1>1. /\ line \in Seq(Token) /\ Here = Len(line) /\ Assigns(line, e)
      /\ KeyOf(line, e) = key /\ key \in Keyword /\ ~HasHeading(line)
  BY InSetting
<1>2. IsSetting(line)
  <2>1. CASE Blanks(line, e + 1, Here)
    BY <1>1, <2>1, SaysClear
  <2>2. CASE \E f : Holds(line, e, f, Here, val)
    BY <1>1, <2>2, SaysValue
  <2>3. QED
    BY <2>1, <2>2
<1>3. IsStatement(Statement)
  BY <1>1, <1>2 DEF Statement, IsStatement
<1>4. QED
  BY <1>3, StatementEnds

LEMMA BeforeReadsOn ==
  ASSUME FileInv, NEW t \in Token, Before(t)
  PROVE  ReadOn
<1>1. PICK e : Keyed(e) /\ Blanks(line, e + 1, Here)
  BY DEF Before, From, FileInv, LineInv
<1>2. state' # "refused"
  BY DEF Before, From, Skip, GoTo
<1>3. QED
  BY <1>1, <1>2, SettingEnds

LEMMA ValueReadsOn ==
  ASSUME FileInv, NEW t \in Token, Value(t)
  PROVE  ReadOn
<1>1. PICK e, f : Keyed(e) /\ Holds(line, e, f, Here, val)
  BY DEF Value, From, FileInv, LineInv
<1>2. state' # "refused"
  BY DEF Value, From, GoTo
<1>3. QED
  BY <1>1, <1>2, SettingEnds

(* A line with a backslash after what it assigns to.                       *)
LEMMA LineIsBroken ==
  ASSUME FileInv, state \in {"before\\", "value\\"}
  PROVE  \E e, b : Keyed(e) /\ Assigns(line, e) /\ b \in e + 1..Here /\ Broken(b)
<1>1. PICK e, b : /\ Keyed(e) /\ Broken(b)
                  /\ e < b \/ \E f : Holds(line, e, f, b - 1, val)
  BY DEF FileInv, LineInv
<1>2. Here \in Nat /\ e \in 1..Here /\ Assigns(line, e) /\ b \in 1..Here
  BY <1>1, InSetting DEF Broken
<1>3. e < b
  <2>1. CASE \E f : Holds(line, e, f, b - 1, val)
    <3>1. PICK f : f \in e + 1..b - 1
      BY <2>1 DEF Holds
    <3>2. QED
      BY <1>2, <3>1
  <2>2. QED
    BY <1>1, <2>1
<1>4. b \in e + 1..Here
  BY <1>2, <1>3
<1>5. QED
  BY <1>1, <1>2, <1>4

LEMMA ContinueReadsOn ==
  ASSUME FileInv, NEW t \in Token, Continue(t), Write(t)
  PROVE  ReadOn
<1>1. CASE state' = "refused"
  <2>1. PICK e, b : Keyed(e) /\ Assigns(line, e) /\ b \in e + 1..Here /\ Broken(b)
    BY LineIsBroken DEF Continue
  <2>2. line \in Seq(Token) /\ line' = Append(line, t) /\ line' \in Seq(Token)
    BY <1>1, RefusedLine
  <2>3. Here = Len(line) /\ Here \in Nat /\ e \in 1..Here /\ line[b] = Backslash
    BY <2>1, InSetting DEF Broken
  <2>4. Len(line') = Here + 1 /\ \A i \in 1..Here : line'[i] = line[i]
    BY <2>2, <2>3, Appended
  <2>5. /\ e <= Here /\ Here <= Len(line) /\ Here <= Len(line')
        /\ b \in e + 1..Len(line') /\ b \in 1..Here
    BY <2>1, <2>3, <2>4
  <2>6. Assigns(line', e)
    <3>1. Assigns(line, e) /\ Here \in Nat
      BY <2>1, <2>3
    <3>2. QED
      BY <2>2, <2>4, <2>5, <3>1, AssignsStays
  <2>7. NeverStatement(line')
    BY <2>2, <2>3, <2>4, <2>5, <2>6, BrokenNever
  <2>8. QED
    BY <1>1, <2>2, <2>7, NoneRefused
<1>2. CASE state' # "refused"
  <2>1. UNCHANGED state \/ state' \in {"value", "before"}
    BY <1>2 DEF Continue, Skip, GoTo, Refuse
  <2>2. QED
    BY <1>2, <2>1, NoneEnds
<1>3. QED
  BY <1>1, <1>2

(* Of what begins with a heading.                                          *)
LEMMA HeadingGoesOn ==
  ASSUME FileInv, NEW t \in Token, Write(t), NEW o, InHeading(o),
         \/ UNCHANGED state \/ state' \in {"section"}
         \/ state' = "start" /\ Global(AtomWords(SubSeq(line, o + 1, Here)))
         \/ /\ state' = "refused" /\ t # Blank /\ t.kind # "A"
            /\ t = Close => ~Global(AtomWords(SubSeq(line, o + 1, Here))),
         state # "refused"
  PROVE  ReadOn
<1>1. line \in Seq(Token) /\ Here = Len(line) /\ HasHeading(line)
      /\ Heads(line, o) /\ Name(line, o + 1, Here)
  BY HeadingLacks DEF InHeading
<1>2. CASE UNCHANGED state \/ state' \in {"section"}
  BY <1>2, NoneEnds
<1>3. CASE state' = "start" /\ Global(AtomWords(SubSeq(line, o + 1, Here)))
  <2>1. IsHeading(Append(line, Close))
    BY <1>1, <1>3, IsItsHeading
  <2>2. IsStatement(Statement)
    BY <1>1, <2>1 DEF Statement, IsStatement
  <2>3. QED
    BY <1>3, <2>2, StatementEnds
<1>4. CASE /\ state' = "refused" /\ t # Blank /\ t.kind # "A"
           /\ t = Close => ~Global(AtomWords(SubSeq(line, o + 1, Here)))
  <2>1. ~OfName(t)
    BY <1>4, NotOfName
  <2>2. line' = Append(line, t) /\ line' \in Seq(Token)
    BY <1>4, RefusedLine
  <2>3. NeverStatement(line')
    BY <1>1, <1>4, <2>1, <2>2, HeadingNever
  <2>4. QED
    BY <1>4, <2>2, <2>3, NoneRefused
<1>5. QED
  BY <1>2, <1>3, <1>4

LEMMA HeadingReadsOn ==
  ASSUME FileInv, NEW t \in Token, Heading(t), Write(t)
  PROVE  ReadOn
<1>1. PICK o : /\ Heads(line, o) /\ Blanks(line, o + 1, Here)
               /\ AtomWords(SubSeq(line, o + 1, Here)) = NoText
  BY DEF Heading, From, FileInv, LineInv
<1>2. InHeading(o) /\ Global(AtomWords(SubSeq(line, o + 1, Here)))
  BY <1>1, SignKinds DEF InHeading, Blanks, Name, Global
<1>3. /\ state = "heading"
      /\ \/ UNCHANGED state \/ state' \in {"section"} \/ state' = "start"
         \/ state' = "refused" /\ t # Blank /\ t.kind # "A" /\ t # Close
  BY DEF Heading, From, Skip, GoTo, Refuse
<1>4. QED
  BY <1>2, <1>3, HeadingGoesOn

LEMMA SectionReadsOn ==
  ASSUME FileInv, NEW t \in Token, Section(t), Write(t)
  PROVE  ReadOn
<1>1. PICK o : /\ Heads(line, o) /\ Name(line, o + 1, Here)
               /\ AtomWords(SubSeq(line, o + 1, Here)) = key /\ key # NoText
  BY DEF Section, From, FileInv, LineInv
<1>2. InHeading(o) /\ (Global(key) <=> key = <<"global">>)
  BY <1>1 DEF InHeading, Global
<1>3. /\ state = "section"
      /\ \/ UNCHANGED state
         \/ state' = "start" /\ key = <<"global">>
         \/ /\ state' = "refused" /\ t # Blank /\ t.kind # "A"
            /\ t = Close => key # <<"global">>
  BY DEF Section, From, Skip, GoTo, Refuse
<1>4. QED
  BY <1>1, <1>2, <1>3, HeadingGoesOn

(* What is not complete at the end of the file is no statement.            *)
LEMMA EndOfFileReadsOn ==
  ASSUME FileInv, EndOfFile
  PROVE  ReadOn
<1>1. line \in Seq(Token) /\ Here = Len(line)
  BY DEF FileInv, Here
<1>2. CASE state' # "refused"
  <2>1. state \in {"start", "before", "value"}
    BY <1>2 DEF EndOfFile, AtEnd, From, GoTo
  <2>2. CASE state = "start"
    <3>1. Blanks(line, 1, Len(line))
      BY <1>1, <2>2 DEF FileInv, LineInv
    <3>2. IsBlank(line) /\ Statement = line
      BY <1>1, <3>1, BlankHasNoHeading DEF IsBlank, Blanks, Statement
    <3>3. QED
      BY <1>2, <3>2, StatementEnds DEF IsStatement
  <2>3. CASE state = "before"
    BY <1>2, <2>3, SettingEnds DEF FileInv, LineInv
  <2>4. CASE state = "value"
    BY <1>2, <2>4, SettingEnds DEF FileInv, LineInv
  <2>5. QED
    BY <2>1, <2>2, <2>3, <2>4
<1>3. CASE state' = "refused"
  <2>1. line' = line /\ state \in {"keyword", "before\\", "value\\", "heading", "section"}
    BY <1>3 DEF EndOfFile, AtEnd, From, GoTo, Reading
  <2>2. SUFFICES ~IsStatement(line)
    BY <1>3, <2>1 DEF ReadOn
  <2>3. CASE state = "keyword"
    <3>1. Name(line, 1, Here) /\ HasAtom(1, Here)
      BY <2>3 DEF FileInv, LineInv
    <3>2. PICK i \in 1..Here : line[i].kind = "A"
      BY <3>1 DEF HasAtom
    <3>3. line[i] # Open /\ line[i] # Blank
      BY <3>2, SignKinds
    <3>4. Name(line, 1, i - 1)
      <4>1. \A j \in 1..i - 1 : j \in 1..Here
        BY <1>1
      <4>2. QED
        BY <3>1, <4>1 DEF Name
    <3>5. Lacks(line, Equals)
      BY <1>1, <3>1, NameLacks DEF Lacks
    <3>6. ~IsSetting(line)
      BY <1>1, <3>5, SaysNothing
    <3>7. ~IsBlank(line) /\ ~HasHeading(line)
      BY <1>1, <3>3, <3>4, NotBlank, NamedHasNoHeading
    <3>8. QED
      BY <3>6, <3>7 DEF IsStatement, IsHeading
  <2>4. CASE state \in {"before\\", "value\\"}
    <3>1. PICK e, b : Assigns(line, e) /\ b \in e + 1..Here /\ Broken(b)
      BY <2>4, LineIsBroken
    <3>2. NeverStatement(line)
      BY <1>1, <3>1, BrokenNever DEF Broken
    <3>3. QED
      BY <1>1, <3>2, NeverMeans
  <2>5. CASE state \in {"heading", "section"}
    <3>1. PICK o : Heads(line, o) /\ Name(line, o + 1, Here)
      BY <2>5, SignKinds DEF FileInv, LineInv, Blanks, Name
    <3>2. /\ Here \in Nat /\ o \in 1..Here /\ line[o] = Open
          /\ Lacks(line, Equals)
      BY <3>1, HeadingLacks DEF InHeading, Heads
    <3>3. ~IsSetting(line)
      BY <1>1, <3>2, SaysNothing
    <3>4. ~IsBlank(line)
      BY <1>1, <3>2, SignKinds, NotBlank
    <3>5. Here # 0 /\ (Here = o \/ Here \in o + 1..Here)
      BY <3>2
    <3>6. line[Here] # Close
      <4>1. CASE Here = o
        BY <3>2, <4>1, SignKinds
      <4>2. CASE Here \in o + 1..Here
        BY <3>1, <4>2, NameLacks
      <4>3. QED
        BY <3>5, <4>1, <4>2
    <3>7. QED
      BY <1>1, <3>3, <3>4, <3>5, <3>6, NoHeadingUnclosed DEF IsStatement
  <2>6. QED
    BY <2>1, <2>3, <2>4, <2>5
<1>4. QED
  BY <1>2, <1>3

LEMMA ReadsOn ==
  ASSUME FileInv, ReadFile, NoText \notin Keyword
  PROVE  ReadOn
<1>1. ASSUME NEW t \in Token, ReadToken(t)
      PROVE  ReadOn
  BY <1>1, StartReadsOn, KeywordReadsOn, BeforeReadsOn, ValueReadsOn, ContinueReadsOn,
     HeadingReadsOn, SectionReadsOn DEF ReadToken
<1>2. CASE BadToken
  BY <1>2, NoneEnds DEF BadToken, GoTo
<1>3. QED
  BY <1>1, <1>2, EndOfFileReadsOn DEF ReadFile

(* While the command line is parsed no file is read, and from the end of   *)
(* the configuration on none is read any more.                             *)
ReadingInv ==
    /\ stage = "begin" => state = "start"
    /\ stage \in {"override", "user", "log", "validate", "mount"} => state = "read"

LEMMA ReadingInvInit == Init => ReadingInv
BY DEF Init, IniInit, ReadingInv

LEMMA ReadingInvNext == ReadingInv /\ [Next]_vars => ReadingInv'
<1> SUFFICES ASSUME ReadingInv, [Next]_vars PROVE ReadingInv'
  OBVIOUS
<1>1. CASE UNCHANGED iniVars /\ UNCHANGED stage
  BY <1>1 DEF iniVars, ReadingInv
<1>2. CASE ReadConfigFile
  BY <1>2 DEF ReadConfigFile, process, ReadingInv
<1>3. CASE TakeConfig
  BY <1>3 DEF TakeConfig, Step, From, ReadingInv
<1>4. CASE RefuseCmdline \/ RefuseConfig \/ FailToBecomeUser \/ FailToOpenLog \/ FailToValidate
  BY <1>4 DEF RefuseCmdline, RefuseConfig, FailToBecomeUser, FailToOpenLog,
     FailToValidate, Exit, ReadingInv
<1>5. CASE ParseCmdline \/ Override \/ BecomeUser \/ OpenLog \/ Validate
  BY <1>5 DEF ParseCmdline, Override, BecomeUser, OpenLog, Validate, Step, iniVars,
     ReadingInv
<1>6. QED
  BY <1>1, <1>2, <1>3, <1>4, <1>5 DEF Next, vars, process, LookupMagazine, MountDirectory,
     MountFound, Fill, End

LEMMA NextReadsOn ==
  ASSUME FileInv, ReadingInv, [Next]_vars, state \in Reading, ~UNCHANGED iniVars
  PROVE  ReadOn
<1>1. NoText \notin Keyword
  BY GrammarAssumption DEF NoText, VchangerKeyword, StorageResource, WorkDir, Logfile,
     LogLevel, User, Group, Bconsole, BconsoleConfig, DefaultPool, Magazine
<1>2. CASE ReadConfigFile
  BY <1>1, <1>2, ReadsOn DEF ReadConfigFile
<1>3. CASE TakeConfig
  BY <1>3 DEF TakeConfig, From, Reading
<1>4. CASE RefuseCmdline
  <2>1. state = "start" /\ state' = "start"
    BY <1>4 DEF RefuseCmdline, Exit, Forget, GoTo, ReadingInv
  <2>2. QED
    BY <2>1, NoneEnds
<1>5. CASE RefuseConfig
  BY <1>5 DEF RefuseConfig, From, Reading
<1>6. CASE FailToBecomeUser \/ FailToOpenLog \/ FailToValidate
  BY <1>6 DEF FailToBecomeUser, FailToOpenLog, FailToValidate, ReadingInv, Reading
<1>7. QED
  BY <1>2, <1>3, <1>4, <1>5, <1>6 DEF Next, vars, ParseCmdline, Override, BecomeUser,
     OpenLog, Validate, LookupMagazine, MountDirectory, MountFound, Fill, End

(***************************************************************************)
(* What IniFile::Read() takes for a statement is one by the definition of  *)
(* what is written, and where it refuses the file no tokens that may still *)
(* follow would make a statement of what it has read: for any file.        *)
(***************************************************************************)
THEOREM ReadsStatementsHolds == Spec => ReadsStatements
<1>1. FileInv /\ ReadingInv /\ [Next]_vars => [(state \in Reading) => ReadOn]_iniVars
  BY NextReadsOn
<1>2. Init => FileInv
  BY FileInvInit DEF Init
<1>3. QED
  BY <1>1, <1>2, ReadingInvInit, ReadingInvNext, FileInvNext, PTL DEF Spec, ReadsStatements

-----------------------------------------------------------------------------
(***************************************************************************)
(* From the settings that were read to the configuration.                  *)
(***************************************************************************)
LEMMA NoListNeedsText == NeedsText \subseteq Keyword \ List
BY GrammarAssumption DEF NeedsText, VchangerKeyword, StorageResource, WorkDir, Logfile,
   User, Group, DefaultPool, Magazine

(* Only a list has more than one value.                                    *)
Single(s) == s = << >> \/ \E v : s = <<v>>
SingleValues == DOMAIN setting = Keyword /\ \A k \in Keyword \ List : Single(setting[k])

LEMMA ReadFileKeepsSingle ==
  ASSUME SingleValues, ReadFile
  PROVE  SingleValues'
<1>1. \/ UNCHANGED setting
      \/ ClearSetting
      \/ SetValue
  <2>1. CASE \E t \in Token : ReadToken(t)
    <3>1. PICK t \in Token : \/ Start(t) \/ ReadKeyword(t) \/ Before(t) \/ Value(t)
                             \/ Continue(t) \/ Heading(t) \/ Section(t)
      BY <2>1 DEF ReadToken
    <3>2. CASE Start(t)
      BY <3>2 DEF Start, Skip, Refuse
    <3>3. CASE ReadKeyword(t)
      BY <3>3 DEF ReadKeyword, Skip, Refuse
    <3>4. CASE Before(t)
      BY <3>4 DEF Before, Skip
    <3>5. CASE Value(t)
      BY <3>5 DEF Value
    <3>6. CASE Continue(t)
      BY <3>6 DEF Continue, Skip, Refuse
    <3>7. CASE Heading(t)
      BY <3>7 DEF Heading, Skip, Refuse
    <3>8. CASE Section(t)
      BY <3>8 DEF Section, Skip, Refuse
    <3>9. QED
      BY <3>1, <3>2, <3>3, <3>4, <3>5, <3>6, <3>7, <3>8
  <2>2. CASE EndOfFile
    BY <2>2 DEF EndOfFile, AtEnd
  <2>3. CASE BadToken
    BY <2>3 DEF BadToken
  <2>4. QED
    BY <2>1, <2>2, <2>3 DEF ReadFile
<1>2. DOMAIN setting' = Keyword
  BY <1>1 DEF SingleValues, ClearSetting, SetValue
<1>3. \A k \in Keyword \ List : \/ setting'[k] = setting[k]
                                \/ setting'[k] = << >>
                                \/ setting'[k] = <<val>>
  BY <1>1 DEF SingleValues, ClearSetting, SetValue
<1>4. QED
  BY <1>2, <1>3 DEF SingleValues, Single

(* Such a setting is taken as it is written.                               *)
LEMMA ValuesOfOne ==
  ASSUME NEW v
  PROVE  Values(<<v>>) # << >> /\ Last(Values(<<v>>)) = Stripped(v)
<1> DEFINE texts == Values(<<v>>)
<1>1. texts = <<Stripped(v)>>
  BY DEF Values
<1>2. QED
  BY <1>1 DEF Last

LEMMA TakenAsWritten ==
  ASSUME SingleValues, ReadAsWritten, state = "read", NEW k \in NeedsText
  PROVE  /\ \A default : Take(k, default) = Written(k, default)
         /\ IsSet(k) <=> meant[k] # << >>
         /\ IsSet(k) => Last(meant[k]) = Text(k)
<1>1. Values(setting[k]) = meant[k] /\ Single(setting[k])
  BY NoListNeedsText DEF SingleValues, ReadAsWritten
<1>2. CASE setting[k] = << >>
  BY <1>1, <1>2, ValuesOfNone DEF Take, Written, IsSet
<1>3. CASE \E v : setting[k] = <<v>>
  <2>1. PICK v : setting[k] = <<v>>
    BY <1>3
  <2>2. meant[k] # << >> /\ Last(meant[k]) = Stripped(v)
    BY <1>1, <2>1, ValuesOfOne
  <2>3. IsSet(k) /\ Text(k) = Stripped(v)
    BY <2>1 DEF IsSet, Text
  <2>4. QED
    BY <2>2, <2>3 DEF Take, Written
<1>4. QED
  BY <1>1, <1>2, <1>3 DEF Single

(***************************************************************************)
(* The inductive invariant: before the file is taken, the configuration is *)
(* the default; after it, what is written, and the settings stay as they   *)
(* were read.                                                              *)
(***************************************************************************)
FromFile ==
    /\ conf.storage = Written(StorageResource, DefaultStorage)
    /\ conf.work = Written(WorkDir, StateDir(conf.storage))
    /\ conf.log = Written(Logfile, LogFileOf(conf.storage))
    /\ conf.magazine = meant[Magazine]
    /\ \A k \in NeedsText : Written(k, <<"default">>) # << >>

WrittenUser == Written(User, Defaults.user)
WrittenGroup == Written(Group, Defaults.group)
WrittenPool == Written(DefaultPool, Defaults.pool)

NotOverridden ==
    conf.user = WrittenUser /\ conf.group = WrittenGroup /\ conf.pool = WrittenPool
Overridden ==
    /\ conf.user = Unless(Given("user"), WrittenUser)
    /\ conf.group = Unless(Given("group"), WrittenGroup)
    /\ conf.pool = Unless(Given("pool"), WrittenPool)

ConfigInv ==
    /\ SingleValues
    /\ stage \in {"begin", "config"} => conf = Defaults
    /\ stage = "override" => FromFile /\ NotOverridden
    /\ Runs => FromFile /\ Overridden

LEMMA ConfigInvInit == Init => ConfigInv
BY DEF Init, ConfigInv, IniInit, SingleValues, Single, NoSettings, Runs

LEMMA ConfigTaken ==
  ASSUME ConfigInv, ReadAsWritten, TakeConfig
  PROVE  ConfigInv'
<1>1. /\ stage = "config" /\ stage' = "override" /\ state = "read"
      /\ UNCHANGED <<setting, meant>> /\ conf = Defaults /\ SingleValues
  BY DEF TakeConfig, Step, From, ConfigInv
<1>2. /\ conf'.storage = StorageName /\ conf'.work = WorkDirOf /\ conf'.log = LogfileOf
      /\ conf'.user = Take(User, Defaults.user)
      /\ conf'.group = Take(Group, Defaults.group)
      /\ conf'.pool = Take(DefaultPool, Defaults.pool)
      /\ conf'.magazine = Magazines
  BY <1>1 DEF TakeConfig
<1>3. \A k \in NeedsText : /\ \A default : Take(k, default) = Written(k, default)
                           /\ IsSet(k) <=> meant[k] # << >>
                           /\ IsSet(k) => Last(meant[k]) = Text(k)
  BY <1>1, TakenAsWritten
<1>4. {StorageResource, WorkDir, Logfile, User, Group, DefaultPool} \subseteq NeedsText
  BY DEF NeedsText
<1>5. \A k, default : Written(k, default)' = Written(k, default)
  BY <1>1 DEF Written
<1>6. /\ conf.storage = DefaultStorage /\ conf.work = StateDir(DefaultStorage)
      /\ conf.log = LogFileOf(DefaultStorage)
  BY <1>1 DEF Defaults
<1>7. /\ WorkDirOf = Take(WorkDir, StateDir(StorageName))
      /\ LogfileOf = Take(Logfile, LogFileOf(StorageName))
      /\ StorageName = Take(StorageResource, DefaultStorage)
  BY <1>6 DEF WorkDirOf, LogfileOf, StorageName, Take
<1>8. Magazines = meant[Magazine]
  <2>1. Magazines # << >>
    BY DEF TakeConfig, Acceptable
  <2>2. Magazines = Values(setting[Magazine])
    BY <2>1 DEF Magazines, Values
  <2>3. Magazine \in Keyword
    BY GrammarAssumption DEF VchangerKeyword
  <2>4. QED
    BY <1>1, <2>2, <2>3 DEF ReadAsWritten
<1>9. \A k \in NeedsText : Written(k, <<"default">>) # << >>
  <2>1. SUFFICES ASSUME NEW k \in NeedsText
                 PROVE  Written(k, <<"default">>) # << >>
    OBVIOUS
  <2>2. IsSet(k) => Text(k) # << >>
    BY DEF TakeConfig, Acceptable
  <2>3. QED
    BY <1>3, <2>2 DEF Written
<1>10. FromFile'
  <2>1. conf'.storage = Written(StorageResource, DefaultStorage)
    BY <1>2, <1>3, <1>4, <1>7
  <2>2. conf'.work = Written(WorkDir, StateDir(conf'.storage))
    BY <1>2, <1>3, <1>4, <1>7
  <2>3. conf'.log = Written(Logfile, LogFileOf(conf'.storage))
    BY <1>2, <1>3, <1>4, <1>7
  <2>4. conf'.magazine = meant'[Magazine]
    BY <1>1, <1>2, <1>8
  <2>5. QED
    BY <1>1, <1>9, <2>1, <2>2, <2>3, <2>4 DEF FromFile, Written
<1>11. NotOverridden'
  <2>1. conf'.user = WrittenUser /\ conf'.group = WrittenGroup /\ conf'.pool = WrittenPool
    BY <1>2, <1>3, <1>4 DEF WrittenUser, WrittenGroup, WrittenPool
  <2>2. QED
    BY <1>1, <2>1 DEF NotOverridden, WrittenUser, WrittenGroup, WrittenPool, Written
<1>12. SingleValues'
  BY <1>1 DEF SingleValues
<1>13. QED
  BY <1>1, <1>10, <1>11, <1>12 DEF ConfigInv, Runs

LEMMA ConfigInvNext ==
  CommandInv /\ ReadAsWritten /\ ConfigInv /\ [Next]_vars => ConfigInv'
<1> SUFFICES ASSUME CommandInv, ReadAsWritten, ConfigInv, [Next]_vars
             PROVE  ConfigInv'
  OBVIOUS
<1>same. ASSUME UNCHANGED <<args, setting, meant>>,
                UNCHANGED <<conf.storage, conf.work, conf.log, conf.magazine>>,
                UNCHANGED <<conf.user, conf.group, conf.pool>>,
                \/ stage' = stage /\ UNCHANGED conf
                \/ stage = "begin" /\ stage' = "config" /\ UNCHANGED conf
                \/ Runs /\ stage' \in {"user", "log", "validate", "mount"}
         PROVE  ConfigInv'
  <2>1. SingleValues'
    BY <1>same DEF ConfigInv, SingleValues
  <2>2. FromFile => FromFile'
    BY <1>same DEF FromFile, Written
  <2>3. NotOverridden => NotOverridden'
    BY <1>same DEF NotOverridden, WrittenUser, WrittenGroup, WrittenPool, Written
  <2>4. Overridden => Overridden'
    BY <1>same DEF Overridden, WrittenUser, WrittenGroup, WrittenPool, Written, Given
  <2>5. QED
    BY <1>same, <2>1, <2>2, <2>3, <2>4 DEF ConfigInv, Runs
<1>over. ASSUME stage' = "exit", Forget
         PROVE  ConfigInv'
  BY <1>over DEF Forget, ConfigInv, SingleValues, Single, NoSettings, Runs
<1>1. CASE \/ RefuseCmdline \/ RefuseConfig \/ FailToBecomeUser
           \/ FailToOpenLog \/ FailToValidate
  BY <1>1, <1>over DEF RefuseCmdline, RefuseConfig, FailToBecomeUser,
     FailToOpenLog, FailToValidate, Exit
<1>2. CASE UNCHANGED vars \/ End \/ LookupMagazine
  BY <1>2, <1>same DEF vars, process, iniVars, End, LookupMagazine
<1>3. CASE MountDirectory \/ MountFound
  BY <1>3, <1>same DEF MountDirectory, MountFound, Fill, iniVars
<1>4. CASE ParseCmdline \/ BecomeUser \/ OpenLog
  BY <1>4, <1>same DEF ParseCmdline, BecomeUser, OpenLog, Step, Runs, iniVars
<1>5. CASE ReadConfigFile
  <2>1. SingleValues'
    BY <1>5, ReadFileKeepsSingle DEF ReadConfigFile, ConfigInv
  <2>2. stage = "config" /\ UNCHANGED <<stage, conf>>
    BY <1>5 DEF ReadConfigFile, process
  <2>3. QED
    BY <2>1, <2>2 DEF ConfigInv, Runs
<1>6. CASE TakeConfig
  BY <1>6, ConfigTaken
<1>7. CASE Override
  <2>1. /\ stage = "override" /\ stage' = "user" /\ UNCHANGED <<args, setting, meant>>
        /\ FromFile /\ NotOverridden /\ cmdl = Cmdl(args)
    BY <1>7 DEF Override, Step, iniVars, ConfigInv, CommandInv, Parsed
  <2>2. /\ UNCHANGED <<conf.storage, conf.work, conf.log, conf.magazine>>
        /\ conf'.user = Unless(cmdl.user, conf.user)
        /\ conf'.group = Unless(cmdl.group, conf.group)
        /\ conf'.pool = Unless(cmdl.pool, conf.pool)
    BY <1>7 DEF Override, CommandInv, Defaults
  <2>3. /\ cmdl.user = Given("user") /\ cmdl.group = Given("group")
        /\ cmdl.pool = Given("pool")
    BY <2>1, CmdlOptions DEF Given
  <2>4. SingleValues' /\ FromFile'
    BY <2>1, <2>2 DEF ConfigInv, SingleValues, FromFile, Written
  <2>5. Overridden'
    BY <2>1, <2>2, <2>3 DEF NotOverridden, Overridden, WrittenUser, WrittenGroup,
       WrittenPool, Written, Given
  <2>6. QED
    BY <2>1, <2>4, <2>5 DEF ConfigInv, Runs
<1>8. CASE Validate
  <2>1. /\ Runs /\ stage' = "mount" /\ UNCHANGED <<args, setting, meant>>
    BY <1>8 DEF Validate, Step, iniVars, Runs
  <2>2. /\ UNCHANGED <<conf.storage, conf.work, conf.log, conf.magazine>>
        /\ UNCHANGED <<conf.user, conf.group, conf.pool>>
    BY <1>8 DEF Validate, CommandInv, Defaults
  <2>3. QED
    BY <1>same, <2>1, <2>2
<1>9. QED
  BY <1>1, <1>2, <1>3, <1>4, <1>5, <1>6, <1>7, <1>8 DEF Next

(***************************************************************************)
(* Every setting is the last one that is written for it, unless a default, *)
(* which may follow the storage resource, or the command line stands for   *)
(* it: for any file, command line and number of magazines.                 *)
(***************************************************************************)
THEOREM ConfigIsAsWrittenHolds == Spec => []ConfigIsAsWritten
<1>1. ConfigInv => ConfigIsAsWritten
  BY DEF ConfigInv, ConfigIsAsWritten, FromFile, Overridden, WrittenUser, WrittenGroup,
     WrittenPool
<1>2. QED
  BY CommandInvInit, CommandInvNext, ConfigInvInit, ConfigInvNext, ReadAsWrittenHolds,
     <1>1, PTL DEF Spec
=============================================================================
