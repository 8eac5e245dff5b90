---------------------------- MODULE MountLookup -----------------------------
(***************************************************************************)
(* GetMountpointFromUUID() and GetDevMountpoint() (src/src/uuidlookup.c,   *)
(* with udev and getmntent): where is the filesystem of a UUID mounted?    *)
(*                                                                         *)
(* The mount table is read anew for the device node and for each of its    *)
(* aliases, and filesystems are mounted and unmounted meanwhile.           *)
(***************************************************************************)
EXTENDS Naturals, Sequences, SequencesExt

CONSTANTS
    Dir,          \* mountpoints
    Device,       \* [matches, node, aliases]: has it the UUID, its DEVNAME
                  \* ("" for none) and its DEVLINKS
    MaxMounts,    \* the longest mount table
    MaxChanges    \* how often mounts and devices change meanwhile

ASSUME LookupAssumption == MaxMounts \in Nat /\ MaxChanges \in Nat
ASSUME DeviceAssumption ==
    /\ IsFiniteSet(Device)
    /\ Device \subseteq [matches : BOOLEAN, node : STRING, aliases : Seq(STRING)]

VARIABLES
    table,      \* the mount table: [name, dir], the oldest first
    attached,   \* the devices that are there
    devices,    \* as udev listed them
    look,       \* where the lookup is
    at,         \* the device it is at
    next,       \* the alias of it that comes next
    rc,         \* what is returned: 0, or an error's number without its sign
    found,      \* the mountpoint
    was,        \* the entries of the table since the lookup began
    stayed,     \* those that were there all the time
    unread,     \* the aliases for which the table could not be read
    changes     \* what came and went since then

outside == <<table, attached, changes>>
seen == <<was, stayed, unread>>
lookVars == <<outside, devices, look, at, next, rc, found, seen>>

NamesOf(d) == ({d.node} \ {""}) \cup ToSet(d.aliases)
Entry == [name : UNION {NamesOf(d) : d \in Device}, dir : Dir]
NoDir == "no directory"

LookTypeOK ==
    /\ table \in Seq(Entry) /\ Len(table) <= MaxMounts
    /\ attached \in SUBSET Device
    /\ devices \in Seq(Device)
    /\ look \in {"idle", "device", "node", "alias", "done"}
    /\ at \in 1..Len(devices) + 1
    /\ next \in Nat \ {0}
    /\ rc \in {0, 1, 3, 4}
    /\ found \in Dir \cup {NoDir}
    /\ was \in SUBSET Entry /\ stayed \in SUBSET was
    /\ unread \in SUBSET UNION {NamesOf(d) : d \in Device}
    /\ changes \in 0..MaxChanges

NoLookup ==
    /\ table = << >> /\ attached = Device /\ devices = << >>
    /\ look = "idle" /\ at = 1 /\ next = 1
    /\ rc = 3 /\ found = NoDir
    /\ was = {} /\ stayed = {} /\ unread = {} /\ changes = 0

-----------------------------------------------------------------------------
(***************************************************************************)
(* The lookup begins: udev lists the devices with the UUID, each once, in  *)
(* any order.                                                              *)
(***************************************************************************)
Orders(set) == {s \in [1..Cardinality(set) -> set] : ToSet(s) = set}
Tables == UNION {[1..n -> Entry] : n \in 0..MaxMounts}

Enumerate ==
    /\ look = "idle" /\ look' = "device"
    /\ table' \in Tables /\ attached' \in SUBSET Device
    /\ devices' \in Orders({d \in attached' : d.matches})
    /\ at' = 1 /\ next' = 1 /\ rc' = 3 /\ found' = NoDir
    /\ was' = ToSet(table') /\ stayed' = ToSet(table') /\ unread' = {}
    /\ changes' = 0

(* Filesystems and devices come and go.                                    *)
Change ==
    /\ look \notin {"idle", "done"}
    /\ changes < MaxChanges /\ changes' = changes + 1
    /\ UNCHANGED <<devices, look, at, next, rc, found>>

Remember ==
    /\ was' = was \cup ToSet(table')
    /\ stayed' = stayed \cap ToSet(table')
    /\ UNCHANGED unread

MountDevice ==
    /\ Change
    /\ Len(table) < MaxMounts
    /\ \E e \in Entry : table' = Append(table, e)
    /\ Remember
    /\ UNCHANGED attached

Unmount ==
    /\ Change
    /\ \E i \in DOMAIN table : table' = RemoveAt(table, i)
    /\ Remember
    /\ UNCHANGED attached

Unplug ==
    /\ Change
    /\ \E d \in attached : attached' = attached \ {d}
    /\ UNCHANGED <<table, seen>>

-----------------------------------------------------------------------------
Finish == look' = "done"

(* A device that is gone meanwhile is passed over, and one without a       *)
(* device node ends the search.                                            *)
NoMoreDevices ==
    /\ look = "device" /\ at > Len(devices)
    /\ Finish
    /\ UNCHANGED <<outside, devices, at, next, rc, found, seen>>

PassDevice ==
    /\ look = "device" /\ at <= Len(devices)
    /\ devices[at] \notin attached
    /\ at' = at + 1
    /\ UNCHANGED <<outside, devices, look, next, rc, found, seen>>

TakeDevice ==
    /\ look = "device" /\ at <= Len(devices)
    /\ devices[at] \in attached
    /\ IF devices[at].node = "" THEN Finish ELSE look' = "node"
    /\ UNCHANGED <<outside, devices, at, next, rc, found, seen>>

(***************************************************************************)
(* GetDevMountpoint(): the first entry of the table with that name.        *)
(***************************************************************************)
SomeMount(name) == IF table = << >> THEN 0 ELSE 1
FirstMount(name) == SelectInSeq(table, LAMBDA e : e.name = name)
IsMounted(name) == FirstMount(name) # 0

Answer(name) ==
    /\ IsMounted(name)
    /\ rc' = 0 /\ found' = table[FirstMount(name)].dir
    /\ Finish
    /\ UNCHANGED <<outside, devices, at, next, seen>>

LookupNode ==
    /\ look = "node"
    /\ Answer(devices[at].node)

NodeNotMountedEnds ==
    /\ look = "node" /\ look' = "done"
    /\ ~IsMounted(devices[at].node)
    /\ rc' = 4
    /\ UNCHANGED <<outside, devices, at, next, found, seen>>
NodeNotMounted ==
    /\ look = "node" /\ look' = "alias"
    /\ ~IsMounted(devices[at].node)
    /\ rc' = 4
    /\ UNCHANGED <<outside, devices, at, next, found, seen>>

(* The table cannot be opened, which is an error of the lookup.            *)
NodeUnknown ==
    /\ look = "node" /\ Finish
    /\ rc' = 1
    /\ UNCHANGED <<outside, devices, at, next, found, seen>>

Aliases == devices[at].aliases

LookupAlias ==
    /\ look = "alias" /\ next <= Len(Aliases)
    /\ Answer(Aliases[next])

PassAlias ==
    /\ look = "alias" /\ next <= Len(Aliases)
    /\ ~IsMounted(Aliases[next])
    /\ next' = next + 1
    /\ UNCHANGED <<outside, devices, look, at, rc, found, seen>>

(* The table cannot be opened again.  For an alias that is not an error:   *)
(* the lookup goes on as if nothing were mounted under this name.          *)
AliasUnknown ==
    /\ look = "alias" /\ next <= Len(Aliases)
    /\ next' = next + 1
    /\ unread' = unread \cup {Aliases[next]}
    /\ UNCHANGED <<outside, devices, look, at, rc, found, was, stayed>>

NoMoreAliases ==
    /\ look = "alias" /\ next > Len(Aliases)
    /\ Finish
    /\ UNCHANGED <<outside, devices, at, next, rc, found, seen>>

Lookup ==
    \/ NoMoreDevices \/ PassDevice \/ TakeDevice
    \/ LookupNode \/ NodeNotMounted \/ NodeUnknown
    \/ LookupAlias \/ PassAlias \/ AliasUnknown \/ NoMoreAliases

Others == MountDevice \/ Unmount \/ Unplug

-----------------------------------------------------------------------------
(***************************************************************************)
(* A mountpoint that is found belongs, or did while it was looked for, to  *)
(* a device with the UUID.                                                 *)
(***************************************************************************)
FoundIsMounted ==
    look = "done" /\ rc = 0 =>
        \E d \in Device : /\ d.matches
                          /\ \E n \in NamesOf(d) : [name |-> n, dir |-> found] \in was

(***************************************************************************)
(* A lookup that says that a filesystem is not there or not mounted is     *)
(* right: if no other device has its UUID and it stayed mounted, whatever  *)
(* else changed, then under an alias for which the table could not be      *)
(* opened.  (uuidlookup.c:245 says without this exception: "If found, and  *)
(* the filesystem is mounted, returns the first mountpoint found".)        *)
(***************************************************************************)
OnlyDevice(d) ==
    d.matches /\ \A c \in Device : c.matches /\ c \in ToSet(devices) => c = d

MountedIsFound ==
    look = "done" /\ rc \in {3, 4} =>
        \A d \in attached : OnlyDevice(d) /\ d.node # "" =>
            \A e \in stayed : e.name \notin NamesOf(d) \ unread

(***************************************************************************)
(* The lookup and the mount table agree, as far as a table that changes    *)
(* meanwhile can be agreed with.                                           *)
(***************************************************************************)
LookupAgrees == FoundIsMounted /\ MountedIsFound
=============================================================================
