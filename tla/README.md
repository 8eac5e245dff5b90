# A verification of vchanger

vchanger makes disk magazines (mounted filesystems full of Bacula volume files)
look like one tape autochanger. Bacula runs `vchanger config command slot device
drive` for every question and every change; udev and the operator run it too. Each
invocation reads the state of the changer from the work directory, looks at which
magazines are mounted, maps their volumes to virtual slots, restores the virtual
drives, does its command, saves, and if the mapping changed runs `bconsole` so that
Bacula asks for the slots again, by running vchanger.

What can go wrong is not in any one function. It is in the order in which
processes that wait for each other take two semaphores, in what an invocation that
was killed leaves in a directory of small files, and in the long sequences of
mounts and unmounts through which the slot mapping is carried along. Around that
are smaller machines with hazards of their own: two pipes to a child process, a
conversion of old magazines that may be interrupted, a parser, and a lookup in a
mount table that changes while it is read. That is what the modules here are about.
All paths below are relative to the repository; the code is in `src/src/`.

## 1. The system

| component | state | operations | what makes it correct |
|---|---|---|---|
| Command and bconsole mutexes (`vchanger.cpp` `main()`, `mymutex.cpp`) | two named semaphores in the kernel, which outlive every process | lock, try, post ("destroy"), run bconsole | one invocation at a time touches the state; nobody waits for good; no path keeps a semaphore; what is saved reaches Bacula |
| Slots and magazines (`changerstate.cpp` `MagazineState`, `DynamicConfig`; first half of `DiskChanger::Initialize()`) | `bay_state-N`, `dynamic.conf`; the array of virtual slots | restore, mount, keep slots, find free slots, save, CREATEVOLS | volumes and slots correspond; slots are kept when they can be; a change is noticed, and only a change; the changer never shrinks |
| Drives (`DiskChanger` drive functions, `DriveState`) | `drive_state-N`, the symlinks `N` | restore, LOAD, UNLOAD | a drive reported loaded is loaded; no volume in two drives; nobody moves another drive's symlink |
| One `DiskChanger` (`diskchanger.cpp`) | all of the above | map the slots, then the drives, then one command | a loaded drive stays with its volume while slots move |
| bconsole (`bconsole.cpp`, `mypopen.cpp`) | a child process, two pipes | fork, exec, write, wait, read | every call closes its ends of the pipes, a bconsole it leaves running was reported as failed, an answer reported as a success was read in full, and neither waits for the other for good |
| Magazine files (`MagazineState::Mount/CreateVolume`, `UpdateMagazineFormat`, `DiskChanger::CreateVolumes`) | the volume files; the index of an old magazine | convert, list, number, create | no old volume is lost, and a new one only in one known case; old volumes keep their names; new names are new |
| State file syntax (`tstring.cpp`, CSV) | none | write, parse | what was written is what is read |
| Command line, configuration (`vchanger.cpp`, `vconf.cpp`, `inifile.cpp`) | none after start | parse, override, validate | the command that runs is the one that was typed, with the settings that were written |
| Mountpoint lookup (`uuidlookup.c`), privileges (`util.cpp`) | the process's user | enumerate devices, scan the mount table; `drop_privs()` | a directory that is found was mounted; files belong to the configured user |
| Logging, `compat/`, udev scripts | none of the changer | | |

`main()` parses the command line, reads the configuration, drops root's privileges
and opens the log; takes the command mutex; calls `DiskChanger::Initialize()`, which
calls `InitializeMagazines`, `InitializeVirtSlots` and `InitializeDrives` in this
order; performs the command; and may run bconsole. Invocations share the work
directory under the command mutex. bconsole tells Bacula, and Bacula runs vchanger: the
program calls itself through two other programs while the first call still waits.

The hard behaviours are these, and `hazards` in PROJECT.json lists them at their lines:

- instances that nest through bconsole and take and give back two semaphores in
  the middle of `main()`; a wait that times out after 300 s;
- a killed process: semaphores are never removed, so its count is gone; its state
  files are old, new, empty, or some of each; its symlinks have no state file or
  its state files no symlink;
- operations that fail half way and return with part of their work saved;
- sequences of mounts, unmounts, added, removed and exchanged volumes, after which saved
  ranges overlap and drives look for volumes that moved;
- an update that only one process knows of;
- a child and its parent on two pipes of limited size;
- a conversion by renames, interrupted anywhere and begun again;
- parsers that come to the same state by many ways.

## 2. The modules

| module | what it is |
|---|---|
| `CommandMutex`, `CommandMutexProofs` | `main()` of any number of invocations, the two semaphores, nesting, crashes, time-outs, failing execs |
| `Catalog` | `CommandMutex` composed with the mapping that is saved and what Bacula has been told |
| `BconsolePipe`, `BconsolePipeProofs` | one instance, its bconsole, and the two pipes between them, one system call a step |
| `SlotMap` | the array of virtual slots and the operators on it; what a free range is |
| `SlotSearch`, `SlotSearchProofs` | the loops of `FindEmptySlotRange()`, one iteration a step; that they compute what `SlotMap` says |
| `MagazineBays` | how the volumes of the magazines get their slots, from one invocation to the next |
| `Autochanger` | what an autochanger promises about its drives: an abstract specification |
| `VirtualDrives`, `VirtualDrivesProofs` | the drives, their state files and symlinks, one change of the disk a step; implements `Autochanger` |
| `DiskChanger` | `MagazineBays` and `VirtualDrives` composed, with volumes that have names; implements `VirtualDrives` |
| `DiskChangerProofs` | the theorems about both: its first part is about `MagazineBays`, the second about the whole |
| `MagazineFiles`, `MagazineFilesProofs` | the files of one magazine: conversion of the old format, listing, CREATEVOLS |
| `IniFile`, `CommandLine`, `MountLookup` | the reader of the configuration file; `parse_cmdline()`; the lookup of a mountpoint |
| `Startup`, `StartupProofs` | the three composed with `VchangerConfig` and `drop_privs()`: `main()` up to the command |
| `StateFile`, `StateFileProofs` | one state file: written as names are, read by `tParseCSV()` |
| `MC...` | the small instances TLC checks |

    Startup  =  CommandLine + IniFile + MountLookup          main() up to the mutex
    Catalog  =  CommandMutex + what is saved, what is told   main() from the mutex on
    DiskChanger  =  MagazineBays + VirtualDrives             between lock and unlock
        |implements                  |implements
        v                            v
    VirtualDrives  ------------>  Autochanger

A definition whose name the code also has is the code's; operators with names like
`KeepCommand` or `CanKeepOffByOne` that are defined just before a definition of the
model and used nowhere are plausible wrong versions of it. PROJECT.json
(`mutants`) says which property finds each of them.

### CommandMutex, Catalog

`command` and `bconsole` are the semaphores' counts. `pc[p]` is where invocation
`p` is in `main()`:

| `pc` | in `main()` |
|---|---|
| `lock` | `mymutex_lock(command_mux, 300)`, line 621 |
| `timeout` | it timed out, and `mymutex_destroy` is next |
| `work` | `Initialize()` and the command, lines 628-696 |
| `release` | the `mymutex_destroy` of an early return |
| `enter` | `mymutex_lock(bconsole_mux, 0)`, line 710 |
| `skip` | the `mymutex_destroy` of the mutex it did not get, line 717 |
| `unlock`, `issue`, `wait` | lines 726-727: the command mutex is posted, commands are issued, bconsole runs |
| `relock`, `post1`, `post2` | lines 728-733 |

`mymutex_destroy()` is `sem_post`, `sem_close` and a `sem_unlink` of a name no
semaphore has (`sem_open` was given `/vchanger-...`), so in the model it is a post.
The two calls at the end have their handles exchanged: the first posts the command
semaphore.

`caller[q]` is the invocation whose bconsole started `q`. `BconsoleExits` waits for
the invocations Bacula runs to answer; `BconsoleLost` is the other case, in which
bconsole is killed or its own time limit ends it while they go on. `ForkWithoutExec`
is the child whose `execvp` fails: it returns from `do_mypopen_raw()` into `main()`
and does the rest of it a second time.

`Catalog` adds a version number to what is mounted (`media`), to the mapping in the state
files (`saved`) and to every list Bacula has read (`told`). `Initialize()` saves the new
mapping at once, so that only the instance that found it (`owes`) knows that Bacula has to be
told. `dropped` holds the versions an instance gave up knowingly: its command
failed, it skipped bconsole, or its bconsole ended without asking.

### BconsolePipe

The state of a pipe is the number of bytes in it (`input`, `output`), and `open` is the set
of ends each process has open: what a read or a write does depends on both. vchanger's steps are
those of `do_mypopen_raw()` (`stdin`, `stdout`, `fork`, `started`) and of
`issue_bconsole_command()` (`select` to `read`): it writes the command, closes, *waits for the
child*, and only then reads. Each command has two pipes and a bconsole of its own, because a
call that returns after a failing `select()` or `write()` (`SelectFails`, `WriteFails`) closes its
ends and does not wait: its bconsole goes on beside the next one, until it has met the end of
its input and cannot print. A failing `waitpid()` leaves in `rc` what the last `write()` returned, so
the status is that of a killed process or of any exit (`WaitErrorReturns`, `WaitErrorPasses`).
`pipe()`, `fork()` and `read()` may fail too, and bconsole may be killed anywhere, or come back
from a failed `execvp` and exit with 0 as a copy of vchanger. The closing of descriptors does
not fail.

### SlotMap, SlotSearch, MagazineBays

A magazine is the number of its volumes: they get magazine slots 0, 1, ... in
alphanumeric order and the magazine gets a range of virtual slots, so nothing in the
mapping depends on which they are. `Begin` is `dconf.restore()` and, for each magazine, `restore()` and
`Mount()`; `Keep`, `Assign` and `SaveBays` are the three loops of
`InitializeVirtSlots()`, one magazine a step, with `m` the loop variable; and
`SaveDynamic` what follows them. `settled` and `reported` are observers: whether
the last mapping was saved with nothing changed since, and the last answer to SLOTS.

`FindEmptySlotRange` in `SlotMap` is a CHOOSE of the lowest slot that fits.
`SlotSearch` has the loops themselves; that both are the same is checked and
proved, and `MagazineBays` uses the short one.

The operator's actions are only taken while nothing runs: an invocation looks at the
magazines once. A state file that was opened and not written is empty, and
is read like one that does not exist; `LossyWrites` allows it at any save (the result
of `fclose()` is not looked at).

### VirtualDrives, Autochanger

A state file is the volume it names or `Empty`; a symlink is a volume at a
mountpoint. Between two invocations (`Remap`) the slots and mountpoints become anything a
mapping allows: `VirtualDrives` is about the drives whatever the slots do.
An invocation restores the drives one at a time (`pc` is `restore`, `forget`,
`unread`, `link`), and is then `ready` for a command. LOAD changes the symlink (`link`) and then the state
file (`save`), UNLOAD too (`unload`), and an invocation can be killed between any two
changes. `DiskErrors` lets the calls of this part fail where the code does not stop: symlinks
cannot be made, read or removed; a state file cannot be opened, written, read or removed, and
`SaveLoaded` may leave it empty without noticing, since `fclose()` is where the buffered line is
written. `RestoreUnread` and `ForgetUnread` are the restore of a drive whose state file could not
be read (it and the symlink are removed) or looked for (the symlink is).

The tables in memory are `vs` (`DriveState::vs`) and `slotDrv` (`VirtualSlot::drv`).
The refinement mapping to `Autochanger` takes the volumes in the slots for
`available` and the state files for `loaded`: the LOAD takes effect when the state file is written, the
UNLOAD when it is deleted.

### DiskChanger

`MagazineBays` knows how many volumes there are, `VirtualDrives` which is in which slot.
`DiskChanger` extends the one and instantiates the other, and adds what joins them: the
names on each magazine (`labels`) and where it is mounted (`place`). Names are numbers, for
their order; two magazines may have the same name. `Nth` is the volume with a magazine slot
(the sort in `Mount()`), and `MapVolumes` the moment from which a slot has a volume. Each
action of the composition is an action of one part and a stutter of the other, except the
ends of the process. `had` remembers what the state files of the drives said when the
invocation read them.

### MagazineFiles

One directory. A volume's name is a number, its contents a value of its own, so that a lost or
renamed volume shows. `Mount` starts the conversion if `index` is there; `Come` is `readdir()`
coming to the next drive in any order; the pass of renames, the pass of deletions and the removal of
`index` follow. `List` makes the slots, `CreateVolumes` looks for the highest number up
to five times the number of slots, and `CreateVolume` tries names until one is free. `Crash` can
happen anywhere (the second `opendir()` of the conversion is not checked, and its failure is a crash).
`Fails` says which calls may fail: the first `opendir()`, after which `Mount()` goes on with the old files
(`MountUnconverted`), a `rename()`, the `unlink()` of a `loadedN` (`DeleteLoadedFails`) or of `index`, and
the `fopen()` of a new volume. `failed` and `kept` are observers: the volumes
whose rename failed, and the drives whose `loadedN` a conversion left.

### Startup, with IniFile, CommandLine and MountLookup

`IniFile` is the state machine of `IniFile::Read()`, one token a step; a token is a kind and
a word, and texts are sequences of words. `line` and `meant` are observers: what is
written in the file, read by a definition (`ReadAsWritten`) and not by the machine. `CommandLine` has
no state: `Accepts` and `Cmdl` are `parse_cmdline()`, on options and numbers that are
already separated, with the cast from long to int (`ToInt`). In `MountLookup` the mount table is
a sequence that changes while the lookup reads it, once for the device's node and once for
each alias. If it cannot be opened for the node the lookup ends (`NodeUnknown`), and for an alias it
goes on as if nothing were mounted under it (`AliasUnknown`; the observer `unread` has these names). The devices come in an order nobody chose, each once (`Orders`). `Startup` is `main()`: the `stage` it has come to, the configuration
`conf`, the user the process `runsAs`, and the files it `made`.

### StateFile

The characters the syntax knows, and those of names, of which the small instance needs
one that has no meaning and the theorem none. The line is written as
the names are (`Line`), and `ReadLine`, `SkipBlanks`, `TakeCharacter` and so on are the branches of
`tGetLine()`, `tRemoveEOL()`, `tParseCSV()` and `tParseStandard()`. A CR ends a line for the
parser: within a field it ends the field and stays, at the beginning of one it makes `tParseCSV()` say
that the line has ended (`EndLine`), which the two readers take differently. What the escapes in a quoted
text mean is left out, since its loop does not end.

## 3. The runs

All twelve pass. `Crashes`, `LockTimeouts`, `ExecFailures`, `LossyWrites`,
`DiskErrors`, `Faults` and `Fails` say which faults a run allows.

| run | instance | what it shows |
|---|---|---|
| `mutex_recovery` | 3 invocations; crashes, time-outs, failing execs; fair | `FreeAtRest`: no path through `main()` keeps a semaphore, unless its process is killed; `LostCommandIsRestored`: when a killed holder took the only count, a waiter's time-out brings it back |
| `catalog_sync` | 3 invocations, 2 changes of the media; no faults; fair | `CommandExclusion`; `EverySavedMappingIsReported`; `EveryInvocationEnds`: the ring vchanger, bconsole, Bacula, vchanger does not deadlock; `BconsoleAccount`: the excess of the bconsole semaphore is the number of instances that skipped |
| `bconsole_pipe` | 2 commands, pipes of 3 bytes, commands of 2, answers of up to 4; faults; fair | `NothingLeftBehind`, `AnswerReadInFull`; `EveryCommandReturns`, unless an answer is longer than a pipe |
| `slot_search` | arrays of 1 to 7 slots, any of them taken, ranges of 1 to 4; fair | `ReturnsLowestFit`, `SearchEnds` |
| `bays_mapping` | 3 magazines of up to 2 volumes | `KeepsSlots`, `UpdateIffRangesChange`, `SlotsNeverDecrease` |
| `bays_faults` | 2 magazines of up to 3 volumes; crashes, lost writes | `SlotsMatchVolumes`; `RefreshIsIdempotent`: a second REFRESH changes nothing |
| `drives_crash` | 2 drives, 3 slots, 2 volumes, 2 mountpoints; crashes | `DrivesAgree`, `NoSlotInTwoDrives`, and `IsAutochanger` |
| `drives_errors` | the same; crashes and failing file operations | `LoadedDrivesAgree`, `LinkStaysWithItsDrive` |
| `diskchanger` | 2 magazines that share a name, 1 drive; crashes | `ImplementsDrives`; `LoadedVolumeStays`; `NothingMovesSilently` |
| `magazine_files` | 2 old drives, numbers up to 3; crashes, failing calls | `ConvertedKeepNames`, `NoVolumeLost`, `NextIsFree`, `NewNumbersComeLast` |
| `startup` | files of up to 7 tokens, command lines of every kind, mount tables of 2 | `ReadAsWritten` and `ReadsStatements`, `CommandIsAsTyped`, `ConfigIsAsWritten`, `FilesBelongToUser`, `LookupAgrees` |
| `state_file` | all names of 1 and 2 characters, volumes with 3; fair | `RestoredIsWritten`; `ReadingEnds`, unless the name has a quoted text |

Why these bounds are enough:

- *Mutexes.* The properties are about pairs of invocations; the smallest cases that differ
  need one that waits for bconsole, one nested in it, and one that is not. `SemValueMax` is above
  what they can add. Two changes of the media let a second one come between the first and
  its report.
- *Pipes.* Two bytes and a newline fill a pipe of three, answers are shorter and longer than
  one, and a command is shorter, as in the program (8191 and 65536).
- *Slots.* Overlaps between magazines need three to have one that keeps its slots, one that
  loses them to it and one in the gap; with two volumes a range has a first and a last slot,
  with three an inner one. `MinSlots` is 2 in place of 10 so that the array has to grow.
- *Drives.* Two drives are enough for a volume to be in both; the third slot and the
  second mountpoint let volumes move.
- *DiskChanger.* Here volumes move because magazines do, with names of which one is on both;
  one drive and one mountpoint, as pairs of drives and moved magazines are the business of
  `VirtualDrives`. `MinSlots` is 4, and the 6 `Slots` are all that ranges ever reach (`SlotBound`, proved). `VIEW
  Relevant` leaves out variables that no action of `DiskChanger` and no property of the run reads: the observers of
  `MagazineBays`, and the mountpoint of a magazine without volumes.
- *Files.* Two drives, each of which may have no volume, or a volume without a name; four numbers are
  two for the drives' volumes, one for a volume beside them, and one for a new one between or
  after them. A volume beyond the reach of five times the slots needs more numbers, and is the
  theorem's. The drives are
  permuted by symmetry; no property tells them apart and none is about liveness.
- *Startup.* Seven tokens hold a keyword, a value, a continued or quoted value and the
  beginning of a second statement. The constraint `Bounded` does not multiply what is independent:
  all files with one command line, all command lines with short files, all lookups
  with one file. `IntHalf` is 4: an int wraps at 8.
- *State files.* The seven characters that mean something to `tGetLine()`, `tStrip()` and the parser,
  and one that does not. With two characters every action is taken; a third one is inside of
  what two begin and end. (What happens after a backslash in a quoted text is not distinguished.)

The theorems are what says that nothing happens only in larger instances.

`CHECK_DEADLOCK FALSE` is given in `bconsole_pipe` only: an answer longer than the pipe does
stop both processes.

Fairness: `FairSpec` and `CatSpec` are weak fairness of what each invocation does by itself. The
kernel schedules a process that can run, `sem_timedwait` returns, and a
bconsole that has its answers exits. It is weak although two processes may compete for a
semaphore: an invocation passes it on at most twice and invocations are finitely
many, so the semaphore stays available in the end. Nobody is obliged to start an
invocation, to kill one, to change a magazine, or to give up on bconsole. `BconsolePipe` has weak
fairness of each of its two processes, whose system calls block only where the guards say;
`SlotSearch` and `StateFile` of their one thread. The other specifications have none, and
their properties need none.

### What was met in the code

The properties say what does hold. Where a comment or a document says more, this is the difference:

- *Mutexes.* The instance that did not get the bconsole mutex posts it (`vchanger.cpp:717`), so a
  later one may run bconsole inside bconsole, which the comment at 712-715 excludes; it stays
  without a deadlock (`EveryInvocationEnds`), and the count grows by one each time
  (`BconsoleAccount`). After 300 s the command mutex is posted for its holder (624), against the
  comment at 628; hence `NoTimeouts` below. Without that post, though, a killed holder would lock
  the changer until the next boot (`LostCommandIsRestored`).
- *Updates.* An instance that skips bconsole, or whose command fails, has saved the mapping
  already, and nobody finds the update again (`vchanger.cpp:710-719`, against `doc/vchanger.8:145`);
  `dropped` in `Catalog` collects these. A CREATEVOLS that fails half way saves the magazine with its
  new volumes, which then are mapped without an update.
- *bconsole.* `waitpid` comes before the read (`bconsole.cpp:138`): an answer longer than a pipe
  blocks both, and the 30 s of `select` are not waited for, since a new pipe has room. When `select`
  or a write fails (96-134), the call returns without `waitpid`, and bconsole goes on while
  vchanger takes the command mutex back and may start the next one (`NothingLeftBehind` says what is
  true then). The result of `waitpid` is not looked at. A child whose `execvp` failed exits with 0, and
  vchanger reports a success.
- *Slots.* A lost write of `dynamic.conf` makes the changer smaller (`changerstate.cpp:782`), which
  `doc/vchangerHowto.html:864` says never happens; hence `NoLostWrites`. Files exchanged for as
  many others are not noticed (`diskchanger.cpp:174`; `Exchanged` in `NothingMovesSilently`).
- *Drives.* If the symlink of a restored drive cannot be made, the drive is left unloaded with its state
  file, and the slot may be loaded in another drive (`diskchanger.cpp:532`, against `ChangeLog:18`);
  hence `NoDiskErrors`. A crash in a LOAD of a drive numbered above all state files leaves a symlink
  that neither `Initialize()` nor UNLOAD removes (655); `DrivesAgree` says nothing of it. A drive finds
  its volume by the name alone (518): with one name on two magazines it may get the other's volume, and
  two drives the same slot (`OnlyOne` in `LoadedVolumeStays`; `DistinctNames`). `SaveDriveState()` does not look at the
  result of `fclose()` (438): on a full disk LOAD succeeds with an empty state file (`JustLoaded` in
  `LoadedDrivesAgree`), and the next invocation removes it and the symlink, though Bacula has the drive loaded.
  It also removes both when it cannot read a state file that is there (484-493; `CouldNotRead` in
  `LinkStaysWithItsDrive`).
- *Files.* A volume whose rename fails keeps the name `driveN` while `loadedN` and `index` are
  deleted; its name may be given to a new volume. If the removals fail too, which is not checked
  (`changerstate.cpp:438`, 446), or if the directory could not be read (361; `Mount()` does not look at the result),
  a later conversion renames `driveN` over that new volume, the one case in which contents are lost
  (`NameGivenTwice` in `NoVolumeLost`). The highest number is looked for up to five
  times the number of slots only (`diskchanger.cpp:702`), where
  `doc/vchanger.8.asciidoc:98` says a number greater than the highest in use.
- *Names.* State files are written without quotes: a comma shifts the fields, runs of
  blanks become one, a CR ends the line, and a quoted text in a name is read in an endless loop
  (`tstring.cpp:402`).
- *Start.* `getpwnam()` and `getgrnam()` may leave `errno` 0 for a name they do not know, and the
  process goes on as root (`Nameless` in `FilesBelongToUser`). Numbers beyond an int wrap (`Typed` in
  `CommandHasItsNumbers`). A list whose first value is empty is taken as not set. Only the
  first device udev lists with the UUID is looked up, and if that one is not mounted or has no node another
  one with the same UUID is not tried (the last `break` in `GetMountpointFromUUID()`), where the comment at
  `uuidlookup.c:245` promises the mountpoint of a filesystem that is mounted. The same comment is
  not kept for one that is mounted under an alias if the mount table cannot be opened for it (323; `unread` in
  `MountedIsFound`). The default log file is `LOGDIR/<storage resource>.log` (`vconf.cpp:111` and 171), and `ConfigIsAsWritten`
  has it there; `doc/vchanger.conf.5.asciidoc:67-72` and `doc/vchanger-example.conf:31-32` say that it is in the
  work directory, and the former that its name ends in `.conf` and that a relative path begins at the work directory,
  which the code does not do.

## 4. The theorems

`tlapm` checks every leaf of the proofs; PROJECT.json (`theorems`) lists the results. All are
for any values of the constants, which may have the faults on or off, unless an
assumption is named.

**CommandMutex.** `TypeOK` with every fault; `CommandExclusion` if no wait times out (`NoTimeouts`);
`FreeAtRest` if nobody is killed (`NoCrashes`). Exclusion is not inductive: where the count
can be taken depends on the states in which `main()` holds it without working. `IInv` says
that the holders, that is the invocations at any of `work`, `release`, `enter`, `skip`, `unlock`,
`post1`, exclude each other, and that the count is then 0, and never above 1. The exchanged handles do no
harm, because `post1` and `post2` are reached only with both. For `FreeAtRest`, `Accounted` says
that a semaphore is free or somebody who has it is running. `BconsoleAccount` if nobody is killed, every
bconsole starts, and the invocations are finitely many and fewer than the largest count
(`NoCrashes`, `NoExecFailures`, `CountsSuffice`): holders and posters are two finite sets that each step
changes by at most one, and who holds has not skipped (`AccountInv`).

**Catalog.** It implements `CommandMutex` (`CatalogImplementsMutex`), so that what is proved there holds of it.
`EverySavedMappingIsReported`, for any number of invocations and changes: the invariant says that
what is saved was told, was given up, or is owed by somebody on whose way there is still a bconsole
(`SavedIsCovered`, `OwedIsPending`), and that an answer to an update has a mapping at least as new as the one
that caused it, because an instance invoked by bconsole runs `Initialize()` after its caller
saved (`CallersHaveSaved`, `AnswersAreCurrent`).

**BconsolePipe.** Domains, `NothingLeftBehind` and `AnswerReadInFull`, with every fault of the model, for pipes,
commands and answers of any length. `PipeInv` says which ends of which command's pipes each process has open
in each of its states (`OpenByState`), that a bconsole which still runs is the current one or was
reported as failed, and that what was printed is what was
received and what is still in the pipe (`OutputAccount`): when the read ends, the
end of the file has come to an empty pipe that nobody can write to.

**SlotSearch.** For arrays and ranges of any size the loops return the lowest slot that fits
and extend the array as needed. The invariant says that `found` counts free slots up to
`n`, and that no range may begin before `start`.

**MagazineBays.** For any number of magazines and volumes, with crashes and lost writes:
`TypeOK`, `SlotsMatchVolumes`, `KeepsSlots`, `UpdateIffRangesChange` and `RefreshIsIdempotent`; and
`SlotsNeverDecrease` if no write is lost (`NoLostWrites`). Three invariants, one on the
other:

- `IInv` carries the correspondence through the loops for the magazines that
  have slots already, and says whose turn is still to come; `RangeMapped` is the one step both
  loops take, and `FitFound` that the search finds something (by well-foundedness of <).
- `KeepInv` adds why a magazine has other slots than before: of those the first loop has come to, each
  kept its range or one that was before it holds a slot of that range; and `needsUpdate` is true exactly if one of
  them was not kept. The second loop cannot give a magazine its old range back, since that is still taken.
- `BoundInv` bounds the slots, however long magazines come and go (`SlotsAreBounded`). Cut the array into windows
  of `MaxVolumes` slots: a range meets at most two, so of the first `2 * Bays - 1` windows one is
  free for the magazine that looks for a range, and the lowest free range never starts beyond it.
- `AgainInv` says that while `settled` the state files are those of the mapping, and their ranges
  are apart (`RangesApart`, from `IInv`); so the first loop keeps every magazine, and the second has
  nothing to do.

**VirtualDrives.** For any numbers of drives and slots: `TypeOK` with every fault. With
crashes, if no file operation fails (`NoDiskErrors`) and
no two volumes have the same name (`DistinctNames`): `DrivesAgree`, `NoSlotInTwoDrives`, and
`Spec => IsAutochanger`. The inductive invariant says that between two invocations only the
names in the state files differ (`FilesDiffer`); that is all a crash preserves and all
`Initialize()` needs. During an invocation every drive agrees but those in hand
(`InHand`), and of the drive in hand it says how far the invocation has come with it (`AtHand`).
`ExitKeeps` and `DriveRestored` are the two facts most steps use.

With failing file operations too, from `DistinctNames` alone: `LoadedDrivesAgree` and
`LinkStaysWithItsDrive`, for symlink and state file. `LoadedInv` is weaker than the invariant above (an unloaded drive may have
files, two state files may be the same) but survives every failure: whatever is loaded has its symlink and
its file (which is empty if the write of this very LOAD was lost), and a drive whose files are removed has no
volume that is there, or a state file that could not be read.

**DiskChanger.** For any numbers of magazines, slots and drives and any names: the composition is a
`MagazineBays` to the magazines (`VolumesHaveSlots`), and `ImplementsDrives`: whatever mapping comes
out of the magazines is one `VirtualDrives` takes as given, and does not change while the drives
are at work. `ChangerInv` takes `IInv` of `MagazineBays` over, says that a magazine has as many names as
volumes, that no volume is in two slots, and that the drives are off until the slots are mapped.
`NthVolume` is the fact about data: among finitely many names there is exactly one with
a given number of smaller ones (by well-foundedness). With it, the theorems of `VirtualDrives` hold of the
whole changer, if no two magazines have a volume of the same name (`NamesApart`): `ChangerIsAutochanger`.

Two more are about what moves, if the model's bound `Slots` is none (`SlotsSuffice`, that is
`Slots >= SlotBound`; by `SlotsAreBounded` no slot beyond is ever used):

- `NothingMovesSilently` rests on `InOrder`: from one mapping to the next, the volumes of a magazine are in
  consecutive slots by their names, so that a magazine with the range and the number it had
  has every volume where it was. That it has its range is `KeepInv`.
- `LoadedVolumeStays` holds with names used twice. `RestoreInv` says which drives the invocation has restored, and
  with which volume (`AtMatches`: a slot with the name the state file says).

**MagazineFiles.** For any drives and numbers, killed anywhere and with failing calls: `TypeOK`,
`NoVolumeLost`, `ConvertedKeepNames`, `NextIsFree`, `NewNumbersComeLast`. `FilesInv` says that while a drive and its
`loadedN` are there nothing else has that name (`NamesApart`), that a drive left after the pass of
renames is one whose rename failed (`LeftBehind`), and that CREATEVOLS starts beyond every
number in its reach (`StartIsAhead`). A drive keeps volume and `loadedN` through a failing conversion only if it is
in `failed` and `kept`, which is why nothing else can lead to a lost volume.

**Startup.** For any configuration file, command line, devices, mount tables and width of an int.
`FilesBelongToUser`: nothing is opened before `drop_privs()`, and the configured user does not
change afterwards. `LookupAgrees`: `LookInv` says how far the loops have come and that an entry
that was there from the beginning has been compared with each name that was tried, those in `unread` excepted. `CommandIsAsTyped`: `CommandInv`
carries what `parse_cmdline()` accepted to the end of `main()`'s preparations. `ReadAsWritten` and
`ReadsStatements`, for files of any length: `FileInv` says in each state of the machine of `IniFile` what
the line is up to here and which of its tokens the keyword and the value are (in `value\\`, say: a name,
the first `=`, blanks, the words of the value, a backslash and blanks), so that at the end of a
statement the machine has what `Say` reads in it; and a token that is refused makes the line one that no
continuation is a statement of (`NeverStatement`, which is more than `ReadsStatements` asks).
`ConfigIsAsWritten`, which rests on `ReadAsWritten`: `ConfigInv` says of each stage which settings are
the file's, the command line's or a default's, and that the work directory follows the storage
resource.

**StateFile.** `RestoredIsWritten`, for names of any characters and any length. `ReadInv` says that what has been
taken of the current field, and and what the parser has still before it, make up what was written from that
field on; a plain name has no comma or CR to end its field early, no quote to open, and
no run of blanks to shrink.

Assumptions: those named in the modules (sizes are positive, the values for "nothing" are
neither volumes nor devices, names are texts, a command fits into a pipe), and the ones named here
in parentheses, which are about the constants that turn faults on or bound the model.

**Only model-checked.** What is about liveness, which is beyond the prover: `EveryInvocationEnds`,
`LostCommandIsRestored`, `SearchEnds`, `EveryCommandReturns`, `ReadingEnds`. The type invariants of `SlotSearch` and
`BconsolePipe` are proved and in no run; those of `Startup`, `Catalog` and their parts
(`TypeOK`, `CatTypeOK`, `IniTypeOK`, `LookTypeOK`) document the domains.

## 5. What is left

Every safety and action property of the runs is a theorem; worth stating next are properties that no
run has yet, of the parts below.

### Not modelled

- *Virtual slots and magazines*: `needs_label`, which only adds `label barcodes` to the commands (that
  it may be issued is in `CommandMutex` and `BconsolePipe`); files on a magazine that cannot be written,
  which are not listed but make CREATEVOLS fail; paths that are too long.
- *bconsole*: how the command line is split into arguments, which happens in the parent before
  the fork and keeps no state.
- *CREATEVOLS on a magazine that is not mounted*, which works on files named `/label...`
  outside of every magazine (`diskchanger.cpp:711`).
- *Configuration*: sections and lists within a line, which vchanger's grammar does not reach; line numbers
  in messages.
- *Mountpoint lookup*: the builds with `blkid`, with `getfsstat()` and for Windows.
- *Strings, memory*: the functions without state beyond those the state files use; allocation
  and the copying of files.
- *Logging* (`loghandler.cpp`, `errhandler.cpp`), which the properties do not see; `compat/`, replacements of
  system functions for Windows; the shell scripts, which only start invocations; the wording of what is printed.
