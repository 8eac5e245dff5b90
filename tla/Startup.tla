------------------------------ MODULE Startup -------------------------------
(***************************************************************************)
(* From the command line to the mounted magazines: main() up to the        *)
(* command (src/src/vchanger.cpp), VchangerConfig (vconf.cpp), drop_privs()*)
(* (util.cpp) and the part of MagazineState::Mount() that finds a          *)
(* magazine's directory (changerstate.cpp).                                *)
(*                                                                         *)
(* It composes the command line, the configuration file and the lookup of  *)
(* mountpoints.  An exit is an exit with an error here.                    *)
(***************************************************************************)
EXTENDS IniFile, CommandLine, MountLookup

CONSTANTS
    CommandLines,   \* those that may be given
    KnownUser,      \* the users of this system
    KnownGroup,
    UuidMagazine,   \* the values of the keyword magazine that are UUIDs
    NumberIn(_)     \* the number a text begins with, 0 without one

Root == <<"root">>

ASSUME UserAssumption == Root \in KnownUser

VARIABLES
    stage,     \* how far main() has come
    args,      \* the command line
    cmdl,      \* what parse_cmdline() made of it
    conf,      \* the configuration
    runsAs,    \* the user the process runs as
    byRoot,    \* was it started by root?
    made,      \* the files it opened or made: [file, owner]
    bays       \* what became of each magazine

process == <<stage, args, cmdl, conf, runsAs, byRoot, made, bays>>
vars == <<process, iniVars, lookVars>>

(* The keywords, without blanks.                                           *)
StorageResource == <<"storageresource">>
WorkDir == <<"workdir">>
Logfile == <<"logfile">>
LogLevel == <<"loglevel">>
User == <<"user">>
Group == <<"group">>
Bconsole == <<"bconsole">>
BconsoleConfig == <<"bconsoleconfig">>
DefaultPool == <<"defaultpool">>
Magazine == <<"magazine">>

VchangerKeyword ==
    {StorageResource, WorkDir, Logfile, LogLevel, User, Group, Bconsole,
     BconsoleConfig, DefaultPool, Magazine}
NeedsText == {StorageResource, WorkDir, Logfile, User, Group, DefaultPool}

ASSUME GrammarAssumption == Keyword = VchangerKeyword /\ List = {Magazine}

StateDir(storage) == <<"STATEDIR", "/">> \o storage
LogFileOf(storage) == <<"LOGDIR", "/">> \o storage \o <<".log">>

DefaultStorage == <<"vchanger">>
Defaults ==
    [storage |-> DefaultStorage,
     work |-> StateDir(DefaultStorage),
     log |-> LogFileOf(DefaultStorage),
     level |-> 3,
     user |-> <<"bacula">>,
     group |-> <<"tape">>,
     bconsole |-> <<"/usr/sbin/bconsole">>,
     bconfig |-> << >>,
     pool |-> <<"Scratch">>,
     magazine |-> << >>]

Init ==
    /\ IniInit /\ NoLookup
    /\ stage = "begin"
    /\ args \in CommandLines
    /\ cmdl = NoCommand
    /\ conf = Defaults
    /\ byRoot \in BOOLEAN
    /\ runsAs = IF byRoot THEN Root ELSE <<"operator">>
    /\ made = {} /\ bays = << >>

-----------------------------------------------------------------------------
Step(from, to) == stage = from /\ stage' = to

ParseCmdline ==
    /\ Accepts(args)
    /\ Step("begin", "config")
    /\ cmdl' = Cmdl(args)
    /\ UNCHANGED <<args, conf, runsAs, byRoot, made, bays, iniVars, lookVars>>

(* The process ends, and what it has read is forgotten.                    *)
Exit ==
    /\ stage' = "exit"
    /\ Forget
    /\ UNCHANGED <<args, cmdl, conf, runsAs, byRoot, made, bays, lookVars>>

RefuseCmdline == stage = "begin" /\ ~Accepts(args) /\ Exit

(* VchangerConfig::Read(): the file is read ...                            *)
ReadConfigFile ==
    /\ stage = "config"
    /\ ReadFile
    /\ UNCHANGED <<process, lookVars>>

(* ... and its settings are taken.  A list whose first value is empty      *)
(* counts as not set (Update()).                                           *)
IsSet(k) == setting[k] # << >>
Text(k) == Stripped(setting[k][1])

Magazines ==
    LET m == setting[Magazine]
    IN  IF m = << >> \/ NonEmpty(m[1]) = << >> THEN << >>
        ELSE [i \in DOMAIN m |-> Stripped(m[i])]

(* strtoull() of the text, as an int.                                      *)
Level == ToInt(NumberIn(Text(LogLevel)))

Acceptable ==
    /\ \A k \in NeedsText : IsSet(k) => Text(k) # << >>
    /\ IsSet(LogLevel) => Level \in 0..7
    /\ Magazines # << >>
    /\ \A i \in DOMAIN Magazines : Magazines[i] # << >>

Take(k, default) == IF IsSet(k) THEN Text(k) ELSE default

(* The directories follow the storage resource, unless they are given.     *)
StorageName == Take(StorageResource, conf.storage)
WorkDirAnyway == Take(WorkDir, conf.work)
WorkDirOf ==
    Take(WorkDir, IF IsSet(StorageResource) THEN StateDir(StorageName)
                  ELSE conf.work)
LogfileOf ==
    Take(Logfile, IF IsSet(StorageResource) THEN LogFileOf(StorageName)
                  ELSE conf.log)

TakeConfig ==
    /\ Step("config", "override") /\ From("read")
    /\ Acceptable
    /\ conf' = [storage |-> StorageName,
                work |-> WorkDirOf,
                log |-> LogfileOf,
                level |-> IF IsSet(LogLevel) THEN Level ELSE conf.level,
                user |-> Take(User, conf.user),
                group |-> Take(Group, conf.group),
                bconsole |-> Take(Bconsole, conf.bconsole),
                bconfig |-> Take(BconsoleConfig, conf.bconfig),
                pool |-> Take(DefaultPool, conf.pool),
                magazine |-> Magazines]
    /\ key' = NoText /\ val' = NoText
    /\ UNCHANGED <<state, setting, count, line, meant, args, cmdl, runsAs, byRoot, made, bays, lookVars>>

RefuseConfig ==
    /\ stage = "config"
    /\ \/ state \in {"refused", "unreadable"}
       \/ From("read") /\ ~Acceptable
    /\ Exit

(* The command line overrides what the file says.                          *)
Unless(text, default) == IF text = << >> THEN default ELSE text

KeepConfig ==
    /\ Step("override", "user")
    /\ UNCHANGED <<args, cmdl, conf, runsAs, byRoot, made, bays, iniVars, lookVars>>
Override ==
    /\ Step("override", "user")
    /\ conf' = [conf EXCEPT !.user = Unless(cmdl.user, @),
                            !.group = Unless(cmdl.group, @),
                            !.pool = Unless(cmdl.pool, @)]
    /\ UNCHANGED <<args, cmdl, runsAs, byRoot, made, bays, iniVars, lookVars>>

(***************************************************************************)
(* drop_privs().  A name that getpwnam() or getgrnam() does not know may   *)
(* leave errno 0, which main() takes for success.                          *)
(***************************************************************************)
KeepsUser == ~byRoot \/ conf.user = Root
Nameless == conf.user \notin KnownUser \/ conf.group \notin KnownGroup

BecomeUser ==
    /\ Step("user", "log")
    /\ \/ KeepsUser /\ UNCHANGED runsAs
       \/ ~KeepsUser /\ Nameless /\ UNCHANGED runsAs
       \/ ~KeepsUser /\ ~Nameless /\ runsAs' = conf.user
    /\ UNCHANGED <<args, cmdl, conf, byRoot, made, bays, iniVars, lookVars>>

FailToBecomeUser == stage = "user" /\ ~KeepsUser /\ Exit

(* The log is opened, then the work directory made if there is none.       *)
File(f) == [file |-> f, by |-> runsAs]

OpenLogAsIs ==
    /\ stage \in {"user", "log"} /\ stage' = "validate"
    /\ made' = made \cup {File(conf.log)}
    /\ UNCHANGED <<args, cmdl, conf, runsAs, byRoot, bays, iniVars, lookVars>>
OpenLog ==
    /\ Step("log", "validate")
    /\ made' = made \cup {File(conf.log)}
    /\ UNCHANGED <<args, cmdl, conf, runsAs, byRoot, bays, iniVars, lookVars>>

FailToOpenLog == stage = "log" /\ Exit

(* A bconsole configuration that cannot be read turns bconsole off.        *)
Validate ==
    /\ Step("validate", "mount")
    /\ made' \in {made, made \cup {File(conf.work)}}
    /\ \/ /\ conf.bconsole # << >>
          /\ UNCHANGED conf
       \/ /\ conf.bconsole = << >>
          /\ conf' = [conf EXCEPT !.bconfig = << >>]
       \/ /\ conf.bconsole # << >> /\ conf.bconfig # << >>
          /\ conf' = [conf EXCEPT !.bconsole = << >>, !.bconfig = << >>]
    /\ UNCHANGED <<args, cmdl, runsAs, byRoot, bays, iniVars, lookVars>>

FailToValidate == stage = "validate" /\ Exit

-----------------------------------------------------------------------------
(***************************************************************************)
(* Each magazine of the list gets the bay with its number.                 *)
(***************************************************************************)
Bay == Len(bays) + 1
Mounting == stage = "mount" /\ Bay <= Len(conf.magazine)
IsUuid == conf.magazine[Bay] \in UuidMagazine

LookupMagazine ==
    /\ Mounting /\ IsUuid
    /\ Enumerate \/ Lookup \/ Others
    /\ UNCHANGED <<process, iniVars>>

Fill(bay) ==
    /\ bays' = Append(bays, bay)
    /\ UNCHANGED <<stage, args, cmdl, conf, runsAs, byRoot, made, iniVars>>

NotMounted == [status |-> "not mounted", dir |-> << >>]
Failed == [status |-> "error", dir |-> << >>]

(* The directory must be there and writable.                               *)
At(dir) == {[status |-> "mounted", dir |-> dir], NotMounted, Failed}

MountDirectory ==
    /\ Mounting /\ ~IsUuid
    /\ \E bay \in At(conf.magazine[Bay]) : Fill(bay)
    /\ UNCHANGED lookVars

MountFound ==
    /\ Mounting /\ IsUuid /\ look = "done"
    /\ \E bay \in IF rc = 0 THEN At(<<found>>)
                  ELSE IF rc \in {3, 4} THEN {NotMounted} ELSE {Failed} : Fill(bay)
    /\ table' = << >> /\ attached' = Device /\ changes' = 0
    /\ devices' = << >> /\ look' = "idle" /\ at' = 1 /\ next' = 1
    /\ rc' = 3 /\ found' = NoDir /\ was' = {} /\ stayed' = {} /\ unread' = {}

(* The command is performed, or the process is over.                       *)
End ==
    /\ stage = "exit" \/ (stage = "mount" /\ Bay > Len(conf.magazine))
    /\ UNCHANGED vars

Next ==
    \/ ParseCmdline \/ RefuseCmdline
    \/ ReadConfigFile \/ TakeConfig \/ RefuseConfig
    \/ Override
    \/ BecomeUser \/ FailToBecomeUser
    \/ OpenLog \/ FailToOpenLog
    \/ Validate \/ FailToValidate
    \/ LookupMagazine \/ MountDirectory \/ MountFound
    \/ End

Spec == Init /\ [][Next]_vars

-----------------------------------------------------------------------------
TypeOK ==
    /\ IniTypeOK /\ LookTypeOK
    /\ stage \in {"begin", "config", "override", "user", "log", "validate",
                  "mount", "exit"}
    /\ byRoot \in BOOLEAN
    /\ cmdl.command \in Command \cup {"none"}
    /\ cmdl.slot \in -1..IntHalf - 1 /\ cmdl.count \in 0..IntHalf - 1
    /\ cmdl.drive \in 0..IntHalf - 1 /\ cmdl.bay \in 0..IntHalf - 1
    /\ conf.level \in 0..7
    /\ bays \in Seq([status : {"mounted", "not mounted", "error"},
                     dir : Seq(STRING)])

(***************************************************************************)
(* Started by root, the process makes its log and its work directory as    *)
(* the user it is told to run as, when that user and group exist: whatever *)
(* the file says and the command line overrides.                           *)
(***************************************************************************)
FilesBelongToUser ==
    \A f \in made : byRoot /\ ~Nameless => f.by = conf.user

(***************************************************************************)
(* An option on the command line is never ignored: the command that runs   *)
(* is one it is for, and uses its value.                                   *)
(***************************************************************************)
Runs == stage \in {"user", "log", "validate", "mount"}
Given(name) == ValueOf(args, name)

OptionsTakeEffect ==
    Runs =>
        /\ Given("user") # << >> => conf.user = Given("user")
        /\ Given("group") # << >> => conf.group = Given("group")
        /\ Given("pool") # << >> =>
               conf.pool = Given("pool") /\ cmdl.command = "createvols"
        /\ Given("label") # << >> =>
               cmdl.label = Given("label") /\ cmdl.command = "createvols"
        /\ IsGiven(args, "force") => cmdl.force /\ cmdl.command = "refresh"

(***************************************************************************)
(* A command that moves or creates volumes has a slot, a drive and a count *)
(* it can act on, and those are the numbers that were typed, unless they   *)
(* are beyond an int.                                                      *)
(***************************************************************************)
Typed(i, n) ==
    args.numbers[i].num \in -IntHalf .. IntHalf - 1 => args.numbers[i].num = n

CommandHasItsNumbers ==
    Runs =>
        /\ cmdl.command \in {"load", "unload"} =>
               cmdl.slot >= 1 /\ Typed(1, cmdl.slot) /\ Typed(3, cmdl.drive)
        /\ cmdl.command = "loaded" => Typed(3, cmdl.drive)
        /\ cmdl.command = "createvols" =>
               cmdl.count > 0 /\ Typed(1, cmdl.bay) /\ Typed(2, cmdl.count)

(***************************************************************************)
(* The command that runs is the one that was typed, options and numbers.   *)
(***************************************************************************)
CommandIsAsTyped == OptionsTakeEffect /\ CommandHasItsNumbers

(***************************************************************************)
(* From the file to the command: every setting is the last one written for *)
(* it, unless the command line or the default stands for it, and the work  *)
(* directory is that of the storage resource unless one is written, so     *)
(* that two changers keep their state apart.  (The default log file is in  *)
(* the log directory of the program, as VchangerConfig's constructor has   *)
(* it; vchanger.conf.5.asciidoc:70 and vchanger-example.conf:32 say that   *)
(* it is in the work directory.)                                           *)
(***************************************************************************)
Written(k, default) == IF meant[k] = << >> THEN default ELSE Last(meant[k])

ConfigIsAsWritten ==
    Runs =>
        /\ conf.storage = Written(StorageResource, DefaultStorage)
        /\ conf.work = Written(WorkDir, StateDir(conf.storage))
        /\ conf.log = Written(Logfile, LogFileOf(conf.storage))
        /\ conf.user = Unless(Given("user"), Written(User, Defaults.user))
        /\ conf.group = Unless(Given("group"), Written(Group, Defaults.group))
        /\ conf.pool = Unless(Given("pool"), Written(DefaultPool, Defaults.pool))
        /\ conf.magazine = meant[Magazine]
        /\ \A k \in NeedsText : Written(k, <<"default">>) # << >>
=============================================================================
