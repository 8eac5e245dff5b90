---------------------------- MODULE CommandLine -----------------------------
(***************************************************************************)
(* parse_cmdline() (src/src/vchanger.cpp): what the command line asks for, *)
(* as operators.  A command line is                                        *)
(*   options     the options, wherever they stand, as getopt_long() yields *)
(*               them: a name and a value                                  *)
(*   config      is there a first parameter, the configuration file?       *)
(*   command     the second one, "" when it is missing                     *)
(*   numbers     those that follow: what strtol() makes of each, and       *)
(*               whether it begins with a digit.                           *)
(***************************************************************************)
EXTENDS Integers, Sequences, SequencesExt

CONSTANT IntHalf    \* an int is in -IntHalf .. IntHalf - 1

ASSUME IntHalfAssumption == IntHalf \in Nat \ {0}

Command == {"list", "slots", "load", "unload", "loaded", "listall", "listmags",
            "createvols", "refresh"}
NeedsNoMore == {"list", "listall", "slots", "listmags", "refresh"}

(* (int)strtol(...)                                                        *)
ToInt(n) == ((n + IntHalf) % (2 * IntHalf)) - IntHalf

-----------------------------------------------------------------------------
(* getopt_long() stops at the first --version, --help or unknown option.   *)
StopsAt(a) ==
    SelectInSeq(a.options, LAMBDA o : o.name \in {"version", "help", "unknown"})

(* An option that is given twice has its last value.                       *)
ValueOf(a, name) ==
    LET i == SelectLastInSeq(a.options, LAMBDA o : o.name = name)
    IN  IF i = 0 THEN << >> ELSE a.options[i].value
IsGiven(a, name) == \E i \in DOMAIN a.options : a.options[i].name = name

OptionsFit(a) ==
    /\ ValueOf(a, "label") # << >> => a.command = "createvols"
    /\ ValueOf(a, "pool") # << >> => a.command = "createvols"
    /\ IsGiven(a, "force") => a.command = "refresh"

Arg(a, i) == ToInt(a.numbers[i].num)

(* Drive numbers must begin with a digit; slots and counts need not.       *)
DriveFits(a) == a.numbers[3].digit /\ Arg(a, 3) >= 0

CountFits(a) == Arg(a, 1) >= 0 /\ Arg(a, 2) > 0
SlotFitsLoosely(a) == Arg(a, 1) >= 0
SlotFits(a) == Arg(a, 1) >= 1

NumbersFit(a) ==
    \/ a.command \in NeedsNoMore
    \/ a.command = "createvols" /\ Len(a.numbers) >= 2 /\ CountFits(a)
    \/ a.command = "loaded" /\ Len(a.numbers) >= 3 /\ DriveFits(a)
    \/ /\ a.command \in {"load", "unload"}
       /\ Len(a.numbers) >= 3
       /\ SlotFits(a) /\ DriveFits(a)

Accepts(a) ==
    /\ StopsAt(a) = 0
    /\ a.config
    /\ a.command \in Command
    /\ OptionsFit(a) /\ NumbersFit(a)

-----------------------------------------------------------------------------
NoCommand == [command |-> "none", slot |-> 0, drive |-> 0, bay |-> 0, count |-> 0,
              label |-> << >>, pool |-> << >>, force |-> FALSE,
              user |-> << >>, group |-> << >>]

(* Without a start, or with a negative one, CREATEVOLS gets -1.            *)
StartNumber(a) ==
    IF Len(a.numbers) >= 3 /\ Arg(a, 3) >= 0 THEN Arg(a, 3) ELSE -1

Cmdl(a) ==
    LET base == [NoCommand EXCEPT
                     !.command = a.command,
                     !.label = ValueOf(a, "label"),
                     !.pool = ValueOf(a, "pool"),
                     !.force = IsGiven(a, "force"),
                     !.user = ValueOf(a, "user"),
                     !.group = ValueOf(a, "group")]
    IN  CASE a.command = "createvols" ->
                 [base EXCEPT !.bay = Arg(a, 1), !.count = Arg(a, 2),
                              !.slot = StartNumber(a)]
          [] a.command \in {"load", "unload"} ->
                 [base EXCEPT !.slot = Arg(a, 1), !.drive = Arg(a, 3)]
          [] a.command = "loaded" ->
                 [base EXCEPT !.slot = 1, !.drive = Arg(a, 3)]
          [] OTHER -> base
=============================================================================
