----------------------------- MODULE MCStartup ------------------------------
(***************************************************************************)
(* Startup on a small system, for TLC.  Every command line is tried with   *)
(* short files, and a few of them with all files.                          *)
(***************************************************************************)
EXTENDS Startup

MCKeyword == VchangerKeyword
MCList == {Magazine}

MCNumberIn(t) == 0

Option(n, v) == [name |-> n, value |-> v]
Options == {Option("version", << >>), Option("unknown", << >>),
            Option("force", << >>), Option("user", <<"eve">>),
            Option("user", << >>), Option("group", <<"disk">>),
            Option("label", <<"vol">>), Option("pool", <<"full">>)}

Number(n) == [digit |-> TRUE, num |-> n]
Numbers == {Number(0), Number(1), Number(4), Number(9),
            [digit |-> FALSE, num |-> 0], [digit |-> FALSE, num |-> -7]}

Args(o, c, n) == [options |-> o, config |-> TRUE, command |-> c, numbers |-> n]

Plain == Args(<< >>, "list", << >>)
AsEve == Args(<<Option("user", <<"eve">>)>>, "list", << >>)

MCCommandLines ==
    {Plain, [Plain EXCEPT !.config = FALSE]}
        \cup {Args(o, c, << >>) : o \in UNION {[1..n -> Options] : n \in 1..2},
                                  c \in {"list", "refresh", "none"}}
        \cup {Args(<<o>>, "createvols", <<Number(0), Number(1)>>) : o \in Options}
        \cup {Args(<< >>, c, n) :
                  c \in {"load", "loaded", "createvols"},
                  n \in UNION {[1..m -> Numbers] : m \in 0..3}}

MCKnownUser == {<<"root">>, <<"bacula">>, <<"user">>}
MCKnownGroup == {<<"tape">>}
MCUuidMagazine == {<<"user">>}

Disk(m, n, a) == [matches |-> m, node |-> n, aliases |-> a]
Sda == Disk(TRUE, "sda1", <<"by-uuid", "by-label">>)
Dm == Disk(TRUE, "dm0", << >>)
Bare == Disk(TRUE, "", << >>)
Other == Disk(FALSE, "sdb1", << >>)
MCDevice == {Sda, Dm, Bare, Other}

(* Bounds: all files for one command line, with at most one blank in a     *)
(* statement and two words in a name or value; what follows, for magazines *)
(* of one word; lookups, for one file.                                     *)
Line(k) == <<AtomToken(k), Equals, AtomToken("user")>>
NoBconsole == <<AtomToken("bconsole"), Equals, QuotedToken("")>>
IsAbout(names) == \E i \in DOMAIN line : line[i].word \in names

Bounded ==
    /\ \/ args = Plain /\ byRoot
       \/ IsPrefix(line, Line("magazine"))
       \/ args \in {Plain, AsEve} /\ IsPrefix(line, Line("user"))
    /\ IsAbout({"bconsole", "bconsoleconfig"}) =>
           IsPrefix(line, NoBconsole) \/ IsPrefix(line, Line("bconsoleconfig"))
    /\ Len(SelectSeq(line, LAMBDA t : t = Blank)) <= 1
    /\ Len(key) <= 2 /\ Len(val) <= 2
    /\ stage \in {"user", "log", "validate"} =>
           \A i \in DOMAIN conf.magazine : Len(conf.magazine[i]) = 1
    /\ stage = "mount" => args = Plain /\ byRoot
    /\ stage = "mount" /\ look # "idle" => count = 3 /\ Cardinality(made) = 1
=============================================================================
