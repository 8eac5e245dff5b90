------------------------------ MODULE IniFile -------------------------------
(***************************************************************************)
(* IniFile::Read(): the configuration file as ReadToken() delivers it,     *)
(* read by a machine of a few states (src/src/inifile.cpp).                *)
(*                                                                         *)
(* A word is one atom or the content of one quoted string; a text is the   *)
(* sequence of the words, blanks and signs it is put together from.  Case  *)
(* and blanks do not count in a keyword, so each is one word here.         *)
(* ReadToken() never returns ',', so the states of Read() for lists within *)
(* a line are not reached; and vchanger defines no sections, so no heading *)
(* but the global one is accepted.                                         *)
(*                                                                         *)
(* Next to the machine the history variables line and meant hold what is   *)
(* written: the current statement, and what the ended ones say together.   *)
(***************************************************************************)
EXTENDS Naturals, Sequences, SequencesExt

CONSTANTS
    Atom,       \* the atoms in the file
    Quoted,     \* the contents of quoted strings
    Keyword,    \* the keywords of the grammar, as texts
    List,       \* those that take a list
    MaxTokens   \* the longest file

ASSUME KeywordAssumption == List \subseteq Keyword
ASSUME MaxTokensAssumption == MaxTokens \in Nat

Sign(c) == [kind |-> c, word |-> c]
Newline == Sign("\n")
Blank == Sign(" ")
Backslash == Sign("\\")
Equals == Sign("=")
Open == Sign("[")
Close == Sign("]")
AtomToken(w) == [kind |-> "A", word |-> w]
QuotedToken(w) == [kind |-> "S", word |-> w]

Token == {Newline, Blank, Backslash, Equals, Open, Close}
             \cup {AtomToken(w) : w \in Atom}
             \cup {QuotedToken(w) : w \in Quoted}

VARIABLES
    state,     \* of the machine
    key,       \* the words of the keyword, or of the section's name
    val,       \* the value read so far
    setting,   \* the values of each keyword
    count,     \* how many tokens were read
    line,      \* the tokens of the current statement
    meant      \* what the statements before say

iniVars == <<state, key, val, setting, count, line, meant>>

NoText == << >>
NoSettings == [k \in Keyword |-> << >>]

Reading == {"start", "keyword", "before", "before\\", "value", "value\\",
            "heading", "section"}

Texts == Seq(Atom \cup Quoted \cup {" ", "=", "[", "]"})

IniTypeOK ==
    /\ state \in Reading \cup {"read", "refused", "unreadable"}
    /\ key \in Seq(Atom)
    /\ val \in Texts
    /\ setting \in [Keyword -> Seq(Texts)]
    /\ count \in 0..MaxTokens
    /\ line \in Seq(Token)

IniInit ==
    /\ state = "start"
    /\ key = NoText /\ val = NoText
    /\ setting = NoSettings
    /\ count = 0
    /\ line = << >> /\ meant = NoSettings

-----------------------------------------------------------------------------
(***************************************************************************)
(* What is written, without the machine.  A statement ends with its line,  *)
(* unless a backslash is the last thing on it, or with its heading.        *)
(***************************************************************************)
IsBlank(s) == \A i \in DOMAIN s : s[i] = Blank
FirstSign(s) == SelectInSeq(s, LAMBDA t : t # Blank)
LastSign(s) == SelectLastInSeq(s, LAMBDA t : t # Blank)

Continues(s) == LastSign(s) # 0 /\ s[LastSign(s)] = Backslash
HasHeading(s) == FirstSign(s) # 0 /\ s[FirstSign(s)] = Open

(* A text without its empty words and its blanks at both ends.             *)
NonEmpty(text) == SelectSeq(text, LAMBDA w : w # "")
Stripped(text) ==
    LET first == SelectInSeq(text, LAMBDA w : w \notin {"", " "})
        last == SelectLastInSeq(text, LAMBDA w : w \notin {"", " "})
    IN  IF first = 0 THEN NoText ELSE NonEmpty(SubSeq(text, first, last))

Words(s) == [i \in DOMAIN s |-> s[i].word]

(* The words of the atoms.                                                 *)
AtomWords(s) ==
    LET upTo[n \in 0..Len(s)] ==
            IF n = 0 THEN NoText
            ELSE IF s[n].kind = "A" THEN Append(upTo[n - 1], s[n].word)
            ELSE upTo[n - 1]
    IN  upTo[Len(s)]

EqualsAt(s) == SelectInSeq(s, LAMBDA t : t = Equals)
Left(s) == SubSeq(s, 1, EqualsAt(s) - 1)
Right(s) == SubSeq(s, EqualsAt(s) + 1, Len(s))

IsHeading(s) ==
    /\ HasHeading(s) /\ LastSign(s) = Len(s) /\ Last(s) = Close
    /\ \E name \in {SubSeq(s, FirstSign(s) + 1, Len(s) - 1)} :
        /\ \A i \in DOMAIN name : name[i].kind \in {" ", "A"}
        /\ AtomWords(name) \in {NoText, <<"global">>}

IsSetting(s) ==
    /\ EqualsAt(s) # 0
    /\ \A i \in DOMAIN Left(s) : Left(s)[i].kind \in {" ", "A"}
    /\ AtomWords(Left(s)) \in Keyword
    /\ \A i \in DOMAIN Right(s) : Right(s)[i] # Backslash

IsStatement(s) == IsBlank(s) \/ IsHeading(s) \/ IsSetting(s)

(* What is said before, and by one more statement.                         *)
Say(before, s) ==
    IF ~IsSetting(s) THEN before
    ELSE LET k == AtomWords(Left(s))
             v == Stripped(Words(Right(s)))
         IN  [before EXCEPT ![k] = IF IsBlank(Right(s)) THEN << >>
                                   ELSE IF k \in List THEN Append(@, v)
                                   ELSE <<v>>]

(* How the next token goes on with it.                                     *)
Closes(t) == t = Close /\ HasHeading(line)
Ends(t) == (t = Newline /\ ~Continues(line)) \/ Closes(t)
Statement == IF HasHeading(line) THEN Append(line, Close) ELSE line

Write(t) ==
    LET continued == t = Newline /\ Continues(line)
    IN  /\ line' = IF state' = "refused" THEN Append(line, t)
                   ELSE IF Ends(t) THEN << >>
                   ELSE IF continued THEN SubSeq(line, 1, LastSign(line) - 1)
                   ELSE Append(line, t)
        /\ meant' = IF Ends(t) THEN Say(meant, Statement) ELSE meant

-----------------------------------------------------------------------------
(* The machine.                                                            *)
From(s) == state = s
GoTo(s) == state' = s

Skip == UNCHANGED <<state, key, val, setting>>
Refuse == GoTo("refused") /\ key' = NoText /\ val' = NoText /\ UNCHANGED setting

Start(t) ==
    /\ From("start")
    /\ CASE t \in {Newline, Blank} -> Skip
         [] t = Open -> GoTo("heading") /\ UNCHANGED <<key, val, setting>>
         [] t.kind = "A" -> /\ GoTo("keyword") /\ key' = <<t.word>>
                            /\ UNCHANGED <<val, setting>>
         [] OTHER -> Refuse

ReadKeyword(t) ==
    /\ From("keyword")
    /\ CASE t = Blank -> Skip
         [] t.kind = "A" -> key' = Append(key, t.word)
                            /\ UNCHANGED <<state, val, setting>>
         [] t = Equals /\ key \in Keyword ->
                /\ GoTo("before") /\ val' = NoText /\ UNCHANGED <<key, setting>>
         [] OTHER -> Refuse

KeepSetting == UNCHANGED setting
ClearSetting == setting' = [setting EXCEPT ![key] = << >>]
SetValue ==
    setting' = [setting EXCEPT ![key] =
                    IF key \in List THEN Append(@, val) ELSE <<val>>]

Before(t) ==
    /\ From("before")
    /\ CASE t = Blank -> Skip
         [] t = Backslash -> GoTo("before\\") /\ UNCHANGED <<key, val, setting>>
         [] t = Newline -> GoTo("start") /\ ClearSetting /\ UNCHANGED <<key, val>>
         [] OTHER -> /\ GoTo("value") /\ val' = <<t.word>>
                     /\ UNCHANGED <<key, setting>>

Value(t) ==
    /\ From("value")
    /\ CASE t = Backslash -> GoTo("value\\") /\ UNCHANGED <<key, val, setting>>
         [] t = Newline -> GoTo("start") /\ SetValue /\ UNCHANGED <<key, val>>
         [] OTHER -> val' = Append(val, t.word) /\ UNCHANGED <<state, key, setting>>

Continue(t) ==
    /\ state \in {"before\\", "value\\"}
    /\ CASE t = Blank -> Skip
         [] t = Newline -> /\ GoTo(IF From("value\\") THEN "value" ELSE "before")
                           /\ UNCHANGED <<key, val, setting>>
         [] OTHER -> Refuse

Heading(t) ==
    /\ From("heading")
    /\ CASE t = Blank -> Skip
         [] t.kind = "A" -> /\ GoTo("section") /\ key' = <<t.word>>
                            /\ UNCHANGED <<val, setting>>
         [] t = Close -> GoTo("start") /\ UNCHANGED <<key, val, setting>>
         [] OTHER -> Refuse

Section(t) ==
    /\ From("section")
    /\ CASE t = Blank -> Skip
         [] t.kind = "A" -> key' = Append(key, t.word)
                            /\ UNCHANGED <<state, val, setting>>
         [] t = Close /\ key = <<"global">> ->
                GoTo("start") /\ UNCHANGED <<key, val, setting>>
         [] OTHER -> Refuse

ReadToken(t) ==
    /\ count < MaxTokens
    /\ count' = count + 1
    /\ \/ Start(t) \/ ReadKeyword(t) \/ Before(t) \/ Value(t)
       \/ Continue(t) \/ Heading(t) \/ Section(t)
    /\ Write(t)

(* The end of the file ends a value, or refuses what is not complete.      *)
AtEndAnyway ==
    \/ state \in Reading \ {"before", "value"} /\ GoTo("read") /\ UNCHANGED setting
    \/ From("before") /\ GoTo("read") /\ ClearSetting
    \/ From("value") /\ GoTo("read") /\ SetValue
AtEnd ==
    \/ From("start") /\ GoTo("read") /\ UNCHANGED setting
    \/ From("before") /\ GoTo("read") /\ ClearSetting
    \/ From("value") /\ GoTo("read") /\ SetValue
    \/ /\ state \in Reading \ {"start", "before", "value"}
       /\ GoTo("refused")
       /\ UNCHANGED setting

EndOfFile ==
    /\ AtEnd
    /\ line' = IF state' = "read" THEN << >> ELSE line
    /\ meant' = IF state' = "read" THEN Say(meant, line) ELSE meant
    /\ UNCHANGED <<key, val, count>>

(* A quote that is not closed, CR without LF, or the read fails.           *)
BadToken ==
    /\ state \in Reading
    /\ GoTo("unreadable")
    /\ key' = NoText /\ val' = NoText /\ line' = << >>
    /\ UNCHANGED <<setting, count, meant>>

(* The process ends.                                                       *)
Forget ==
    /\ GoTo("start")
    /\ key' = NoText /\ val' = NoText
    /\ setting' = NoSettings
    /\ count' = 0
    /\ line' = << >> /\ meant' = NoSettings

ReadFile == (\E t \in Token : ReadToken(t)) \/ EndOfFile \/ BadToken

-----------------------------------------------------------------------------
(***************************************************************************)
(* Whenever a statement has ended, each keyword has what the statements so *)
(* far say of it: the last value, or the list of all of them, since it was *)
(* last cleared, up to the blanks around them; whatever continuations,     *)
(* blanks, headings, quotes and cleared values came before.                *)
(***************************************************************************)
Values(texts) == [i \in DOMAIN texts |-> Stripped(texts[i])]

ReadAsWritten ==
    state = "read" \/ (state = "start" /\ line = << >>) =>
        \A k \in Keyword : Values(setting[k]) = meant[k]

(***************************************************************************)
(* Whatever ends the machine's reading of a statement is a whole statement *)
(* of the file, and what it refuses cannot be completed to one.            *)
(***************************************************************************)
Completions == {<< >>, <<Equals>>, <<Close>>}
                   \cup {<<AtomToken(w), Equals>> : w \in Atom}

CanBecomeStatement(s) == \E c \in Completions : IsStatement(s \o c)

ReadOn ==
    /\ (state' # state /\ state' \in {"start", "read"}) => IsStatement(Statement)
    /\ state' = "refused" => ~IsStatement(line')
    /\ (state' = "refused" /\ line' # line) => ~CanBecomeStatement(line')

ReadsStatements == [][(state \in Reading) => ReadOn]_iniVars
=============================================================================
