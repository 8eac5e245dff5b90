----------------------------- MODULE StateFile ------------------------------
(***************************************************************************)
(* A state file: one line of fields separated by commas, written by        *)
(* SaveDriveState() or MagazineState::save() as the names are, and read by *)
(* the next invocation with tParseCSV(), which knows quotes and blanks     *)
(* (src/src/diskchanger.cpp, changerstate.cpp, tstring.cpp).               *)
(*                                                                         *)
(* A text is a sequence of characters, of which only those that the        *)
(* syntax knows are told apart.  Numbers are the digit 1.                  *)
(***************************************************************************)
EXTENDS Naturals, Sequences, SequencesExt

CONSTANTS
    Character, \* those of names
    Device,    \* the magazines' names in the configuration
    Label      \* the names of their volumes

Blank == {" ", "\t"}
Quote == "\""
CR == "\r"
Number == <<"1">>

VARIABLES
    kind,        \* of the state file: "drive" or "bay"
    device,      \* what was written: the magazine
    label,       \* and the volume in the drive
    pc,          \* where the reading is
    rest,        \* of the line
    word,        \* of the field, as far as it was read
    fields,      \* those that were read
    remembered,  \* what the changer has from the file
    attached     \* is the volume still there?

written == <<kind, device, label>>
vars == <<written, pc, rest, word, fields, remembered, attached>>

NoText == << >>
Nothing == << >>

(* The configuration strips its texts of blanks at both ends.              *)
Stripped(text) ==
    LET first == SelectInSeq(text, LAMBDA c : c \notin Blank)
        last == SelectLastInSeq(text, LAMBDA c : c \notin Blank)
    IN  IF first = 0 THEN NoText ELSE SubSeq(text, first, last)

ASSUME NamesAssumption ==
    /\ Device \cup Label \subseteq Seq(Character)
    /\ NoText \notin Label
    /\ \A d \in Device : d # NoText /\ Stripped(d) = d

Init ==
    /\ kind \in {"drive", "bay"}
    /\ device \in Device /\ label \in Label
    /\ pc = "written"
    /\ rest = NoText /\ word = NoText /\ fields = << >>
    /\ remembered = Nothing
    /\ attached \in BOOLEAN

-----------------------------------------------------------------------------
Comma == <<",">>
Line ==
    device \o Comma \o (IF kind = "drive" THEN label
                                          ELSE Number \o Comma \o Number)

(* The newline that ends the line is removed, and a CR before it.          *)
WithoutCR(text) ==
    IF text # NoText /\ text[Len(text)] = CR THEN SubSeq(text, 1, Len(text) - 1)
                                             ELSE text
FirstLine(text) ==
    LET eol == SelectInSeq(text, LAMBDA c : c = "\n")
    IN  WithoutCR(IF eol = 0 THEN text ELSE SubSeq(text, 1, eol - 1))

ReadLine ==
    /\ pc = "written" /\ pc' = "begin"
    /\ rest' = Stripped(FirstLine(Line))
    /\ UNCHANGED <<written, word, fields, remembered, attached>>

(***************************************************************************)
(* tParseCSV(): one field.  It ends at a comma, at the end of the text, or *)
(* at a CR, which ends a line for this parser and is not passed over.      *)
(***************************************************************************)
AfterBlanks ==
    LET first == SelectInSeq(rest, LAMBDA c : c \notin Blank)
    IN  IF first = 0 THEN NoText ELSE SubSeq(rest, first, Len(rest))

AtEnd == rest = NoText
At(c) == ~AtEnd /\ Head(rest) = c
AtBlank == \E c \in Blank : At(c)

GoOn(from, to) ==
    /\ pc = from /\ pc' = to
    /\ UNCHANGED <<written, fields, remembered, attached>>

AtLineEnd == AfterBlanks # NoText /\ Head(AfterBlanks) = CR

SkipBlanks ==
    /\ ~AtEnd /\ ~AtLineEnd
    /\ rest' = AfterBlanks
    /\ GoOn("begin", "field")
    /\ UNCHANGED word

TakeCharacter ==
    /\ ~AtEnd /\ ~AtBlank /\ ~At(",") /\ ~At(Quote) /\ ~At(CR)
    /\ word' = Append(word, Head(rest))
    /\ rest' = Tail(rest)
    /\ GoOn("field", "field")

(* Any number of blanks is one.                                            *)
StayAtBlanks ==
    /\ AtBlank
    /\ GoOn("field", "field")
    /\ UNCHANGED <<word, rest>>
TakeBlanks ==
    /\ AtBlank
    /\ word' = Append(word, " ")
    /\ rest' = AfterBlanks
    /\ GoOn("field", "field")

OpenQuote ==
    /\ At(Quote)
    /\ rest' = Tail(rest)
    /\ GoOn("field", "quoted")
    /\ UNCHANGED word

CloseQuote ==
    /\ At(Quote)
    /\ rest' = Tail(rest)
    /\ GoOn("quoted", "field")
    /\ UNCHANGED word

(* The loop over a quoted text takes no further token.  A backslash, whose *)
(* branch of the loop does go on, makes every character that follows an    *)
(* escaped one, up to the end of the line; anything else is taken forever. *)
NoClosingQuote ==
    /\ AtEnd \/ At("\\")
    /\ GoOn("quoted", "forget")
    /\ UNCHANGED <<rest, word>>

RepeatQuoted ==
    /\ ~AtEnd /\ ~At("\\") /\ ~At(Quote)
    /\ GoOn("quoted", "quoted")
    /\ UNCHANGED <<rest, word>>

(* What the reader asks of a field before it goes on.                      *)
Wanted == IF kind = "drive" THEN 2 ELSE 3
Fits(field) ==
    IF kind = "drive" THEN field # NoText
    ELSE IF fields = << >> THEN field = device
    ELSE field # NoText /\ Head(field) = "1"

AfterCommaKept == rest
AfterComma == IF At(",") THEN Tail(rest) ELSE rest

TakeField(field) ==
    /\ fields' = Append(fields, field)
    /\ word' = NoText
    /\ pc' = IF ~Fits(field) THEN "forget"
             ELSE IF Len(fields') = Wanted THEN "restore" ELSE "begin"
    /\ UNCHANGED <<written, remembered, attached>>

EndField ==
    /\ pc = "field"
    /\ AtEnd \/ At(",") \/ At(CR)
    /\ rest' = AfterComma
    /\ TakeField(word)

(* A line that ends where a field should begin is said to have ended, and  *)
(* the CR is given as the text.  RestoreDriveState() takes no such field,  *)
(* and MagazineState::restore() takes it like any other.                   *)
EndLine ==
    /\ pc = "begin" /\ AtLineEnd
    /\ rest' = Tail(AfterBlanks)
    /\ IF kind = "bay" THEN TakeField(<<CR>>)
       ELSE GoOn("begin", "forget") /\ UNCHANGED word

NoField ==
    /\ pc = "begin" /\ AtEnd
    /\ pc' = "forget"
    /\ UNCHANGED <<written, rest, word, fields, remembered, attached>>

(***************************************************************************)
(* The file says nothing the changer can use, and is deleted; or the drive *)
(* is loaded with the volume that has the name, or the bay has its range.  *)
(***************************************************************************)
Finish(result) ==
    /\ pc' = "done"
    /\ remembered' = result
    /\ UNCHANGED <<written, rest, word, fields, attached>>

Attached == IF attached THEN Label ELSE Label \ {label}

Forget == pc = "forget" /\ Finish(Nothing)

Restore ==
    /\ pc = "restore"
    /\ Finish(IF kind = "drive" /\ fields[2] \notin Attached THEN Nothing
              ELSE Tail(fields))

Parse ==
    \/ SkipBlanks \/ TakeCharacter \/ TakeBlanks
    \/ OpenQuote \/ CloseQuote \/ NoClosingQuote \/ RepeatQuoted
    \/ EndField \/ EndLine \/ NoField

Read == ReadLine \/ Parse \/ Forget \/ Restore

Next == Read \/ (pc = "done" /\ UNCHANGED vars)

(* One process reads, and nothing stops it.                                *)
Spec == Init /\ [][Next]_vars /\ WF_vars(Read)

-----------------------------------------------------------------------------
(***************************************************************************)
(* What is written unquoted is read back as it was: no comma, no quote, no *)
(* end of a line, neither LF nor CR, and no blanks but single ones inside. *)
(***************************************************************************)
Plain(text) ==
    /\ \A i \in DOMAIN text : text[i] \notin {",", Quote, "\t", "\n", CR}
    /\ Stripped(text) = text
    /\ \A i \in 1..Len(text) - 1 : text[i] = " " => text[i + 1] # " "

(***************************************************************************)
(* "If the volume previously loaded is available, then restore drive to    *)
(* the loaded state, otherwise set drive unloaded" (diskchanger.cpp:448),  *)
(* and likewise for a bay's range, when the names are plain.               *)
(***************************************************************************)
RestoredIsWritten ==
    pc = "done" =>
        CASE kind = "bay" /\ Plain(device) -> remembered = <<Number, Number>>
          [] kind = "drive" /\ Plain(device) /\ Plain(label) ->
                 remembered = IF attached THEN <<label>> ELSE Nothing
          [] OTHER -> TRUE

(***************************************************************************)
(* Whatever the names are, the next invocation comes to an end of reading  *)
(* the file, unless a quote in them is followed by a text: no name can     *)
(* keep the changer from starting, but those.                              *)
(***************************************************************************)
HasQuotedText ==
    \E i \in DOMAIN Line :
        /\ Line[i] = Quote
        /\ i < Len(Line) /\ Line[i + 1] \notin {Quote, "\\"}

ReadingEnds == <>(pc = "done" \/ HasQuotedText)
=============================================================================
