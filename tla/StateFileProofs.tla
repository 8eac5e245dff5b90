--------------------------- MODULE StateFileProofs ---------------------------
(***************************************************************************)
(* A state file is read back as it was written, for plain names of any     *)
(* characters and any length.                                              *)
(***************************************************************************)
EXTENDS StateFile, SequenceTheorems, WellFoundedInduction, TLAPS

Characters == Character \cup {"1", ","}
Texts == Seq(Characters)

(* Of numbers that fit, one is the first, and below a bound one the last.  *)
LEMMA FirstOf ==
  ASSUME NEW I \in SUBSET Nat, I # {}
  PROVE  Min(I) \in I /\ \A i \in I : Min(I) <= i
<1> DEFINE Less == {ss \in Nat \X Nat : ss[1] < ss[2]}
<1>1. PICK i \in I : \A j \in I : ~(<<j, i>> \in Less)
  <2>1. IsWellFoundedOn(Less, Nat)
    BY NatLessThanWellFounded DEF OpToRel
  <2> HIDE DEF Less
  <2>2. QED
    BY <2>1, WFMin
<1>2. \A j \in I : i <= j
  <2>1. SUFFICES ASSUME NEW j \in I, ~(i <= j)
                 PROVE  <<j, i>> \in Less
    BY <1>1
  <2>2. QED
    BY <2>1
<1>3. QED
  BY <1>2 DEF Min

LEMMA LastOf ==
  ASSUME NEW n \in Nat, NEW I \in SUBSET (0..n), I # {}
  PROVE  Max(I) \in I /\ \A i \in I : Max(I) >= i
<1> DEFINE J == {n - i : i \in I}
<1>1. J \in SUBSET Nat /\ J # {}
  <2>1. \A i \in I : n - i \in Nat
    OBVIOUS
  <2>2. QED
    BY <2>1
<1>2. PICK j \in J : \A k \in J : j <= k
  BY <1>1, FirstOf
<1>3. PICK i \in I : j = n - i
  BY <1>2
<1>4. \A k \in I : i >= k
  <2>1. SUFFICES ASSUME NEW k \in I
                 PROVE  i >= k
    OBVIOUS
  <2>2. n - k \in J
    OBVIOUS
  <2>3. n - i <= n - k
    BY <1>2, <1>3, <2>2
  <2>4. QED
    BY <2>3
<1>5. QED
  BY <1>4 DEF Max

-----------------------------------------------------------------------------
(* A text the reader takes as it is.                                       *)
Readable(text) ==
    /\ text \in Texts /\ text # NoText
    /\ \A i \in DOMAIN text : text[i] \notin {",", Quote, "\t", "\n", CR}
    /\ text[1] # " " /\ text[Len(text)] # " "
    /\ \A i \in 1..Len(text) - 1 : text[i] = " " => text[i + 1] # " "

LEMMA PlainIsReadable ==
  ASSUME NEW text \in Texts, text # NoText, Plain(text)
  PROVE  Readable(text)
<1> DEFINE I == {i \in 1..Len(text) : text[i] \notin Blank}
           first == IF I # {} THEN Min(I) ELSE 0
           last == IF I # {} THEN Max(I) ELSE 0
<1>1. Stripped(text) = IF first = 0 THEN NoText ELSE SubSeq(text, first, last)
  BY DEF Stripped, SelectInSeq, SelectLastInSeq
<1>2. Stripped(text) = text
  BY DEF Plain
<1>3. I # {} /\ SubSeq(text, first, last) = text
  BY <1>1, <1>2
<1>4. first \in I /\ last \in I
  <2>1. Len(text) \in Nat /\ I \in SUBSET Nat /\ I \in SUBSET (0..Len(text))
    OBVIOUS
  <2>2. Min(I) \in I /\ Max(I) \in I
    BY <1>3, <2>1, FirstOf, LastOf
  <2>3. QED
    BY <1>3, <2>2
<1> HIDE DEF first, last, I
<1>5. first \in 1..Len(text) /\ last \in 1..Len(text)
  BY <1>4 DEF I
<1>6. Len(SubSeq(text, first, last)) = IF first <= last THEN last - first + 1 ELSE 0
  BY <1>5
<1>7. Len(text) # 0
  BY EmptySeq DEF Texts, NoText
<1>8. first = 1 /\ last = Len(text)
  BY <1>3, <1>5, <1>6, <1>7
<1>9. text[1] \notin Blank /\ text[Len(text)] \notin Blank
  BY <1>4, <1>8 DEF I
<1>10. QED
  BY <1>9 DEF Readable, Plain, Blank

LEMMA NumberIsReadable == Readable(Number)
<1>1. "1" \in Characters
  BY DEF Characters
<1>2. Number \in Texts
  BY <1>1 DEF Number, Texts
<1>3. Len(Number) = 1 /\ Number[1] = "1"
  BY DEF Number
<1>4. Number # NoText
  BY <1>3, EmptySeq DEF NoText
<1>5. \A i \in DOMAIN Number : i = 1
  BY <1>2, <1>3 DEF Texts
<1>6. \A i \in DOMAIN Number : Number[i] \notin {",", Quote, "\t", "\n", CR}
  BY <1>3, <1>5 DEF Quote, CR
<1>7. 1..Len(Number) - 1 = {}
  BY <1>3
<1>8. QED
  BY <1>2, <1>3, <1>4, <1>6, <1>7 DEF Readable

(* A text that begins and ends without blanks is not changed by stripping. *)
LEMMA StrippedIsSame ==
  ASSUME NEW text \in Texts, text # NoText,
         text[1] \notin Blank, text[Len(text)] \notin Blank
  PROVE  Stripped(text) = text
<1> DEFINE I == {i \in 1..Len(text) : text[i] \notin Blank}
<1>1. Len(text) \in Nat \ {0}
  BY EmptySeq DEF Texts, NoText
<1>2. 1 \in I /\ Len(text) \in I
  BY <1>1
<1>3. I \in SUBSET Nat /\ I \in SUBSET (0..Len(text))
  BY <1>1
<1>4. Min(I) = 1
  <2>1. Min(I) \in I /\ \A i \in I : Min(I) <= i
    BY <1>2, <1>3, FirstOf
  <2>2. QED
    BY <1>2, <2>1
<1>5. Max(I) = Len(text)
  <2>1. Max(I) \in I /\ \A i \in I : Max(I) >= i
    BY <1>1, <1>2, <1>3, LastOf
  <2>2. QED
    BY <1>1, <1>2, <2>1
<1>6. Stripped(text) = SubSeq(text, 1, Len(text))
  <2>1. Stripped(text) = IF (IF I # {} THEN Min(I) ELSE 0) = 0 THEN NoText
                         ELSE SubSeq(text, IF I # {} THEN Min(I) ELSE 0,
                                           IF I # {} THEN Max(I) ELSE 0)
    BY DEF Stripped, SelectInSeq, SelectLastInSeq
  <2> HIDE DEF I
  <2>2. QED
    BY <1>2, <1>4, <1>5, <2>1
<1>7. QED
  BY <1>6, SubSeqFull DEF Texts

(* What AfterBlanks leaves: all, or all but one blank.                     *)
LEMMA NoBlanks ==
  ASSUME rest \in Texts, rest # NoText, rest[1] \notin Blank
  PROVE  AfterBlanks = rest
<1> DEFINE I == {i \in 1..Len(rest) : rest[i] \notin Blank}
           first == IF I # {} THEN Min(I) ELSE 0
<1>1. Len(rest) \in Nat \ {0}
  BY EmptySeq DEF Texts, NoText
<1>2. 1 \in I /\ I \in SUBSET Nat
  BY <1>1
<1>3. Min(I) = 1
  <2>1. Min(I) \in I /\ \A i \in I : Min(I) <= i
    BY <1>2, FirstOf
  <2>2. QED
    BY <1>1, <1>2, <2>1
<1>4. AfterBlanks = IF first = 0 THEN NoText ELSE SubSeq(rest, first, Len(rest))
  BY DEF AfterBlanks, SelectInSeq
<1> HIDE DEF I
<1>5. QED
  BY <1>2, <1>3, <1>4, SubSeqFull DEF Texts

LEMMA OneBlank ==
  ASSUME rest \in Texts, rest # NoText, rest[1] \in Blank,
         Len(rest) >= 2, rest[2] \notin Blank
  PROVE  AfterBlanks = Tail(rest)
<1> DEFINE I == {i \in 1..Len(rest) : rest[i] \notin Blank}
           first == IF I # {} THEN Min(I) ELSE 0
<1>1. Len(rest) \in Nat \ {0}
  BY EmptySeq DEF Texts, NoText
<1>2. 2 \in I /\ 1 \notin I /\ I \in SUBSET Nat /\ 0 \notin I
  BY <1>1
<1>3. Min(I) = 2
  <2>1. Min(I) \in I /\ \A i \in I : Min(I) <= i
    BY <1>2, FirstOf
  <2>2. QED
    BY <1>2, <2>1
<1>4. AfterBlanks = IF first = 0 THEN NoText ELSE SubSeq(rest, first, Len(rest))
  BY DEF AfterBlanks, SelectInSeq
<1> HIDE DEF I
<1>5. QED
  BY <1>2, <1>3, <1>4, TailIsSubSeq DEF Texts, NoText

(* The characters of two texts are those of both.                          *)
LEMMA Joined ==
  ASSUME NEW s \in Texts, NEW t \in Texts
  PROVE  /\ s \o t \in Texts
         /\ Len(s) \in Nat /\ Len(t) \in Nat /\ Len(s \o t) = Len(s) + Len(t)
         /\ \A i \in 1..Len(s) : (s \o t)[i] = s[i]
         /\ \A j \in 1..Len(t) : (s \o t)[Len(s) + j] = t[j]
<1>1. /\ s \o t \in Texts /\ Len(s) \in Nat /\ Len(t) \in Nat
      /\ Len(s \o t) = Len(s) + Len(t)
      /\ \A i \in 1..Len(s) + Len(t) :
            (s \o t)[i] = IF i <= Len(s) THEN s[i] ELSE t[i - Len(s)]
  BY ConcatProperties, LenProperties DEF Texts
<1>2. ASSUME NEW i \in 1..Len(s)
      PROVE  (s \o t)[i] = s[i]
  <2>1. i \in 1..Len(s) + Len(t) /\ i <= Len(s)
    BY <1>1
  <2>2. QED
    BY <1>1, <2>1
<1>3. ASSUME NEW j \in 1..Len(t)
      PROVE  (s \o t)[Len(s) + j] = t[j]
  <2>1. PICK i \in 1..Len(s) + Len(t) : i = Len(s) + j
    BY <1>1
  <2>2. ~(i <= Len(s)) /\ i - Len(s) = j
    BY <1>1, <2>1
  <2>3. QED
    BY <1>1, <2>1, <2>2
<1>4. QED
  BY <1>1, <1>2, <1>3

LEMMA Nonempty ==
  ASSUME NEW s \in Texts, s # NoText
  PROVE  Len(s) \in Nat \ {0} /\ DOMAIN s = 1..Len(s) /\ Head(s) = s[1]
<1>1. Len(s) \in Nat \ {0} /\ DOMAIN s = 1..Len(s)
  BY EmptySeq, LenProperties DEF Texts, NoText
<1>2. QED
  BY <1>1 DEF Texts

(***************************************************************************)
(* Within a field c that is followed by nothing or by a comma: what comes  *)
(* next is a character of the field, and a blank comes alone; or the field *)
(* is complete.                                                            *)
(***************************************************************************)
LEMMA InField ==
  ASSUME NEW c, Readable(c), NEW after \in Texts,
         word \in Texts, rest \in Texts, word \o rest = c \o after,
         Len(word) <= Len(c)
  PROVE  /\ Len(word) < Len(c) =>
               /\ ~AtEnd /\ ~At(",") /\ ~At(Quote) /\ ~At(CR) /\ Head(rest) # "\t"
               /\ AtBlank => Head(rest) = " " /\ AfterBlanks = Tail(rest)
         /\ Len(word) = Len(c) => word = c /\ rest = after
<1> DEFINE whole == c \o after
<1>1. /\ c \in Texts /\ c # NoText
      /\ \A i \in DOMAIN c : c[i] \notin {",", Quote, "\t", "\n", CR}
      /\ c[Len(c)] # " "
      /\ \A i \in 1..Len(c) - 1 : c[i] = " " => c[i + 1] # " "
  BY DEF Readable
<1>2. Len(c) \in Nat \ {0} /\ DOMAIN c = 1..Len(c)
  BY <1>1, Nonempty
<1>3. /\ \A i \in 1..Len(c) : whole[i] = c[i]
      /\ \A i \in 1..Len(word) : whole[i] = word[i]
      /\ \A j \in 1..Len(rest) : whole[Len(word) + j] = rest[j]
  <2>1. \A i \in 1..Len(c) : whole[i] = c[i]
    BY <1>1, Joined
  <2>2. /\ \A i \in 1..Len(word) : (word \o rest)[i] = word[i]
        /\ \A j \in 1..Len(rest) : (word \o rest)[Len(word) + j] = rest[j]
    BY Joined
  <2>3. QED
    BY <2>1, <2>2
<1>4. /\ Len(word) \in Nat /\ Len(rest) \in Nat /\ Len(after) \in Nat
      /\ Len(word) + Len(rest) = Len(c) + Len(after)
  <2>1. Len(word \o rest) = Len(word) + Len(rest) /\ Len(word) \in Nat /\ Len(rest) \in Nat
    BY Joined
  <2>2. Len(c \o after) = Len(c) + Len(after) /\ Len(after) \in Nat
    BY <1>1, Joined
  <2>3. QED
    BY <2>1, <2>2
<1> HIDE DEF whole
<1>5. Len(c) \in Nat \ {0}
  BY <1>2
<1>6. ASSUME Len(word) < Len(c)
      PROVE  /\ ~AtEnd /\ ~At(",") /\ ~At(Quote) /\ ~At(CR) /\ Head(rest) # "\t"
             /\ AtBlank => Head(rest) = " " /\ AfterBlanks = Tail(rest)
  <2>1. PICK k \in 1..Len(c) : k = Len(word) + 1
    BY <1>2, <1>4, <1>6
  <2>2. 1 \in 1..Len(rest)
    BY <1>2, <1>4, <1>6
  <2>3. rest # NoText
    BY <2>2, EmptySeq DEF NoText
  <2>4. Head(rest) = rest[1]
    BY <2>3, Nonempty
  <2>5. rest[1] = c[k]
    BY <1>3, <2>1, <2>2
  <2>6. c[k] \notin {",", Quote, "\t", "\n", CR}
    BY <1>1, <1>2
  <2>7. ASSUME AtBlank
        PROVE  Head(rest) = " " /\ AfterBlanks = Tail(rest)
    <3>1. c[k] = " "
      BY <2>4, <2>5, <2>6, <2>7 DEF AtBlank, At, Blank
    <3>2. k # Len(c)
      BY <1>1, <3>1
    <3>3. k \in 1..Len(c) - 1
      BY <1>5, <2>1, <3>2
    <3>4. PICK l \in 1..Len(c) : l = k + 1
      BY <1>2, <3>3
    <3>5. c[l] \notin Blank
      BY <1>1, <1>2, <3>1, <3>3, <3>4 DEF Blank
    <3>6. 2 \in 1..Len(rest) /\ l = Len(word) + 2 /\ Len(rest) >= 2
      BY <1>2, <1>4, <2>1, <3>4
    <3>7. rest[2] = c[l]
      BY <1>3, <3>6
    <3>8. rest[1] \in Blank
      BY <2>5, <3>1 DEF Blank
    <3>9. QED
      BY <2>3, <2>4, <2>5, <3>1, <3>5, <3>6, <3>7, <3>8, OneBlank
  <2>8. QED
    BY <2>3, <2>4, <2>5, <2>6, <2>7 DEF AtEnd, At
<1>7. ASSUME Len(word) = Len(c)
      PROVE  word = c /\ rest = after
  <2>1. \A i \in 1..Len(word) : word[i] = c[i]
    BY <1>3, <1>7
  <2>2. word = c
    BY <1>1, <1>7, <2>1, SeqEqual DEF Texts
  <2>3. QED
    BY <1>1, <2>2, ConcatSimplifications DEF Texts
<1>8. QED
  BY <1>6, <1>7

(* A character more of the word is one less of the rest.                   *)
LEMMA OneMore ==
  ASSUME NEW u \in Texts, NEW v \in Texts, v # NoText
  PROVE  /\ Append(u, Head(v)) \in Texts /\ Tail(v) \in Texts
         /\ Len(Append(u, Head(v))) = Len(u) + 1
         /\ Append(u, Head(v)) \o Tail(v) = u \o v
<1>1. v = <<Head(v)>> \o Tail(v) /\ Head(v) \in Characters /\ Tail(v) \in Texts
  BY HeadTailProperties DEF Texts, NoText
<1>2. <<Head(v)>> \in Texts
  BY <1>1 DEF Texts
<1>3. Append(u, Head(v)) = u \o <<Head(v)>>
  BY <1>1 DEF Texts
<1>4. QED
  BY <1>1, <1>2, <1>3, AppendProperties, ConcatAssociative DEF Texts

-----------------------------------------------------------------------------
(***************************************************************************)
(* The line, field by field: TextFrom(i) is the i-th field and what comes  *)
(* after it.                                                               *)
(***************************************************************************)
Fields == IF kind = "drive" THEN <<device, label>> ELSE <<device, Number, Number>>

TextFrom(i) ==
    IF i = 1 THEN Line
    ELSE IF kind = "drive" THEN label
    ELSE IF i = 2 THEN Number \o Comma \o Number
    ELSE Number

Following(i) == IF i = Wanted THEN NoText ELSE Comma \o TextFrom(i + 1)

IsWritten == kind \in {"drive", "bay"} /\ device \in Device /\ label \in Label
NamesAreReadable == IsWritten /\ Readable(device) /\ (kind = "drive" => Readable(label))

LEMMA FieldsAreReadable ==
  ASSUME NamesAreReadable
  PROVE  /\ Wanted \in {2, 3} /\ Len(Fields) = Wanted
         /\ \A i \in 1..Wanted : Readable(Fields[i])
<1>1. CASE kind = "drive"
  <2>1. Wanted = 2 /\ Fields = <<device, label>>
    BY <1>1 DEF Wanted, Fields
  <2>2. QED
    BY <1>1, <2>1 DEF NamesAreReadable
<1>2. CASE kind = "bay"
  <2>1. Wanted = 3 /\ Fields = <<device, Number, Number>>
    BY <1>2 DEF Wanted, Fields
  <2>2. QED
    BY <2>1, NumberIsReadable DEF NamesAreReadable
<1>3. QED
  BY <1>1, <1>2 DEF NamesAreReadable, IsWritten

LEMMA CommaIsText ==
  Comma \in Texts /\ Comma[1] = "," /\ Len(Comma) = 1 /\ Comma # NoText
<1>1. "," \in Characters
  BY DEF Characters
<1>2. Comma \in Texts
  <2>1. \A c \in Characters : <<c>> \in Texts
    BY DEF Texts
  <2>2. QED
    BY <1>1, <2>1 DEF Comma
<1>3. Comma[1] = "," /\ Len(Comma) = 1
  BY DEF Comma
<1>4. Comma # NoText
  BY DEF Comma, NoText
<1>5. QED
  BY <1>2, <1>3, <1>4

LEMMA Regrouped ==
  ASSUME NEW s \in Texts, NEW t \in Texts, NEW u \in Texts
  PROVE  s \o t \o u = s \o (t \o u)
BY ConcatAssociative DEF Texts

LEMMA FieldByField ==
  ASSUME NamesAreReadable, NEW i \in 1..Wanted
  PROVE  /\ TextFrom(i) \in Texts /\ Following(i) \in Texts
         /\ TextFrom(i) = Fields[i] \o Following(i)
<1>1. device \in Texts /\ Number \in Texts /\ (kind = "drive" => label \in Texts)
  BY NumberIsReadable DEF NamesAreReadable, Readable
<1>2. CASE kind = "drive"
  <2>1. Fields[1] = device /\ Fields[2] = label /\ i \in {1, 2}
    BY <1>2 DEF Fields, Wanted
  <2>2. /\ Following(1) = Comma \o label /\ Following(2) = NoText
        /\ TextFrom(1) = device \o Comma \o label /\ TextFrom(2) = label
    BY <1>2 DEF Following, TextFrom, Wanted, Line
  <2>3. device \o Comma \o label = device \o (Comma \o label)
    BY <1>1, <1>2, CommaIsText, Regrouped
  <2>4. Comma \o label \in Texts /\ NoText \in Texts /\ label \o NoText = label
    BY <1>1, <1>2, CommaIsText, Joined, EmptySeq, ConcatEmptySeq DEF NoText, Texts
  <2>5. device \o (Comma \o label) \in Texts
    BY <1>1, <2>4, Joined
  <2>6. QED
    BY <1>1, <1>2, <2>1, <2>2, <2>3, <2>4, <2>5
<1>3. CASE kind = "bay"
  <2> DEFINE two == Number \o Comma \o Number
  <2>1. Fields[1] = device /\ Fields[2] = Number /\ Fields[3] = Number /\ i \in {1, 2, 3}
    BY <1>3 DEF Fields, Wanted
  <2>2. /\ Following(1) = Comma \o two /\ Following(2) = Comma \o Number
        /\ Following(3) = NoText
        /\ TextFrom(1) = device \o Comma \o two
        /\ TextFrom(2) = two /\ TextFrom(3) = Number
    BY <1>3 DEF Following, TextFrom, Wanted, Line
  <2>3. two = Number \o (Comma \o Number) /\ two \in Texts
    <3>1. Number \o Comma \in Texts
      BY <1>1, CommaIsText, Joined
    <3>2. two \in Texts
      BY <1>1, <3>1, Joined
    <3>3. QED
      BY <1>1, <3>2, CommaIsText, Regrouped
  <2>4. Comma \o two \in Texts /\ Comma \o Number \in Texts /\ NoText \in Texts
    BY <1>1, <2>3, CommaIsText, Joined, EmptySeq DEF NoText, Texts
  <2>5. device \o Comma \o two = device \o (Comma \o two) /\ Number \o NoText = Number
    <3> HIDE DEF two
    <3>1. device \o Comma \o two = device \o (Comma \o two)
      BY <1>1, <2>3, CommaIsText, Regrouped
    <3>2. Number \o NoText = Number
      BY <1>1, ConcatEmptySeq DEF Texts, NoText
    <3>3. QED
      BY <3>1, <3>2
  <2>6. device \o (Comma \o two) \in Texts
    BY <1>1, <2>4, Joined
  <2> HIDE DEF two
  <2>7. QED
    BY <1>1, <2>1, <2>2, <2>3, <2>4, <2>5, <2>6
<1>4. QED
  BY <1>2, <1>3 DEF NamesAreReadable, IsWritten

(* The line is not shortened when it is read.                              *)
Proper(text) ==
    /\ text \in Texts /\ text # NoText
    /\ \A i \in 1..Len(text) : text[i] \notin {"\n", CR}
    /\ text[Len(text)] \notin Blank

LEMMA ReadableIsProper ==
  ASSUME NEW text, Readable(text)
  PROVE  Proper(text) /\ text[1] \notin Blank \cup {CR}
<1>1. /\ text \in Texts /\ text # NoText
      /\ \A i \in DOMAIN text : text[i] \notin {",", Quote, "\t", "\n", CR}
      /\ text[1] # " " /\ text[Len(text)] # " "
  BY DEF Readable
<1>2. Len(text) \in Nat \ {0} /\ DOMAIN text = 1..Len(text)
  BY <1>1, Nonempty
<1>3. 1 \in 1..Len(text) /\ Len(text) \in 1..Len(text)
  BY <1>2
<1>4. QED
  BY <1>1, <1>2, <1>3 DEF Proper, Blank

LEMMA JoinedProper ==
  ASSUME NEW s \in Texts, \A i \in 1..Len(s) : s[i] \notin {"\n", CR}, NEW t, Proper(t)
  PROVE  Proper(s \o t)
<1>1. t \in Texts /\ t # NoText /\ t[Len(t)] \notin Blank
      /\ \A i \in 1..Len(t) : t[i] \notin {"\n", CR}
  BY DEF Proper
<1>2. /\ s \o t \in Texts /\ Len(s) \in Nat /\ Len(t) \in Nat \ {0}
      /\ Len(s \o t) = Len(s) + Len(t)
      /\ \A i \in 1..Len(s) : (s \o t)[i] = s[i]
      /\ \A j \in 1..Len(t) : (s \o t)[Len(s) + j] = t[j]
  BY <1>1, Joined, Nonempty
<1> DEFINE whole == s \o t
<1> HIDE DEF whole
<1>3. ASSUME NEW i \in 1..Len(whole)
      PROVE  whole[i] \notin {"\n", CR}
  <2>1. CASE i <= Len(s)
    <3>1. i \in 1..Len(s)
      BY <1>2, <2>1 DEF whole
    <3>2. QED
      BY <1>2, <3>1 DEF whole
  <2>2. CASE ~(i <= Len(s))
    <3>1. PICK j \in 1..Len(t) : i = Len(s) + j
      <4>1. i - Len(s) \in 1..Len(t) /\ i = Len(s) + (i - Len(s))
        BY <1>2, <2>2 DEF whole
      <4>2. QED
        BY <4>1
    <3>2. QED
      BY <1>1, <1>2, <3>1 DEF whole
  <2>3. QED
    BY <2>1, <2>2
<1>4. whole[Len(whole)] \notin Blank
  <2>1. Len(t) \in 1..Len(t)
    BY <1>2
  <2>2. whole[Len(s) + Len(t)] = t[Len(t)]
    BY <1>2, <2>1 DEF whole
  <2>3. QED
    BY <1>1, <1>2, <2>2 DEF whole
<1>5. whole # NoText
  <2>1. Len(whole) # 0
    BY <1>2 DEF whole
  <2>2. QED
    BY <2>1, EmptySeq DEF NoText
<1>6. QED
  BY <1>2, <1>3, <1>4, <1>5 DEF Proper, whole

LEMMA LineIsRead ==
  ASSUME NamesAreReadable
  PROVE  Stripped(FirstLine(Line)) = Line
<1>1. Proper(device) /\ Proper(Number) /\ (kind = "drive" => Proper(label))
  BY ReadableIsProper, NumberIsReadable DEF NamesAreReadable
<1>2. Proper(Comma)
  <2>1. Len(Comma) = 1
    BY CommaIsText
  <2>2. \A i \in 1..Len(Comma) : i = 1
    BY <2>1
  <2>3. QED
    BY <2>2, CommaIsText DEF Proper, Blank, CR
<1>3. \A s, t : Proper(s) /\ Proper(t) => Proper(s \o t)
  BY JoinedProper DEF Proper
<1>4. Proper(Line)
  <2>1. CASE kind = "drive"
    <3>1. Line = device \o Comma \o label
      BY <2>1 DEF Line
    <3>2. Proper(device \o Comma)
      BY <1>1, <1>2, <1>3
    <3>3. Proper(device \o Comma \o label)
      BY <1>1, <1>3, <2>1, <3>2
    <3>4. QED
      BY <3>1, <3>3
  <2>2. CASE kind = "bay"
    <3>1. Line = device \o Comma \o (Number \o Comma \o Number)
      BY <2>2 DEF Line
    <3>2. Proper(device \o Comma) /\ Proper(Number \o Comma)
      BY <1>1, <1>2, <1>3
    <3>3. Proper(Number \o Comma \o Number)
      BY <1>1, <1>3, <3>2
    <3>4. Proper(device \o Comma \o (Number \o Comma \o Number))
      BY <1>3, <3>2, <3>3
    <3>5. QED
      BY <3>1, <3>4
  <2>3. QED
    BY <2>1, <2>2 DEF NamesAreReadable, IsWritten
<1>5. FirstLine(Line) = Line
  <2> DEFINE I == {i \in 1..Len(Line) : Line[i] = "\n"}
  <2>1. I = {}
    BY <1>4 DEF Proper
  <2>2. FirstLine(Line) =
           WithoutCR(IF (IF I # {} THEN Min(I) ELSE 0) = 0 THEN Line
                     ELSE SubSeq(Line, 1, (IF I # {} THEN Min(I) ELSE 0) - 1))
    BY DEF FirstLine, SelectInSeq
  <2> HIDE DEF I
  <2>3. FirstLine(Line) = WithoutCR(Line)
    BY <2>1, <2>2
  <2>4. Len(Line) \in 1..Len(Line)
    BY <1>4, Nonempty DEF Proper
  <2>5. Line[Len(Line)] # CR
    BY <1>4, <2>4 DEF Proper
  <2>6. QED
    BY <2>3, <2>5 DEF WithoutCR
<1>6. Line[1] \notin Blank
  <2>1. 1 \in 1..Wanted /\ Fields[1] = device /\ TextFrom(1) = Line
    BY DEF Wanted, Fields, TextFrom
  <2>2. Line = device \o Following(1) /\ Following(1) \in Texts
    BY <2>1, FieldByField
  <2>3. device \in Texts /\ 1 \in 1..Len(device)
    BY <1>1, Nonempty DEF Proper
  <2>4. Line[1] = device[1]
    BY <2>2, <2>3, Joined
  <2>5. QED
    BY <2>4, ReadableIsProper DEF NamesAreReadable
<1>7. QED
  BY <1>4, <1>5, <1>6, StrippedIsSame DEF Proper

-----------------------------------------------------------------------------
(* The fields up to the n-th.                                              *)
UpTo(n) == SubSeq(Fields, 1, n)

LEMMA FieldsUpTo ==
  ASSUME NamesAreReadable, NEW n \in 0..Wanted - 1
  PROVE  /\ UpTo(0) = << >> /\ UpTo(Wanted) = Fields
         /\ n + 1 \in 1..Wanted
         /\ n # 0 => UpTo(n) # << >>
         /\ Len(UpTo(n)) = n
         /\ Append(UpTo(n), Fields[n + 1]) = UpTo(n + 1)
         /\ Len(UpTo(n + 1)) = n + 1
<1>1. Wanted \in {2, 3} /\ Len(Fields) = Wanted /\ Fields \in Seq(Texts)
  <2>1. device \in Texts /\ Number \in Texts /\ (kind = "drive" => label \in Texts)
    BY NumberIsReadable DEF NamesAreReadable, Readable
  <2> HIDE DEF Texts
  <2>2. Fields \in Seq(Texts)
    BY <2>1 DEF Fields, NamesAreReadable, IsWritten
  <2>3. QED
    BY <2>2, FieldsAreReadable
<1>2. UpTo(0) = << >>
  BY SubSeqEmpty DEF UpTo
<1>3. UpTo(Wanted) = Fields
  BY <1>1, SubSeqFull DEF UpTo
<1>4. n \in 0..Len(Fields) /\ n + 1 \in 1..Len(Fields)
  BY <1>1
<1>5. \A k \in 0..Len(Fields) : Len(UpTo(k)) = k
  <2>1. SUFFICES ASSUME NEW k \in 0..Len(Fields)
                 PROVE  Len(UpTo(k)) = k
    OBVIOUS
  <2>2. \A i \in 1..k : Fields[i] \in Texts
    BY <1>1
  <2>3. QED
    BY <1>1, <2>2, SubSeqProperties DEF UpTo
<1>6. UpTo(n + 1) = UpTo(n) \o <<Fields[n + 1]>>
  <2>1. PICK k \in 1..Len(Fields) : k = n + 1
    BY <1>4
  <2>2. k - 1 = n /\ 1 \in 1..Len(Fields) /\ k \in 1..Len(Fields)
    BY <2>1
  <2>3. SubSeq(Fields, 1, k) = SubSeq(Fields, 1, k - 1) \o <<Fields[k]>>
    BY <1>1, <2>2, SubSeqRecursiveSecond
  <2>4. QED
    BY <2>1, <2>2, <2>3 DEF UpTo
<1>7. UpTo(n) \in Seq(Texts) /\ Fields[n + 1] \in Texts
  <2>1. \A i \in 1..n : Fields[i] \in Texts
    BY <1>1, <1>4
  <2>2. QED
    BY <1>1, <1>4, <2>1, SubSeqProperties DEF UpTo
<1>8. Append(UpTo(n), Fields[n + 1]) = UpTo(n) \o <<Fields[n + 1]>>
  BY <1>7
<1>9. n # 0 => UpTo(n) # << >>
  <2>1. Len(UpTo(n)) = n /\ Len(<< >>) = 0
    BY <1>4, <1>5
  <2>2. QED
    BY <2>1
<1>10. QED
  BY <1>1, <1>2, <1>3, <1>4, <1>5, <1>6, <1>8, <1>9

LEMMA CommaFirst ==
  ASSUME NEW text \in Texts
  PROVE  /\ Comma \o text # NoText
         /\ Head(Comma \o text) = "," /\ Tail(Comma \o text) = text
<1> DEFINE s == Comma \o text
<1>1. /\ s \in Texts /\ Len(s) = Len(Comma) + Len(text) /\ Len(text) \in Nat
      /\ \A i \in 1..Len(Comma) : s[i] = Comma[i]
  BY CommaIsText, Joined
<1> HIDE DEF s
<1>2. s[1] = "," /\ Len(s) # 0
  <2>1. Len(Comma) = 1
    BY CommaIsText
  <2>2. Comma[1] = ","
    BY CommaIsText
  <2>3. 1 \in 1..Len(Comma)
    BY <2>1
  <2>4. Len(s) # 0
    BY <1>1, <2>1
  <2>5. QED
    BY <1>1, <2>2, <2>3, <2>4
<1>3. s # NoText
  <2>1. Len(<< >>) = 0
    OBVIOUS
  <2>2. QED
    BY <1>2, <2>1 DEF NoText
<1>4. Head(s) = ","
  BY <1>1, <1>2, <1>3, Nonempty
<1>5. s = <<",">> \o Tail(s) /\ Tail(s) \in Texts
  <2>1. Head(s) \in Characters /\ Tail(s) \in Texts
    BY <1>1, <1>3, HeadTailProperties DEF Texts, NoText
  <2>2. s = <<Head(s)>> \o Tail(s)
    BY <1>1, <1>3 DEF Texts, NoText
  <2>3. QED
    BY <1>4, <2>1, <2>2
<1>6. Comma \o Tail(s) = Comma \o text
  BY <1>5 DEF s, Comma
<1>7. Tail(s) = text
  BY <1>5, <1>6, CommaIsText, ConcatSimplifications DEF Texts
<1>8. QED
  BY <1>3, <1>4, <1>7 DEF s

(* What stands after a field ends it, and leads to the next one.           *)
LEMMA AtFollowing ==
  ASSUME NamesAreReadable, NEW i \in 1..Wanted, rest = Following(i)
  PROVE  /\ AtEnd \/ (At(",") /\ ~AtBlank /\ ~At(Quote) /\ ~At(CR))
         /\ i # Wanted => AfterComma = TextFrom(i + 1)
<1>1. CASE i = Wanted
  BY <1>1 DEF Following, AtEnd
<1>2. CASE i # Wanted
  <2>1. i + 1 \in 1..Wanted
    BY <1>2, FieldsAreReadable
  <2>2. TextFrom(i + 1) \in Texts
    BY <2>1, FieldByField
  <2>3. rest = Comma \o TextFrom(i + 1)
    BY <1>2 DEF Following
  <2>4. rest # NoText /\ Head(rest) = "," /\ Tail(rest) = TextFrom(i + 1)
    BY <2>2, <2>3, CommaFirst
  <2>5. QED
    BY <2>4 DEF AtEnd, At, AtBlank, AfterComma, Blank, Quote, CR
<1>3. QED
  BY <1>1, <1>2

LEMMA FieldFits ==
  ASSUME NamesAreReadable, NEW n \in 0..Wanted - 1, fields = UpTo(n)
  PROVE  Fits(Fields[n + 1])
<1>1. Fields[n + 1] # NoText
  BY FieldsAreReadable, FieldsUpTo DEF Readable
<1>2. CASE kind = "drive"
  BY <1>1, <1>2 DEF Fits
<1>3. CASE kind = "bay"
  <2>1. Fields = <<device, Number, Number>> /\ n \in {0, 1, 2}
    BY <1>3 DEF Fields, Wanted
  <2>2. n = 0 => Fields[n + 1] = device
    BY <2>1
  <2>3. n # 0 => Fields[n + 1] = Number /\ fields # << >>
    BY <2>1, FieldsUpTo
  <2>4. n = 0 => fields = << >>
    BY FieldsUpTo
  <2>5. Head(Number) = "1"
    BY DEF Number
  <2>6. QED
    BY <1>1, <1>3, <2>2, <2>3, <2>4, <2>5 DEF Fits
<1>4. QED
  BY <1>2, <1>3 DEF NamesAreReadable, IsWritten

-----------------------------------------------------------------------------
(***************************************************************************)
(* The inductive invariant: when a field begins, the fields before it were *)
(* read and the rest is the text from it; within the field, what was read  *)
(* of it and the rest make up that text.  Quotes are never met.            *)
(***************************************************************************)
Beginning(n) == fields = UpTo(n) /\ word = NoText /\ rest = TextFrom(n + 1)

Within(n) ==
    /\ fields = UpTo(n)
    /\ word \in Texts /\ rest \in Texts
    /\ Len(word) <= Len(Fields[n + 1])
    /\ word \o rest = TextFrom(n + 1)

Restored ==
    /\ kind = "drive" /\ ~attached => remembered = Nothing
    /\ kind = "bay" \/ attached => remembered = Tail(Fields)

Reads ==
    /\ pc \in {"written", "begin", "field", "restore", "done"}
    /\ pc = "written" => fields = << >> /\ word = NoText
    /\ pc = "begin" => \E n \in 0..Wanted - 1 : Beginning(n)
    /\ pc = "field" => \E n \in 0..Wanted - 1 : Within(n)
    /\ pc = "restore" => fields = Fields
    /\ pc = "done" => Restored

ReadInv == IsWritten /\ (NamesAreReadable => Reads)

LEMMA ReadInvInit == Init => ReadInv
BY DEF Init, ReadInv, IsWritten, Reads

LEMMA ReadInvNext == ReadInv /\ [Next]_vars => ReadInv'
<1> SUFFICES ASSUME ReadInv, [Next]_vars
             PROVE  ReadInv'
  OBVIOUS
<1>1. UNCHANGED written
  BY DEF Next, Read, ReadLine, Parse, SkipBlanks, TakeCharacter, TakeBlanks, OpenQuote,
     CloseQuote, NoClosingQuote, RepeatQuoted, EndField, EndLine, TakeField, NoField, Forget, Restore,
     Finish, GoOn, vars
<1>2. UNCHANGED <<kind, device, label>>
  BY <1>1 DEF written
<1>3. IsWritten /\ IsWritten' /\ (NamesAreReadable' <=> NamesAreReadable)
  BY <1>2 DEF ReadInv, IsWritten, NamesAreReadable
<1>4. SUFFICES ASSUME NamesAreReadable
               PROVE  Reads'
  BY <1>3 DEF ReadInv
<1>5. /\ UNCHANGED Line /\ UNCHANGED Fields /\ UNCHANGED Wanted
      /\ \A n : UpTo(n)' = UpTo(n) /\ TextFrom(n)' = TextFrom(n)
  BY <1>2 DEF Line, Fields, Wanted, UpTo, TextFrom
<1>6. Reads
  BY <1>4 DEF ReadInv
<1>7. /\ Wanted \in {2, 3}
      /\ \A n \in 0..Wanted - 1 : n + 1 \in 1..Wanted
  <2>1. Wanted \in {2, 3}
    BY <1>4, FieldsAreReadable
  <2>2. QED
    BY <2>1
<1>8. CASE UNCHANGED vars
  <2>1. UNCHANGED <<pc, rest, word, fields, remembered, attached>>
    BY <1>8 DEF vars
  <2>2. \A n : (Beginning(n)' <=> Beginning(n)) /\ (Within(n)' <=> Within(n))
    BY <1>5, <2>1 DEF Beginning, Within
  <2>3. Restored => Restored'
    BY <1>2, <1>5, <2>1 DEF Restored
  <2>4. QED
    BY <1>5, <1>6, <2>1, <2>2, <2>3 DEF Reads
<1>9. CASE ReadLine
  <2>1. /\ pc = "written" /\ pc' = "begin" /\ UNCHANGED <<fields, word>>
        /\ rest' = Line
    BY <1>4, <1>9, LineIsRead DEF ReadLine
  <2>2. fields = << >> /\ word = NoText
    BY <1>6, <2>1 DEF Reads
  <2>3. 0 \in 0..Wanted - 1 /\ UpTo(0) = << >> /\ TextFrom(0 + 1) = Line
    BY <1>4, <1>7, FieldsUpTo DEF TextFrom
  <2>4. Beginning(0)'
    BY <1>5, <2>1, <2>2, <2>3 DEF Beginning
  <2>5. QED
    BY <1>5, <2>1, <2>3, <2>4 DEF Reads
(* At the beginning of a field.                                            *)
<1>10. ASSUME pc = "begin"
       PROVE  /\ ~NoField /\ ~EndLine
              /\ SkipBlanks => Reads'
  <2>1. PICK n \in 0..Wanted - 1 : Beginning(n)
    BY <1>6, <1>10 DEF Reads
  <2>2. n + 1 \in 1..Wanted
    BY <1>7
  <2> DEFINE c == Fields[n + 1]
  <2>3. /\ Readable(c) /\ c \in Texts /\ c # NoText /\ c[1] \notin Blank \cup {CR}
        /\ 1 \in 1..Len(c)
    <3>1. Readable(c)
      BY <1>4, <2>2, FieldsAreReadable
    <3>2. c \in Texts /\ c # NoText
      BY <3>1 DEF Readable
    <3>3. Len(c) \in Nat \ {0}
      BY <3>2, Nonempty
    <3>4. QED
      BY <3>1, <3>2, <3>3, ReadableIsProper
  <2> HIDE DEF c
  <2>4. rest \in Texts /\ Following(n + 1) \in Texts /\ rest = c \o Following(n + 1)
    BY <1>4, <2>1, <2>2, FieldByField DEF Beginning, c
  <2>5. rest # NoText /\ rest[1] = c[1]
    <3>1. rest[1] = c[1]
      BY <2>3, <2>4, Joined
    <3>2. Len(rest) = Len(c) + Len(Following(n + 1)) /\ Len(Following(n + 1)) \in Nat
      BY <2>3, <2>4, Joined
    <3>3. Len(rest) # 0 /\ Len(<< >>) = 0
      BY <2>3, <3>2, Nonempty
    <3>4. QED
      BY <3>1, <3>3 DEF NoText
  <2>6. ~NoField /\ ~EndLine
    <3>1. AfterBlanks = rest /\ Head(rest) = rest[1]
      BY <2>3, <2>4, <2>5, NoBlanks, Nonempty
    <3>2. QED
      BY <2>3, <2>5, <3>1 DEF NoField, AtEnd, EndLine, AtLineEnd
  <2>7. ASSUME SkipBlanks
        PROVE  Reads'
    <3>1. /\ pc' = "field" /\ UNCHANGED <<fields, word>> /\ rest' = rest
      BY <2>3, <2>4, <2>5, <2>7, NoBlanks DEF SkipBlanks, GoOn
    <3>2. word = NoText /\ fields = UpTo(n) /\ rest = TextFrom(n + 1)
      BY <2>1 DEF Beginning
    <3>3. word \in Texts /\ Len(word) = 0 /\ word \o rest = rest
      BY <2>4, <3>2, EmptySeq, ConcatEmptySeq DEF Texts, NoText
    <3>4. Len(word) <= Len(c)
      BY <2>3, <3>3
    <3>5. Within(n)'
      BY <1>5, <2>4, <3>1, <3>2, <3>3, <3>4 DEF Within, c
    <3>6. QED
      BY <1>5, <3>1, <3>5 DEF Reads
  <2>8. QED
    BY <2>6, <2>7
(* Within a field.                                                         *)
<1>11. ASSUME pc = "field"
       PROVE  /\ ~OpenQuote
              /\ TakeCharacter \/ TakeBlanks => Reads'
              /\ EndField => Reads'
  <2>1. PICK n \in 0..Wanted - 1 : Within(n)
    BY <1>6, <1>11 DEF Reads
  <2>2. n + 1 \in 1..Wanted
    BY <1>7
  <2> DEFINE c == Fields[n + 1]
             after == Following(n + 1)
  <2>3. Readable(c) /\ c \in Texts /\ after \in Texts
    BY <1>4, <2>2, FieldsAreReadable, FieldByField DEF Readable
  <2> HIDE DEF c, after
  <2>4. /\ fields = UpTo(n) /\ word \in Texts /\ rest \in Texts
        /\ Len(word) <= Len(c) /\ word \o rest = c \o after
    BY <1>4, <2>1, <2>2, FieldByField DEF Within, c, after
  <2>5. /\ Len(word) < Len(c) =>
              /\ ~AtEnd /\ ~At(",") /\ ~At(Quote) /\ ~At(CR) /\ Head(rest) # "\t"
              /\ AtBlank => Head(rest) = " " /\ AfterBlanks = Tail(rest)
        /\ Len(word) = Len(c) => word = c /\ rest = after
    BY <2>3, <2>4, InField
  <2>6. Len(word) < Len(c) \/ Len(word) = Len(c)
    <3>1. Len(word) \in Nat /\ Len(c) \in Nat
      BY <2>3, <2>4, LenProperties DEF Texts
    <3>2. QED
      BY <2>4, <3>1
  <2>7. Len(word) = Len(c) =>
           /\ AtEnd \/ (At(",") /\ ~AtBlank /\ ~At(Quote) /\ ~At(CR))
           /\ n + 1 # Wanted => AfterComma = TextFrom(n + 1 + 1)
    BY <1>4, <2>2, <2>5, AtFollowing DEF after
  <2>8. ~OpenQuote
    BY <2>5, <2>6, <2>7, Zenon DEF OpenQuote, At
  <2>9. ASSUME TakeCharacter \/ TakeBlanks
        PROVE  Reads'
    <3>1. Len(word) < Len(c)
      BY <2>6, <2>7, <2>9, Zenon DEF TakeCharacter, TakeBlanks, AtBlank, At
    <3>2. /\ pc' = "field" /\ UNCHANGED fields
          /\ word' = Append(word, Head(rest)) /\ rest' = Tail(rest)
      BY <2>5, <2>9, <3>1 DEF TakeCharacter, TakeBlanks, GoOn
    <3>3. rest # NoText
      BY <2>5, <3>1 DEF AtEnd
    <3>4. /\ word' \in Texts /\ rest' \in Texts /\ Len(word') = Len(word) + 1
          /\ word' \o rest' = word \o rest
      BY <2>4, <3>2, <3>3, OneMore
    <3>5. Len(word') <= Len(c)
      <4>1. Len(word) \in Nat /\ Len(c) \in Nat
        BY <2>3, <2>4, LenProperties DEF Texts
      <4>2. QED
        BY <3>1, <3>4, <4>1
    <3>6. Within(n)'
      BY <1>5, <2>1, <3>2, <3>4, <3>5 DEF Within, c
    <3>7. QED
      BY <1>5, <3>2, <3>6 DEF Reads
  <2>10. ASSUME EndField
         PROVE  Reads'
    <3>1. /\ fields' = Append(fields, word) /\ word' = NoText /\ rest' = AfterComma
          /\ pc' = IF ~Fits(word) THEN "forget"
                   ELSE IF Len(fields') = Wanted THEN "restore" ELSE "begin"
      BY <2>10 DEF EndField, TakeField
    <3>2. Len(word) = Len(c)
      BY <2>5, <2>6, <2>10, Zenon DEF EndField
    <3>3. word = c /\ Fits(word)
      BY <1>4, <2>4, <2>5, <3>2, FieldFits DEF c
    <3>4. fields' = UpTo(n + 1) /\ Len(fields') = n + 1
      BY <1>4, <2>4, <3>1, <3>3, FieldsUpTo DEF c
    <3>5. CASE n + 1 = Wanted
      <4>1. pc' = "restore"
        BY <3>1, <3>3, <3>4, <3>5
      <4>2. fields' = Fields
        BY <1>4, <3>4, <3>5, FieldsUpTo
      <4>3. QED
        BY <1>5, <4>1, <4>2 DEF Reads
    <3>6. CASE n + 1 # Wanted
      <4>1. pc' = "begin"
        BY <3>1, <3>3, <3>4, <3>6
      <4>2. PICK k \in 0..Wanted - 1 : k = n + 1
        BY <1>7, <3>6
      <4>3. Beginning(k)'
        BY <1>5, <2>7, <3>1, <3>2, <3>4, <3>6, <4>2 DEF Beginning
      <4>4. QED
        BY <1>5, <4>1, <4>3 DEF Reads
    <3>7. QED
      BY <3>5, <3>6
  <2>11. QED
    BY <2>8, <2>9, <2>10
<1>12. CASE Parse
  <2>1. pc \in {"begin", "field"}
    BY <1>6, <1>12 DEF Reads, Parse, SkipBlanks, TakeCharacter, TakeBlanks, OpenQuote,
       CloseQuote, NoClosingQuote, RepeatQuoted, EndField, EndLine, NoField, GoOn
  <2>2. CASE pc = "begin"
    BY <1>10, <1>12, <2>2 DEF Parse, TakeCharacter, TakeBlanks, OpenQuote,
       CloseQuote, NoClosingQuote, RepeatQuoted, EndField, GoOn
  <2>3. CASE pc = "field"
    BY <1>11, <1>12, <2>3 DEF Parse, SkipBlanks,
       CloseQuote, NoClosingQuote, RepeatQuoted, EndLine, NoField, GoOn
  <2>4. QED
    BY <2>1, <2>2, <2>3
<1>13. CASE Restore
  <2>1. pc' = "done" /\ pc = "restore" /\ UNCHANGED attached
    BY <1>13 DEF Restore, Finish
  <2>2. fields = Fields
    BY <1>6, <2>1 DEF Reads
  <2>3. remembered' = IF kind = "drive" /\ Fields[2] \notin Attached THEN Nothing
                      ELSE Tail(Fields)
    BY <1>13, <2>2 DEF Restore, Finish
  <2>4. kind = "drive" => (Fields[2] \notin Attached <=> ~attached)
    BY <1>3 DEF Fields, Attached, IsWritten
  <2>5. Restored'
    BY <1>2, <1>3, <1>5, <2>1, <2>3, <2>4 DEF Restored, IsWritten
  <2>6. QED
    BY <1>5, <2>1, <2>5 DEF Reads
<1>14. ~Forget
  BY <1>6 DEF Reads, Forget
<1>15. QED
  BY <1>8, <1>9, <1>12, <1>13, <1>14 DEF Next, Read

(***************************************************************************)
(* What SaveDriveState() or save() wrote is what the next invocation has   *)
(* of it: the volume in the drive if it is still there, and a bay's range; *)
(* for any names without commas, quotes, ends of lines (LF and CR) and     *)
(* stray blanks.                                                           *)
(***************************************************************************)
THEOREM RestoredIsWrittenHolds == Spec => []RestoredIsWritten
<1>1. ReadInv => RestoredIsWritten
  <2> SUFFICES ASSUME ReadInv, pc = "done"
               PROVE  RestoredIsWritten
    BY DEF RestoredIsWritten
  <2>1. device \in Texts /\ label \in Texts /\ device # NoText /\ label # NoText
    <3>1. \A s \in Seq(Character) : s \in Texts
      BY SeqMonotonic DEF Texts, Characters
    <3>2. QED
      BY <3>1, NamesAssumption DEF ReadInv, IsWritten
  <2>2. Plain(device) => Readable(device)
    BY <2>1, PlainIsReadable
  <2>3. Plain(label) => Readable(label)
    BY <2>1, PlainIsReadable
  <2>4. NamesAreReadable => Restored
    BY DEF ReadInv, Reads
  <2>5. CASE kind = "bay" /\ Plain(device)
    <3>1. remembered = Tail(<<device, Number, Number>>)
      BY <2>2, <2>4, <2>5 DEF NamesAreReadable, Restored, Fields, ReadInv
    <3>2. QED
      BY <2>5, <3>1 DEF RestoredIsWritten
  <2>6. CASE kind = "drive" /\ Plain(device) /\ Plain(label)
    <3>1. remembered = IF attached THEN Tail(<<device, label>>) ELSE Nothing
      BY <2>2, <2>3, <2>4, <2>6 DEF NamesAreReadable, Restored, Fields, ReadInv
    <3>2. QED
      BY <2>6, <3>1 DEF RestoredIsWritten
  <2>7. CASE /\ ~(kind = "bay" /\ Plain(device))
             /\ ~(kind = "drive" /\ Plain(device) /\ Plain(label))
    BY <2>7 DEF RestoredIsWritten
  <2>8. QED
    BY <2>5, <2>6, <2>7
<1>2. QED
  BY ReadInvInit, ReadInvNext, <1>1, PTL DEF Spec
=============================================================================
