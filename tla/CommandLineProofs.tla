-------------------------- MODULE CommandLineProofs --------------------------
(***************************************************************************)
(* A line that a client writes is read as the words it stands for, however *)
(* long they are and whichever characters are in them.                     *)
(***************************************************************************)
EXTENDS CommandLine, WellFoundedInduction, TLAPS

(***************************************************************************)
(* Induction, on a set of numbers.                                         *)
(***************************************************************************)
LEMMA NatSets == ASSUME NEW S \in SUBSET Nat, 0 \in S, \A n \in S : n + 1 \in S PROVE S = Nat
<1> SUFFICES ASSUME NEW n \in Nat, n \notin S PROVE FALSE
  OBVIOUS
<1>1. PICK x \in Nat \ S : \A y \in Nat \ S : ~(<<y, x>> \in OpToRel(<, Nat))
  <2>1. IsWellFoundedOn(OpToRel(<, Nat), Nat)
    BY NatLessThanWellFounded
  <2> QED
    BY <2>1, WFMin
<1>2. x # 0 /\ x - 1 \in Nat
  OBVIOUS
<1>3. x - 1 \in S
  <2> SUFFICES ASSUME x - 1 \notin S PROVE FALSE
    OBVIOUS
  <2>1. <<x - 1, x>> \in OpToRel(<, Nat)
    BY <1>2 DEF OpToRel
  <2> QED
    BY <1>1, <1>2, <2>1
<1> QED
  BY <1>2, <1>3

LEMMA ReadingExists ==
    ASSUME NEW line \in Seq(Chars), NEW n \in Nat, n <= Len(line)
    PROVE  \E read : read = [i \in 0..n |-> IF i = 0 THEN Between(<<>>) ELSE Scan(read[i - 1], line[i])]
<1> DEFINE S == {m \in Nat : \E read :
      read = [i \in 0..m |-> IF i = 0 THEN Between(<<>>) ELSE Scan(read[i - 1], line[i])]}
<1>1. 0 \in S
  <2> DEFINE r == [i \in 0..0 |-> Between(<<>>)]
  <2>1. r = [i \in 0..0 |-> IF i = 0 THEN Between(<<>>) ELSE Scan(r[i - 1], line[i])]
    OBVIOUS
  <2> QED
    BY <2>1
<1>2. ASSUME NEW m \in S PROVE m + 1 \in S
  <2>1. PICK read : read = [i \in 0..m |-> IF i = 0 THEN Between(<<>>) ELSE Scan(read[i - 1], line[i])]
    OBVIOUS
  <2> DEFINE more == [i \in 0..m + 1 |-> IF i <= m THEN read[i] ELSE Scan(read[m], line[m + 1])]
  <2>2. ASSUME NEW i \in 0..m + 1
        PROVE  more[i] = IF i = 0 THEN Between(<<>>) ELSE Scan(more[i - 1], line[i])
    <3>1. CASE i = 0
      BY <2>1, <3>1
    <3>2. CASE i \in 1..m
      BY <2>1, <3>2
    <3>3. CASE i = m + 1
      BY <3>3
    <3> QED
      BY <3>1, <3>2, <3>3
  <2>3. more = [i \in 0..m + 1 |-> IF i = 0 THEN Between(<<>>) ELSE Scan(more[i - 1], line[i])]
    BY <2>2
  <2>4. \E r : r = [i \in 0..m + 1 |-> IF i = 0 THEN Between(<<>>) ELSE Scan(r[i - 1], line[i])]
    <3> HIDE DEF more
    <3> WITNESS more
    <3> QED
      BY <2>3
  <2> QED
    BY <2>4
<1>3. S = Nat
  <2> HIDE DEF S
  <2>1. S \in SUBSET Nat
    BY DEF S
  <2> QED
    BY <1>1, <1>2, <2>1, NatSets
<1> QED
  BY <1>3

LEMMA Reads ==
    ASSUME NEW line \in Seq(Chars)
    PROVE  /\ Reading(line)[0] = Between(<<>>)
           /\ \A i \in 1..Len(line) : Reading(line)[i] = Scan(Reading(line)[i - 1], line[i])
<1> DEFINE Is(read) == read = [i \in 0..Len(line) |->
                          IF i = 0 THEN Between(<<>>) ELSE Scan(read[i - 1], line[i])]
<1>1. Len(line) \in Nat
  OBVIOUS
<1>2. \E read : Is(read)
  BY <1>1, ReadingExists
<1>3. Is(CHOOSE read : Is(read))
  BY <1>2, Zenon
<1>4. Reading(line) = CHOOSE read : Is(read)
  BY DEF Reading
<1>5. Is(Reading(line))
  BY <1>3, <1>4
<1> QED
  BY <1>1, <1>5

LEMMA EscapesExist ==
    ASSUME NEW word \in Seq(Chars), NEW n \in Nat, n <= Len(word)
    PROVE  \E escaped : escaped = [i \in 0..n |-> IF i = 0 THEN <<>> ELSE escaped[i - 1] \o Escaped(word[i])]
<1> DEFINE S == {m \in Nat : \E escaped :
      escaped = [i \in 0..m |-> IF i = 0 THEN <<>> ELSE escaped[i - 1] \o Escaped(word[i])]}
<1>1. 0 \in S
  <2> DEFINE r == [i \in 0..0 |-> <<>>]
  <2>1. r = [i \in 0..0 |-> IF i = 0 THEN <<>> ELSE r[i - 1] \o Escaped(word[i])]
    OBVIOUS
  <2> QED
    BY <2>1
<1>2. ASSUME NEW m \in S PROVE m + 1 \in S
  <2>1. PICK escaped : escaped = [i \in 0..m |-> IF i = 0 THEN <<>> ELSE escaped[i - 1] \o Escaped(word[i])]
    OBVIOUS
  <2> DEFINE more == [i \in 0..m + 1 |-> IF i <= m THEN escaped[i] ELSE escaped[m] \o Escaped(word[m + 1])]
  <2>2. ASSUME NEW i \in 0..m + 1
        PROVE  more[i] = IF i = 0 THEN <<>> ELSE more[i - 1] \o Escaped(word[i])
    <3>1. CASE i = 0
      BY <2>1, <3>1
    <3>2. CASE i \in 1..m
      BY <2>1, <3>2
    <3>3. CASE i = m + 1
      BY <3>3
    <3> QED
      BY <3>1, <3>2, <3>3
  <2>3. more = [i \in 0..m + 1 |-> IF i = 0 THEN <<>> ELSE more[i - 1] \o Escaped(word[i])]
    BY <2>2
  <2>4. \E r : r = [i \in 0..m + 1 |-> IF i = 0 THEN <<>> ELSE r[i - 1] \o Escaped(word[i])]
    <3> HIDE DEF more
    <3> WITNESS more
    <3> QED
      BY <2>3
  <2>5. m + 1 \in Nat
    OBVIOUS
  <2> QED
    BY <2>4, <2>5, Zenon
<1>3. S = Nat
  <2> HIDE DEF S
  <2>1. S \in SUBSET Nat
    BY DEF S
  <2> QED
    BY <1>1, <1>2, <2>1, NatSets
<1> QED
  BY <1>3

LEMMA Escaping ==
    ASSUME NEW word \in Seq(Chars)
    PROVE  /\ Escapes(word)[0] = <<>>
           /\ \A i \in 1..Len(word) : Escapes(word)[i] = Escapes(word)[i - 1] \o Escaped(word[i])
<1> DEFINE Is(escaped) == escaped = [i \in 0..Len(word) |->
                             IF i = 0 THEN <<>> ELSE escaped[i - 1] \o Escaped(word[i])]
<1>1. Len(word) \in Nat
  OBVIOUS
<1>2. \E escaped : Is(escaped)
  <2>1. Len(word) <= Len(word)
    OBVIOUS
  <2> QED
    BY <1>1, <2>1, EscapesExist, Zenon
<1>3. Is(CHOOSE escaped : Is(escaped))
  BY <1>2, Zenon
<1>4. Escapes(word) = CHOOSE escaped : Is(escaped)
  BY DEF Escapes
<1>5. Is(Escapes(word))
  BY <1>3, <1>4
<1> QED
  BY <1>1, <1>5

LEMMA EscapedType == ASSUME NEW c \in Chars PROVE Escaped(c) \in Seq(Chars)
BY CharsAssumption DEF Escaped

LEMMA EscapesType ==
    ASSUME NEW word \in Seq(Chars), NEW n \in 0..Len(word)
    PROVE  Escapes(word)[n] \in Seq(Chars)
<1> DEFINE S == {i \in Nat : i <= Len(word) => Escapes(word)[i] \in Seq(Chars)}
<1>1. 0 \in S
  <2>1. Escapes(word)[0] = <<>>
    BY Escaping
  <2>2. <<>> \in Seq(Chars)
    OBVIOUS
  <2> QED
    BY <2>1, <2>2, Zenon
<1>2. ASSUME NEW i \in S PROVE i + 1 \in S
  <2> SUFFICES ASSUME i + 1 <= Len(word) PROVE Escapes(word)[i + 1] \in Seq(Chars)
    OBVIOUS
  <2>1. Escapes(word)[i + 1] = Escapes(word)[i] \o Escaped(word[i + 1])
    <3>1. i + 1 \in 1..Len(word) /\ (i + 1) - 1 = i
      OBVIOUS
    <3> QED
      BY <3>1, Escaping
  <2>2. Escapes(word)[i] \in Seq(Chars)
    OBVIOUS
  <2>3. Escaped(word[i + 1]) \in Seq(Chars)
    <3>1. word[i + 1] \in Chars
      OBVIOUS
    <3> QED
      BY <3>1, EscapedType
  <2> HIDE DEF S
  <2> QED
    BY <2>1, <2>2, <2>3
<1>3. S = Nat
  <2> HIDE DEF S
  <2>1. S \in SUBSET Nat
    BY DEF S
  <2> QED
    BY <1>1, <1>2, <2>1, NatSets
<1> QED
  BY <1>3

(***************************************************************************)
(* A word, from a place of the line where a word may start.                *)
(***************************************************************************)
InAtom(word, tokens) == [mode |-> "atom", word |-> word, tokens |-> tokens]
InQuotes(word, tokens) == [mode |-> "quoted", word |-> word, tokens |-> tokens]
InEscape(word, tokens) == [mode |-> "escaped", word |-> word, tokens |-> tokens]
First(word, n) == SubSeq(word, 1, n)

LEMMA FirstGrows ==
    ASSUME NEW word \in Seq(Chars)
    PROVE  /\ First(word, 0) = <<>> /\ First(word, Len(word)) = word
           /\ \A n \in 0..Len(word) - 1 : Append(First(word, n), word[n + 1]) = First(word, n + 1)
<1>1. First(word, 0) = <<>>
  BY DEF First
<1>2. First(word, Len(word)) = word
  BY DEF First
<1>3. ASSUME NEW n \in 0..Len(word) - 1 PROVE Append(First(word, n), word[n + 1]) = First(word, n + 1)
  <2>1. n + 1 \in 1..Len(word) /\ n \in Nat
    OBVIOUS
  <2>2. First(word, n) \in Seq(Chars) /\ Len(First(word, n)) = n
    BY <2>1 DEF First
  <2>3. First(word, n + 1) \in Seq(Chars) /\ Len(First(word, n + 1)) = n + 1
    BY <2>1 DEF First
  <2>4. ASSUME NEW i \in 1..n + 1 PROVE Append(First(word, n), word[n + 1])[i] = First(word, n + 1)[i]
    <3>1. CASE i = n + 1
      BY <2>1, <2>2, <3>1 DEF First
    <3>2. CASE i \in 1..n
      BY <2>1, <2>2, <3>2 DEF First
    <3>3. i = n + 1 \/ i \in 1..n
      BY <2>1
    <3> QED
      BY <3>1, <3>2, <3>3
  <2>5. Append(First(word, n), word[n + 1]) \in Seq(Chars)
        /\ Len(Append(First(word, n), word[n + 1])) = n + 1
    BY <2>1, <2>2
  <2> HIDE DEF First
  <2> QED
    BY <2>3, <2>4, <2>5
<1> QED
  BY <1>1, <1>2, <1>3

LEMMA AtomRead ==
    ASSUME NEW line \in Seq(Chars), NEW k \in Nat, NEW word \in Seq(Chars), IsAtom(word), NEW tokens,
           k + Len(word) <= Len(line), \A i \in 1..Len(word) : line[k + i] = word[i],
           Reading(line)[k] = Between(tokens)
    PROVE  Reading(line)[k + Len(word)] = InAtom(word, tokens)
<1> DEFINE At(n) == Reading(line)[k + n]
<1> DEFINE S == {n \in Nat : n + 1 <= Len(word) => At(n + 1) = InAtom(First(word, n + 1), tokens)}
<1>1. At(0) = Between(tokens)
  OBVIOUS
<1>2. ASSUME NEW n \in 1..Len(word) PROVE At(n) = Scan(At(n - 1), word[n])
  <2>1. k + n \in 1..Len(line) /\ (k + n) - 1 = k + (n - 1)
    OBVIOUS
  <2>2. line[k + n] = word[n]
    OBVIOUS
  <2> QED
    BY <2>1, <2>2, Reads
<1>3. \A n \in 1..Len(word) : word[n] \in Chars /\ word[n] # Space
  BY DEF IsAtom
<1>4. Len(word) \in Nat \ {0} /\ word[1] # DoubleQuote
  BY DEF IsAtom
<1> HIDE DEF At
<1>5. 0 \in S
  <2>1. At(1) = Scan(Between(tokens), word[1])
    BY <1>1, <1>2, <1>4
  <2>2. Scan(Between(tokens), word[1]) = InAtom(<<word[1]>>, tokens)
    <3>1. word[1] \notin {Space, DoubleQuote}
      BY <1>3, <1>4
    <3> QED
      BY <3>1 DEF Scan, Between, InWord, InAtom
  <2>3. First(word, 1) = <<word[1]>>
    <3>1. Append(First(word, 0), word[1]) = First(word, 1) /\ First(word, 0) = <<>>
      BY <1>4, FirstGrows
    <3>2. Append(<<>>, word[1]) = <<word[1]>>
      OBVIOUS
    <3> QED
      BY <3>1, <3>2
  <2>4. 0 + 1 = 1
    OBVIOUS
  <2> QED
    BY <2>1, <2>2, <2>3, <2>4
<1>6. ASSUME NEW n \in S PROVE n + 1 \in S
  <2>1. n \in Nat /\ (n + 1) + 1 = n + 2 /\ n + 1 \in Nat
    OBVIOUS
  <2>2. ASSUME n + 2 <= Len(word) PROVE At(n + 2) = InAtom(First(word, n + 2), tokens)
    <3>1. At(n + 1) = InAtom(First(word, n + 1), tokens)
      BY <2>1, <2>2, <1>4
    <3>2. n + 2 \in 1..Len(word) /\ (n + 2) - 1 = n + 1 /\ n + 1 \in 0..Len(word) - 1
      BY <2>1, <2>2, <1>4
    <3> HIDE DEF S
    <3>3. At(n + 2) = Scan(InAtom(First(word, n + 1), tokens), word[n + 2])
      BY <1>2, <3>1, <3>2
    <3>4. Scan(InAtom(First(word, n + 1), tokens), word[n + 2])
              = InAtom(Append(First(word, n + 1), word[n + 2]), tokens)
      BY <1>3, <3>2 DEF Scan, InWord, InAtom
    <3>5. Append(First(word, n + 1), word[n + 2]) = First(word, n + 2)
      BY <2>1, <3>2, FirstGrows
    <3> QED
      BY <3>3, <3>4, <3>5
  <2> QED
    BY <2>1, <2>2
<1>7. S = Nat
  <2> HIDE DEF S
  <2>1. S \in SUBSET Nat
    BY DEF S
  <2> QED
    BY <1>5, <1>6, <2>1, NatSets
<1>8. Len(word) - 1 \in Nat /\ (Len(word) - 1) + 1 = Len(word)
  BY <1>4
<1>9. At(Len(word)) = InAtom(First(word, Len(word)), tokens)
  <2>1. Len(word) - 1 \in S
    BY <1>7, <1>8
  <2> QED
    BY <1>4, <1>8, <2>1
<1>10. First(word, Len(word)) = word
  BY FirstGrows
<1> QED
  BY <1>9, <1>10 DEF At

LEMMA QuotedIs ==
    ASSUME NEW word \in Seq(Chars)
    PROVE  LET e == Escapes(word)[Len(word)]
               q == Quoted(word)
           IN  /\ q \in Seq(Chars) /\ Len(q) = Len(e) + 2
               /\ q[1] = DoubleQuote /\ q[Len(e) + 2] = DoubleQuote
               /\ \A x \in 1..Len(e) : q[x + 1] = e[x]
<1> DEFINE e == Escapes(word)[Len(word)]
           open == <<DoubleQuote>> \o e
<1>1. e \in Seq(Chars)
  BY EscapesType
<1> HIDE DEF e
<1>2. DoubleQuote \in Chars
  BY CharsAssumption
<1>3. /\ open \in Seq(Chars) /\ Len(open) = Len(e) + 1 /\ open[1] = DoubleQuote
      /\ \A x \in 1..Len(e) : open[x + 1] = e[x]
  BY <1>1, <1>2
<1> HIDE DEF open
<1>4. Len(e) \in Nat
  BY <1>1
<1>5. LET q == open \o <<DoubleQuote>>
      IN  /\ q \in Seq(Chars) /\ Len(q) = Len(e) + 2 /\ q[Len(e) + 2] = DoubleQuote
          /\ \A x \in 1..Len(e) + 1 : q[x] = open[x]
  BY <1>2, <1>3, <1>4
<1>6. Quoted(word) = open \o <<DoubleQuote>>
  BY DEF Quoted, open, e
<1>7. /\ Quoted(word) \in Seq(Chars) /\ Len(Quoted(word)) = Len(e) + 2
      /\ Quoted(word)[1] = DoubleQuote /\ Quoted(word)[Len(e) + 2] = DoubleQuote
      /\ \A x \in 1..Len(e) : Quoted(word)[x + 1] = e[x]
  <2>1. 1 \in 1..Len(e) + 1 /\ \A x \in 1..Len(e) : x + 1 \in 1..Len(e) + 1
    BY <1>4
  <2> QED
    BY <1>3, <1>5, <1>6, <2>1
<1> QED
  BY <1>7 DEF e

LEMMA ScanQuoted ==
    ASSUME NEW c, NEW word, NEW tokens
    PROVE  /\ Scan(InQuotes(word, tokens), DoubleQuote) = Between(Append(tokens, word))
           /\ Scan(InQuotes(word, tokens), Backslash) = InEscape(word, tokens)
           /\ Scan(InEscape(word, tokens), c) = InQuotes(Append(word, c), tokens)
           /\ c \notin {DoubleQuote, Backslash} =>
                 Scan(InQuotes(word, tokens), c) = InQuotes(Append(word, c), tokens)
<1>1. Scan(InQuotes(word, tokens), DoubleQuote) = Between(Append(tokens, word))
  BY CharsAssumption DEF Scan, InQuotes
<1>2. Scan(InQuotes(word, tokens), Backslash) = InEscape(word, tokens)
  BY CharsAssumption DEF Scan, InQuotes, InEscape, InWord
<1>3. Scan(InEscape(word, tokens), c) = InQuotes(Append(word, c), tokens)
  BY DEF Scan, InQuotes, InEscape, InWord
<1>4. ASSUME c \notin {DoubleQuote, Backslash}
      PROVE  Scan(InQuotes(word, tokens), c) = InQuotes(Append(word, c), tokens)
  BY <1>4 DEF Scan, InQuotes, InWord
<1> QED
  BY <1>1, <1>2, <1>3, <1>4

\* A word between quotes; the characters after the first quote are read one
\* character of the word at a time.
LEMMA QuotedRead ==
    ASSUME NEW line \in Seq(Chars), NEW k \in Nat, NEW word \in Seq(Chars), NEW tokens,
           k + Len(Quoted(word)) <= Len(line),
           \A i \in 1..Len(Quoted(word)) : line[k + i] = Quoted(word)[i],
           Reading(line)[k] = Between(tokens)
    PROVE  Reading(line)[k + Len(Quoted(word))] = Between(Append(tokens, word))
<1> DEFINE e == Escapes(word)
           last == Len(e[Len(word)])
           At(n) == Reading(line)[k + 1 + n]
           Char(n) == line[k + 1 + n]
           Agrees(n) == Len(e[n]) <= last /\ \A x \in 1..Len(e[n]) : Char(x) = e[n][x]
           S == {n \in Nat : n <= Len(word) /\ Agrees(n) => At(Len(e[n])) = InQuotes(First(word, n), tokens)}
<1>1. \A n \in 0..Len(word) : e[n] \in Seq(Chars) /\ Len(e[n]) \in Nat
  BY EscapesType
<1>2. Len(Quoted(word)) = last + 2 /\ last \in Nat /\ Len(word) \in Nat
  BY <1>1, QuotedIs
<1>3. Char(0) = DoubleQuote /\ Char(last + 1) = DoubleQuote /\ \A x \in 1..last : Char(x) = e[Len(word)][x]
  <2>1. /\ Quoted(word)[1] = DoubleQuote /\ Quoted(word)[last + 2] = DoubleQuote
        /\ \A x \in 1..last : Quoted(word)[x + 1] = e[Len(word)][x]
    BY QuotedIs
  <2>2. \A x \in 0..last + 1 : x + 1 \in 1..Len(Quoted(word)) /\ k + 1 + x = k + (x + 1)
    BY <1>2
  <2>3. \A x \in 0..last + 1 : Char(x) = Quoted(word)[x + 1]
    BY <2>2
  <2> HIDE DEF last, e, Char
  <2>4. Char(0) = Quoted(word)[0 + 1] /\ Char(last + 1) = Quoted(word)[(last + 1) + 1]
    BY <1>2, <2>3
  <2>5. \A x \in 1..last : Char(x) = Quoted(word)[x + 1]
    BY <1>2, <2>3
  <2>6. 0 + 1 = 1 /\ (last + 1) + 1 = last + 2
    BY <1>2
  <2> QED
    BY <2>1, <2>4, <2>5, <2>6
<1>4. \A n \in 0..last + 1 : k + 1 + n \in 1..Len(line)
  BY <1>2
<1>5. At(0) = InQuotes(<<>>, tokens)
  <2>1. k + 1 + 0 \in 1..Len(line) /\ (k + 1 + 0) - 1 = k
    BY <1>2, <1>4
  <2>2. At(0) = Scan(Between(tokens), DoubleQuote)
    BY <1>3, <2>1, Reads
  <2> QED
    BY <2>2, CharsAssumption DEF Scan, Between, InWord, InQuotes
<1>6. ASSUME NEW n \in 0..last PROVE At(n + 1) = Scan(At(n), Char(n + 1))
  <2>1. k + 1 + (n + 1) \in 1..Len(line) /\ (k + 1 + (n + 1)) - 1 = k + 1 + n
    BY <1>2, <1>4
  <2> QED
    BY <2>1, Reads
<1>7. /\ e[0] = <<>>
      /\ \A n \in 1..Len(word) : e[n] = e[n - 1] \o Escaped(word[n])
  BY Escaping
<1> HIDE DEF e, last, At, Char
<1>8. 0 \in S
  <2>1. Len(e[0]) = 0
    BY <1>7
  <2>2. First(word, 0) = <<>>
    BY FirstGrows
  <2> QED
    BY <1>5, <2>1, <2>2
<1>9. ASSUME NEW n \in Nat, n + 1 <= Len(word), Agrees(n + 1),
             Agrees(n) => At(Len(e[n])) = InQuotes(First(word, n), tokens)
      PROVE  At(Len(e[n + 1])) = InQuotes(First(word, n + 1), tokens)
  <2> HIDE DEF S
  <2>1. n \in 0..Len(word) - 1 /\ n \in 0..Len(word) /\ n + 1 \in 1..Len(word) /\ (n + 1) - 1 = n
    BY <1>2, <1>9
  <2> DEFINE c == word[n + 1]
             here == Len(e[n])
             esc == Escaped(c)
  <2>2. c \in Chars /\ esc \in Seq(Chars)
    BY <2>1, EscapedType
  <2>3. e[n] \in Seq(Chars) /\ here \in Nat /\ e[n + 1] = e[n] \o esc
    BY <1>1, <1>7, <2>1
  <2>4. Append(First(word, n), c) = First(word, n + 1)
    BY <2>1, FirstGrows
  <2>5. \/ c \in {DoubleQuote, Backslash} /\ esc = <<Backslash, c>>
        \/ c \notin {DoubleQuote, Backslash} /\ esc = <<c>>
    BY DEF Escaped
  <2>6. Len(esc) \in {1, 2}
    BY <2>5
  <2> HIDE DEF c, esc
  <2>7. /\ Len(e[n + 1]) = here + Len(esc)
        /\ \A x \in 1..here : e[n + 1][x] = e[n][x]
        /\ \A x \in 1..Len(esc) : e[n + 1][here + x] = esc[x]
    BY <2>2, <2>3
  <2> HIDE DEF here
  <2>8. here + Len(esc) <= last /\ \A x \in 1..here + Len(esc) : Char(x) = e[n + 1][x]
    BY <1>9, <2>7
  <2>9. Agrees(n)
    <3>1. here <= last /\ \A x \in 1..here : x \in 1..here + Len(esc)
      BY <1>2, <2>3, <2>6, <2>8
    <3>2. \A x \in 1..here : Char(x) = e[n][x]
      BY <2>7, <2>8, <3>1
    <3> QED
      BY <3>1, <3>2 DEF here
  <2>10. At(here) = InQuotes(First(word, n), tokens)
    BY <1>9, <2>9 DEF here
  <2>11. \A x \in 1..Len(esc) : Char(here + x) = esc[x]
    <3>1. \A x \in 1..Len(esc) : here + x \in 1..here + Len(esc)
      BY <2>3, <2>6
    <3> QED
      BY <2>7, <2>8, <3>1
  <2>12. here \in 0..last /\ (Len(esc) = 2 => here + 1 \in 0..last /\ (here + 1) + 1 = here + 2)
    <3>1. here \in Nat /\ here + Len(esc) <= last
      BY <2>3, <2>8 DEF here
    <3>2. last \in Nat
      BY <1>2
    <3>3. CASE Len(esc) = 1
      BY <3>1, <3>2, <3>3
    <3>4. CASE Len(esc) = 2
      BY <3>1, <3>2, <3>4
    <3> QED
      BY <2>6, <3>3, <3>4
  <2> HIDE DEF Agrees
  <2>13. At(here + Len(esc)) = InQuotes(Append(First(word, n), c), tokens)
    <3>1. CASE c \in {DoubleQuote, Backslash}
      <4>1. Len(esc) = 2 /\ Char(here + 1) = Backslash /\ Char(here + 2) = c
        <5>1. Len(esc) = 2 /\ esc[1] = Backslash /\ esc[2] = c
          BY <2>5, <3>1
        <5>2. 1 \in 1..Len(esc) /\ 2 \in 1..Len(esc)
          BY <5>1
        <5> QED
          BY <2>11, <5>1, <5>2
      <4>2. At(here + 1) = InEscape(First(word, n), tokens)
        BY <1>6, <2>10, <2>12, <4>1, ScanQuoted
      <4>3. At(here + 2) = Scan(At(here + 1), Char(here + 2))
        BY <1>6, <2>12, <4>1
      <4> QED
        BY <4>1, <4>2, <4>3, ScanQuoted
    <3>2. CASE c \notin {DoubleQuote, Backslash}
      <4>1. Len(esc) = 1 /\ Char(here + 1) = c
        <5>1. Len(esc) = 1 /\ esc[1] = c /\ 1 \in 1..Len(esc)
          BY <2>5, <3>2
        <5> QED
          BY <2>11, <5>1
      <4>2. At(here + 1) = Scan(At(here), Char(here + 1))
        BY <1>6, <2>12
      <4> QED
        BY <2>10, <3>2, <4>1, <4>2, ScanQuoted
    <3> QED
      BY <3>1, <3>2
  <2> QED
    BY <2>4, <2>7, <2>13
<1>14. ASSUME NEW n \in S PROVE n + 1 \in S
  <2>1. n \in Nat /\ n + 1 \in Nat /\ (n + 1 <= Len(word) => n <= Len(word))
    BY <1>2
  <2> QED
    BY <1>9, <2>1
<1>10. S = Nat
  <2> HIDE DEF S
  <2>1. S \in SUBSET Nat
    BY DEF S
  <2> QED
    BY <1>8, <1>14, <2>1, NatSets
<1>11. At(last) = InQuotes(word, tokens)
  <2>1. Len(word) \in S /\ Agrees(Len(word))
    BY <1>2, <1>3, <1>10 DEF last
  <2>2. First(word, Len(word)) = word
    BY FirstGrows
  <2> QED
    BY <1>2, <2>1, <2>2 DEF last
<1>12. At(last + 1) = Between(Append(tokens, word))
  <2>1. At(last + 1) = Scan(InQuotes(word, tokens), DoubleQuote)
    BY <1>2, <1>3, <1>6, <1>11
  <2> QED
    BY <2>1, ScanQuoted
<1>13. k + 1 + (last + 1) = k + Len(Quoted(word))
  BY <1>2
<1> QED
  BY <1>12, <1>13 DEF At

(***************************************************************************)
(* A line of written words.                                                *)
(***************************************************************************)
LEMMA WrittenType ==
    ASSUME NEW word \in Seq(Chars), NEW text \in Written(word) PROVE text \in Seq(Chars)
BY QuotedIs DEF Written

\* A word is written where one may start.
Stands(line, k, text, tokens) ==
    /\ k + Len(text) <= Len(line)
    /\ \A i \in 1..Len(text) : line[k + i] = text[i]
    /\ Reading(line)[k] = Between(tokens)

\* After it, the line may end, or a space may follow.
LEMMA WrittenRead ==
    ASSUME NEW line \in Seq(Chars), NEW k \in Nat, NEW word \in Seq(Chars), NEW text \in Written(word),
           NEW tokens, Stands(line, k, text, tokens)
    PROVE  /\ Finish(Reading(line)[k + Len(text)]) = Append(tokens, word)
           /\ Scan(Reading(line)[k + Len(text)], Space) = Between(Append(tokens, word))
<1> USE DEF Stands
<1>1. CASE text = Quoted(word)
  <2>1. Reading(line)[k + Len(text)] = Between(Append(tokens, word))
    BY <1>1, QuotedRead
  <2> QED
    BY <2>1, CharsAssumption DEF Finish, Scan, Between
<1>2. CASE text = word /\ IsAtom(word)
  <2>1. Reading(line)[k + Len(text)] = InAtom(word, tokens)
    BY <1>2, AtomRead
  <2> QED
    BY <2>1 DEF Finish, Scan, Between, InAtom
<1> QED
  BY <1>1, <1>2 DEF Written

\* The text at the end of a line, and after a space.
LEMMA EndOfLine ==
    ASSUME NEW before \in Seq(Chars), NEW text \in Seq(Chars)
    PROVE  LET line == before \o text
           IN  /\ line \in Seq(Chars) /\ Len(line) = Len(before) + Len(text)
               /\ \A i \in 1..Len(before) : line[i] = before[i]
               /\ \A i \in 1..Len(text) : line[Len(before) + i] = text[i]
OBVIOUS

LEMMA SpaceAfter ==
    ASSUME NEW before \in Seq(Chars)
    PROVE  LET line == before \o <<Space>>
           IN  /\ line \in Seq(Chars) /\ Len(line) = Len(before) + 1
               /\ \A i \in 1..Len(before) : line[i] = before[i]
               /\ line[Len(before) + 1] = Space
BY CharsAssumption

\* What comes first in a line is read without what follows.
LEMMA ReadingBefore ==
    ASSUME NEW line \in Seq(Chars), NEW more \in Seq(Chars), Len(line) <= Len(more),
           \A i \in 1..Len(line) : more[i] = line[i]
    PROVE  Reading(more)[Len(line)] = Reading(line)[Len(line)]
<1> DEFINE S == {n \in Nat : n <= Len(line) => Reading(more)[n] = Reading(line)[n]}
<1>1. 0 \in S
  BY Reads
<1>2. ASSUME NEW n \in S PROVE n + 1 \in S
  <2>1. n \in Nat /\ n + 1 \in Nat
    OBVIOUS
  <2>2. ASSUME n + 1 <= Len(line) PROVE Reading(more)[n + 1] = Reading(line)[n + 1]
    <3>1. n + 1 \in 1..Len(line) /\ n + 1 \in 1..Len(more) /\ (n + 1) - 1 = n
      BY <2>1, <2>2
    <3>2. Reading(more)[n] = Reading(line)[n]
      BY <2>1, <2>2
    <3> HIDE DEF S
    <3> QED
      BY <3>1, <3>2, Reads
  <2> QED
    BY <2>1, <2>2
<1>3. S = Nat
  <2> HIDE DEF S
  <2>1. S \in SUBSET Nat
    BY DEF S
  <2> QED
    BY <1>1, <1>2, <2>1, NatSets
<1> QED
  BY <1>3

\* A line that may go on with a word, and the line with the word.
Ready(line, tokens) == line \in Seq(Chars) /\ Reading(line)[Len(line)] = Between(tokens)

LEMMA WordAdded ==
    ASSUME NEW line, NEW tokens, Ready(line, tokens), NEW word \in Seq(Chars), NEW text \in Written(word)
    PROVE  /\ Tokenize(line \o text) = Append(tokens, word)
           /\ Ready((line \o text) \o <<Space>>, Append(tokens, word))
<1> DEFINE next == line \o text
           last == next \o <<Space>>
<1>1. line \in Seq(Chars) /\ text \in Seq(Chars) /\ Len(line) \in Nat /\ Len(text) \in Nat
  BY WrittenType DEF Ready
<1>2. /\ next \in Seq(Chars) /\ Len(next) = Len(line) + Len(text) /\ Len(next) \in Nat
      /\ \A i \in 1..Len(line) : next[i] = line[i]
      /\ \A i \in 1..Len(text) : next[Len(line) + i] = text[i]
  BY <1>1, EndOfLine
<1> HIDE DEF next
<1>3. /\ last \in Seq(Chars) /\ Len(last) = Len(next) + 1
      /\ \A i \in 1..Len(next) : last[i] = next[i]
      /\ last[Len(next) + 1] = Space
  BY <1>2, SpaceAfter
<1> HIDE DEF last
<1>4. Reading(next)[Len(line)] = Between(tokens)
  <2>1. Len(line) <= Len(next)
    BY <1>1, <1>2
  <2> QED
    BY <1>1, <1>2, <2>1, ReadingBefore DEF Ready
<1> DEFINE st == Reading(next)[Len(next)]
<1>5. Finish(st) = Append(tokens, word) /\ Scan(st, Space) = Between(Append(tokens, word))
  <2>1. Stands(next, Len(line), text, tokens)
    BY <1>1, <1>2, <1>4 DEF Stands
  <2>2. /\ Finish(Reading(next)[Len(line) + Len(text)]) = Append(tokens, word)
        /\ Scan(Reading(next)[Len(line) + Len(text)], Space) = Between(Append(tokens, word))
    BY <1>1, <1>2, <2>1, WrittenRead
  <2> QED
    BY <1>2, <2>2
<1>6. Reading(last)[Len(next)] = st
  <2>1. Len(next) <= Len(last)
    BY <1>2, <1>3
  <2> QED
    BY <1>2, <1>3, <2>1, ReadingBefore
<1>7. Reading(last)[Len(last)] = Scan(st, Space)
  <2>1. Len(last) \in 1..Len(last) /\ Len(last) - 1 = Len(next)
    BY <1>2, <1>3
  <2> QED
    BY <1>3, <1>6, <2>1, Reads
<1>8. Tokenize(next) = Append(tokens, word)
  BY <1>5 DEF Tokenize
<1>9. Ready(last, Append(tokens, word))
  BY <1>3, <1>5, <1>7 DEF Ready
<1> QED
  BY <1>8, <1>9 DEF next, last

LEMMA Appended ==
    ASSUME NEW p \in Seq(Seq(Chars)), NEW x \in Seq(Chars)
    PROVE  /\ Append(p, x) \in Seq(Seq(Chars)) /\ Len(Append(p, x)) = Len(p) + 1
           /\ Append(p, x)[Len(p) + 1] = x
           /\ \A i \in 1..Len(p) : Append(p, x)[i] = p[i]
OBVIOUS

LEMMA PairsEqual ==
    ASSUME NEW S, NEW p \in Seq(S), NEW q \in Seq(S), Len(p) = 2, Len(q) = 2, p[1] = q[1], p[2] = q[2]
    PROVE  p = q
OBVIOUS

Writes(text, word) == word \in Seq(Chars) /\ text \in Written(word)

\* A client's line comes out of the parser as the command that it stands for,
\* with the arguments that the client meant.
THEOREM LinesParse ==
    ASSUME NEW tag, NEW name, NEW first, NEW second, NEW t, NEW n, NEW f, NEW s,
           Writes(t, tag), Writes(n, name), Writes(f, first), Writes(s, second)
    PROVE  Parse(Line(t, n, f, s)) = [tag |-> tag, name |-> name, args |-> <<first, second>>]
<1> DEFINE a == t \o <<Space>>
           b == (a \o n) \o <<Space>>
           c == (b \o f) \o <<Space>>
           one == Append(<<>>, tag)
           two == Append(one, name)
           three == Append(two, first)
           tokens == Append(three, second)
           words == <<first, second>>
           args == SubSeq(tokens, 3, Len(tokens))
<1> USE DEF Writes
<1>1. Ready(<<>>, <<>>)
  <2>1. <<>> \in Seq(Chars) /\ Len(<<>>) = 0
    OBVIOUS
  <2>2. Reading(<<>>)[0] = Between(<<>>)
    BY <2>1, Reads
  <2> QED
    BY <2>1, <2>2 DEF Ready
<1>2. Ready(a, one)
  <2>1. Ready((<<>> \o t) \o <<Space>>, one)
    BY <1>1, WordAdded
  <2>2. <<>> \o t = t
    BY WrittenType
  <2> QED
    BY <2>1, <2>2
<1> HIDE DEF a, one
<1>3. Ready(b, two)
  BY <1>2, WordAdded
<1> HIDE DEF b, two
<1>4. Ready(c, three)
  BY <1>3, WordAdded
<1> HIDE DEF c, three
<1>5. Tokenize(c \o s) = tokens
  BY <1>4, WordAdded
<1>6. Line(t, n, f, s) = c \o s
  BY DEF Line, a, b, c
<1> HIDE DEF tokens
<1>7. /\ tokens \in Seq(Seq(Chars)) /\ Len(tokens) = 4
      /\ tokens[1] = tag /\ tokens[2] = name /\ tokens[3] = first /\ tokens[4] = second
  <2>1. one \in Seq(Seq(Chars)) /\ Len(one) = 1 /\ one[1] = tag
    BY DEF one
  <2>2. two \in Seq(Seq(Chars)) /\ Len(two) = 2
        /\ two[1] = tag /\ two[2] = name
    <3>1. /\ two \in Seq(Seq(Chars)) /\ Len(two) = Len(one) + 1
          /\ two[Len(one) + 1] = name
          /\ \A i \in 1..Len(one) : two[i] = one[i]
      BY <2>1, Appended DEF two
    <3>2. Len(one) + 1 = 2 /\ 1 \in 1..Len(one)
      BY <2>1
    <3> QED
      BY <2>1, <3>1, <3>2
  <2>3. three \in Seq(Seq(Chars)) /\ Len(three) = 3
        /\ three[1] = tag /\ three[2] = name /\ three[3] = first
    <3>1. /\ three \in Seq(Seq(Chars)) /\ Len(three) = Len(two) + 1
          /\ three[Len(two) + 1] = first
          /\ \A i \in 1..Len(two) : three[i] = two[i]
      BY <2>2, Appended DEF three
    <3>2. Len(two) + 1 = 3 /\ 1 \in 1..Len(two) /\ 2 \in 1..Len(two)
      BY <2>2
    <3> QED
      BY <2>2, <3>1, <3>2
  <2>4. tokens \in Seq(Seq(Chars)) /\ Len(tokens) = 4
        /\ tokens[1] = tag /\ tokens[2] = name /\ tokens[3] = first /\ tokens[4] = second
    <3>1. /\ tokens \in Seq(Seq(Chars)) /\ Len(tokens) = Len(three) + 1
          /\ tokens[Len(three) + 1] = second
          /\ \A i \in 1..Len(three) : tokens[i] = three[i]
      BY <2>3, Appended DEF tokens
    <3>2. Len(three) + 1 = 4 /\ 1 \in 1..Len(three) /\ 2 \in 1..Len(three) /\ 3 \in 1..Len(three)
      BY <2>3
    <3> QED
      BY <2>3, <3>1, <3>2
  <2> QED
    BY <2>4
<1>8. args = words
  <2>1. args \in Seq(Seq(Chars)) /\ Len(args) = 2 /\ args[1] = first /\ args[2] = second
    BY <1>7
  <2>2. words \in Seq(Seq(Chars)) /\ Len(words) = 2 /\ words[1] = first /\ words[2] = second
    OBVIOUS
  <2> HIDE DEF args, words
  <2> QED
    BY <2>1, <2>2, PairsEqual
<1>9. tokens # ParseError /\ ~(Len(tokens) < 2)
  BY <1>7, CharsAssumption
<1> QED
  BY <1>5, <1>6, <1>7, <1>8, <1>9 DEF Parse
===============================================================================
