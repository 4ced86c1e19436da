----------------------------- MODULE CommandLine -----------------------------
(***************************************************************************)
(* How a line of input becomes arguments (_tokenize of                     *)
(* imap_server/server/parser.py), and how a client writes an argument: as  *)
(* an atom, or between quotes, where it puts a backslash before a quote    *)
(* and a backslash.                                                        *)
(***************************************************************************)
EXTENDS Naturals, Sequences

CONSTANTS
    Chars,
    Space, DoubleQuote, Backslash,
    ParseError    \* a line that is no command

ASSUME CharsAssumption ==
    /\ {Space, DoubleQuote, Backslash} \subseteq Chars
    /\ Space # DoubleQuote /\ Space # Backslash /\ DoubleQuote # Backslash
    /\ ParseError \notin Seq(Seq(Chars))

\* _tokenize has read a part of the line: the tokens that are complete, the
\* word it is in, and where that word stands.
Between(tokens) == [mode |-> "between", word |-> <<>>, tokens |-> tokens]
InWord(st, mode, word) == [st EXCEPT !.mode = mode, !.word = word]

\* Mutant: a backslash between quotes stands for itself.
ScanWithoutEscapes(st, c) ==
    CASE st.mode = "between" /\ c = Space -> st
      [] st.mode = "between" /\ c = DoubleQuote -> InWord(st, "quoted", <<>>)
      [] st.mode = "between" /\ c \notin {Space, DoubleQuote} -> InWord(st, "atom", <<c>>)
      [] st.mode = "atom" /\ c = Space -> Between(Append(st.tokens, st.word))
      [] st.mode = "quoted" /\ c = DoubleQuote -> Between(Append(st.tokens, st.word))
      [] OTHER -> InWord(st, st.mode, Append(st.word, c))

\* The next character.  A word between quotes ends with the quote, whatever
\* follows; in an atom a quote and a backslash are characters like others.
Scan(st, c) ==
    CASE st.mode = "between" /\ c = Space -> st
      [] st.mode = "between" /\ c = DoubleQuote -> InWord(st, "quoted", <<>>)
      [] st.mode = "between" /\ c \notin {Space, DoubleQuote} -> InWord(st, "atom", <<c>>)
      [] st.mode = "atom" /\ c = Space -> Between(Append(st.tokens, st.word))
      [] st.mode = "atom" /\ c # Space -> InWord(st, "atom", Append(st.word, c))
      [] st.mode = "quoted" /\ c = DoubleQuote -> Between(Append(st.tokens, st.word))
      [] st.mode = "quoted" /\ c = Backslash -> InWord(st, "escaped", st.word)
      [] st.mode = "quoted" /\ c \notin {DoubleQuote, Backslash} -> InWord(st, "quoted", Append(st.word, c))
      [] st.mode = "escaped" -> InWord(st, "quoted", Append(st.word, c))

\* At the end of the line.
Finish(st) ==
    CASE st.mode = "between" -> st.tokens
      [] st.mode = "atom" -> Append(st.tokens, st.word)
      [] st.mode \in {"quoted", "escaped"} -> ParseError

\* Where it is after each number of characters.
Reading(line) ==
    LET read[i \in 0..Len(line)] == IF i = 0 THEN Between(<<>>) ELSE Scan(read[i - 1], line[i])
    IN  read

Tokenize(line) == Finish(Reading(line)[Len(line)])

\* parse_line: the tag and the name of the command, and its arguments.
Parse(line) ==
    LET tokens == Tokenize(line)
    IN IF tokens = ParseError \/ Len(tokens) < 2 THEN ParseError
       ELSE [tag |-> tokens[1], name |-> tokens[2], args |-> SubSeq(tokens, 3, Len(tokens))]

(***************************************************************************)
(* A client.                                                               *)
(***************************************************************************)
Escaped(c) == IF c \in {DoubleQuote, Backslash} THEN <<Backslash, c>> ELSE <<c>>
Escapes(word) ==
    LET escaped[i \in 0..Len(word)] == IF i = 0 THEN <<>> ELSE escaped[i - 1] \o Escaped(word[i])
    IN  escaped
Quoted(word) == <<DoubleQuote>> \o Escapes(word)[Len(word)] \o <<DoubleQuote>>

IsAtom(word) == Len(word) > 0 /\ word[1] # DoubleQuote /\ \A i \in DOMAIN word : word[i] # Space

\* The ways to write a word.
Written(word) == {Quoted(word)} \union (IF IsAtom(word) THEN {word} ELSE {})

\* The line of a command with two arguments.
Line(tag, name, first, second) ==
    tag \o <<Space>> \o name \o <<Space>> \o first \o <<Space>> \o second
=============================================================================
