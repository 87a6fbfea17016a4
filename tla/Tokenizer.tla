----------------------------- MODULE Tokenizer ------------------------------
(***************************************************************************)
(* tokenizeStream: the text of a configuration becomes a list of tokens.   *)
(* The stream is read up to the next blank; what it gives is cut at a      *)
(* number sign, the rest of whose line is skipped, and at brackets and     *)
(* semicolons.                                                             *)
(*                                                                         *)
(* A file is a sequence of blanks, line ends, marks, number signs and      *)
(* pieces of words.  A word in one piece is that word; of one that takes   *)
(* several it only matters that it is none of those the program knows.     *)
(***************************************************************************)
EXTENDS Integers, FiniteSets, Sequences

CONSTANTS
  Files,  \* the files of this instance
  Other   \* a word in several pieces

VARIABLES
  file,  \* the configuration file
  at,    \* how far the stream is read
  text   \* the token list

LineEnd == "\n"
Blanks == {" ", LineEnd}

OPEN_BRACKET  == "{"
CLOSE_BRACKET == "}"
SEMICOLON     == ";"

Marks == {OPEN_BRACKET, CLOSE_BRACKET, SEMICOLON}

ASSUME PiecesAssumption == Other \notin Blanks \cup Marks \cup {"#"}
ASSUME FilesAssumption == Files \subseteq Seq(STRING) /\ Other \in STRING

\* identifyToken
Word(token) == token \notin Marks

Least(S) == CHOOSE p \in S : \A q \in S : p <= q

FileEnd == Len(file) + 1

\* The first of those symbols from p on.
NextOf(symbols, p) == Least({q \in p .. Len(file) : file[q] \in symbols} \cup {FileEnd})

NextOther(symbols, p) == Least({q \in p .. Len(file) : file[q] \notin symbols} \cup {FileEnd})

Spelled(pieces) == IF Len(pieces) = 1 THEN Head(pieces) ELSE Other

\* splitString: a mark is a token of its own, wherever it stands.
Split(chunk) ==
  LET split[p \in 1 .. Len(chunk) + 1] ==
        IF p > Len(chunk) THEN <<>>
        ELSE LET q == IF ~Word(chunk[p]) THEN p + 1
                      ELSE Least({r \in p .. Len(chunk) : ~Word(chunk[r])} \cup {Len(chunk) + 1})
             IN  <<Spelled(SubSeq(chunk, p, q - 1))>> \o split[q]
  IN  split[1]

AfterCommentChunk(p) == p

\* stripComments, for a chunk with a number sign that ends before p: the rest of
\* the line is skipped.
AfterComment(p) == NextOf({LineEnd}, p) + 1

\* One turn of the loop of tokenizeStream: the stream gives what is between two
\* blanks.
ReadChunk ==
  \E from \in {NextOther(Blanks, at)} \cap DOMAIN file :
    LET end  == NextOf(Blanks, from)
        sign == NextOf({"#"}, from)
    IN  /\ \E kept \in {SubSeq(file, from, (IF sign < end THEN sign ELSE end) - 1)} :
             text' = text \o Split(kept)
        /\ at' = IF sign < end THEN AfterComment(end) ELSE end
        /\ UNCHANGED file

\* The stream has nothing but blanks left.
StreamEnds == NextOther(Blanks, at) = FileEnd

InitTokens == file \in Files /\ at = 1 /\ text = <<>>

-----------------------------------------------------------------------------
\* The tokens of a file, said without reading it in turns: a comment goes from a
\* number sign to the end of its line, and what it leaves are marks and the longest
\* words between marks, blanks and comments.
InComment(k) == \E j \in 1 .. k : file[j] = "#" /\ \A i \in j .. k : file[i] # LineEnd

Spells(k) ==
  /\ k \in DOMAIN file /\ file[k] \notin Blanks \cup Marks
  /\ ~InComment(k)

Begins(k) ==
  \/ file[k] \in Marks /\ ~InComment(k)
  \/ Spells(k) /\ ~Spells(k - 1)

Tokens ==
  LET starts == {k \in DOMAIN file : Begins(k)}
      start(i) == CHOOSE k \in starts : Cardinality({j \in starts : j <= k}) = i
  IN  [i \in 1 .. Cardinality(starts) |->
         LET k == start(i)
         IN  IF Word(file[k]) /\ Spells(k + 1) THEN Other ELSE file[k]]
=============================================================================
