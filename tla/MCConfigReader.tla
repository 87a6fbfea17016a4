--------------------------- MODULE MCConfigReader ---------------------------
(***************************************************************************)
(* Instances of ConfigReader for TLC: every server block put together from *)
(* a few lines and locations, two blocks in a row, and every text that one *)
(* edit makes of some of these, all written without needless blanks; one   *)
(* of them with a blank, a line end or a comment anywhere; and every short *)
(* file of a few symbols.                                                  *)
(***************************************************************************)
EXTENDS ConfigReader, SequencesExt

Words == Marks \cup {"server", "location", "/d/", "listen", "root", "index", "cgi", "x", "bad"}

PathWords == {"/d/"}
ServerWords == {"listen", "root"}
LocationWords == {"index", "cgi"}
RefusedPairs == {<<"listen", "bad">>, <<"cgi", "bad">>}

Location(lines) == <<"location", "/d/", "{">> \o lines \o <<"}">>

Items ==
  {<<"listen", "x", ";">>, <<"listen", "bad", ";">>, <<"root", "x", "bad", ";">>,
   <<"x", "listen", ";">>,
   Location(<<"index", "x", ";">>),
   Location(<<"cgi", "x", ";", "index", "bad", ";">>),
   Location(<<"cgi", "bad", ";">>),
   Location(<<"x", "index", ";">>),
   Location(<<"x", "x", ";", "index", "x", ";">>)}

Block(items) == <<"server", "{">> \o FlattenSeq(items) \o <<"}">>

Blocks == {Block(<<a, b, c>>) : a, b, c \in Items}

Plain == Block(<<<<"listen", "x", ";">>, <<"root", "x", "bad", ";">>,
                 Location(<<"index", "x", ";">>)>>)

Mixed == Block(<<<<"listen", "x", ";">>, Location(<<"x", "index", ";">>),
                 <<"root", "x", ";">>>>)

\* One token dropped, doubled, or put in place of another; a text cut short.
Edits(t) ==
  {RemoveAt(t, k) : k \in DOMAIN t}
    \cup {ReplaceAt(t, k, w) : k \in DOMAIN t, w \in Words}
    \cup {InsertAt(t, k, w) : k \in DOMAIN t, w \in Marks}
    \cup {SubSeq(t, 1, k) : k \in DOMAIN t}

AllTexts ==
  Blocks \cup {Plain \o b : b \in Blocks} \cup {Mixed \o Plain}
    \cup Edits(Plain) \cup Edits(Plain \o Mixed)

\* A blank between two words, and nothing anywhere else.
Written(t) ==
  FlattenSeq([k \in DOMAIN t |-> IF k > 1 /\ Word(t[k]) /\ Word(t[k - 1])
                                THEN <<" ", t[k]>> ELSE <<t[k]>>])

Insertions ==
  {<<" ">>, <<LineEnd>>, <<"#">>, <<"#", LineEnd>>, <<"#", " ", "}", LineEnd>>,
   <<" ", "#", "#", "x", LineEnd, LineEnd>>, <<";", "#", "x", " ", LineEnd>>}

Layouts(f) ==
  {SubSeq(f, 1, k) \o i \o SubSeq(f, k + 1, Len(f)) : k \in 0 .. Len(f), i \in Insertions}

ShortFiles == SeqOf({" ", LineEnd, "#", ";", "server"}, 4)

AllFiles == {Written(t) : t \in AllTexts} \cup Layouts(Written(Plain)) \cup ShortFiles

\* Files whose locations may have a key LocationSettings does not know.
UnknownFiles == {Written(t) : t \in Blocks}
=============================================================================
