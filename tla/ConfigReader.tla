---------------------------- MODULE ConfigReader ----------------------------
(***************************************************************************)
(* How a configuration becomes server settings: once it is split into      *)
(* tokens, ConfigParser::syntax walks the token list and accepts or        *)
(* rejects it; then the constructors of ServerSettings and                 *)
(* LocationSettings walk the same list, with loops that check nothing the  *)
(* first walk has checked.                                                 *)
(*                                                                         *)
(* Reading a token past the last one is undefined in the program: it ends  *)
(* the model in the phase "overrun".                                       *)
(***************************************************************************)
EXTENDS Tokenizer

CONSTANTS
  Paths,        \* the words that begin and end with a slash
  ServerKeys,   \* the keys ServerSettings has a setter for
  LocationKeys, \* the keys LocationSettings has a setter for
  Refused       \* pairs <<key, word>>: the setter of key throws on word

VARIABLES
  phase,   \* the loop that is running, or how reading ended
  it,      \* the iterator; Len(text) + 1 is end()
  close,   \* the closing_token of the server block and of the location block
  block,   \* where the ServerSettings under construction begins
  owner,   \* the path token of the LocationSettings under construction
  places,  \* the path tokens of the locations the block has so far
  applied  \* the settings made: whose, by which key, to which value

source == <<file, at, text>>
vars == <<source, phase, it, close, block, owner, places, applied>>

ASSUME WordsAssumption ==
  /\ (Paths \cup ServerKeys \cup LocationKeys) \cap Marks = {}
  /\ "location" \notin ServerKeys

Ended == {"rejected", "invalid", "overrun", "read"}

-----------------------------------------------------------------------------
Within(p) == p \in DOMAIN text

Greatest(S) == CHOOSE p \in S : \A q \in S : p >= q

\* How many of that mark stand from p to q.
Count(mark, p, q) == Cardinality({k \in p .. q : text[k] = mark})

PastEnd == Len(text) + 1
Throws  == 0

\* Where the bracket that opens the block named at p should be.
Opening(p) == p + (IF text[p] = "location" THEN 2 ELSE 1)

\* findBlockEnd, whose loop moves on before it looks: the token right after the
\* opening bracket is never looked at, and the one past the last may be.
FindBlockEnd(p) ==
  LET from   == Opening(p) + 2
      closed == {q \in from .. Len(text) :
                   Count(CLOSE_BRACKET, from, q) > Count(OPEN_BRACKET, from, q)}
      opened == text[Opening(p)] = OPEN_BRACKET /\ Opening(p) # Len(text)
  IN  CASE ~Within(Opening(p))           -> PastEnd
        [] Within(Opening(p)) /\ ~opened -> Throws
        [] Within(Opening(p)) /\ opened  -> IF closed = {} THEN PastEnd ELSE Least(closed)

\* syntaxRequestTarget
IsPath(token) == token \in Paths

EnoughWordsOne(n) == n >= 1

\* A line is a key and at least one value.
EnoughWords(n) == n > 1

\* Where the words from p on end.  Inside a block its closing bracket is ahead.
WordsEnd(p) == Least({q \in p .. Len(text) : ~Word(text[q])})

-----------------------------------------------------------------------------
End(how) ==
  /\ phase' = how
  /\ UNCHANGED <<source, it, close, block, owner, places, applied>>

GoTo(loop, p) ==
  /\ phase' = loop /\ it' = p
  /\ UNCHANGED <<source, block, owner, places, applied>>

\* The block of that kind at the iterator is searched for its end and entered.
EnterSyntax(kind, loop, first) ==
  LET end == FindBlockEnd(it)
  IN  \/ end = PastEnd /\ End("overrun")
      \/ end = Throws /\ End("rejected")
      \/ /\ end \notin {PastEnd, Throws}
         /\ kind = "location" /\ ~IsPath(text[it + 1])
         /\ End("rejected")
      \/ /\ end \notin {PastEnd, Throws}
         /\ kind = "location" => IsPath(text[it + 1])
         /\ close' = [close EXCEPT ![kind] = end]
         /\ GoTo(loop, first)

\* tokenizeStream: a turn of its loop, or its end.
Tokenize ==
  /\ phase = "tokens"
  /\ \/ ReadChunk /\ UNCHANGED <<phase, it, close, block, owner, places, applied>>
     \/ StreamEnds /\ GoTo("syntax", 1) /\ close' = close

\* One turn of the loop of syntax().
CheckText ==
  /\ phase = "syntax"
  /\ \/ it = PastEnd /\ GoTo("settings", 1) /\ close' = close
     \/ it # PastEnd /\ text[it] # "server" /\ End("rejected")
     \/ it # PastEnd /\ text[it] = "server" /\ EnterSyntax("server", "syntaxServerBlock", it + 2)

\* syntaxLine, and the step to the next token.
CheckLine ==
  LET end == WordsEnd(it)
      ok  == EnoughWords(end - it) /\ text[end] = SEMICOLON
  IN  \/ ~ok /\ End("rejected")
      \/ ok /\ GoTo(phase, end + 1) /\ close' = close

\* One turn of the loop of syntaxServerBlock.
CheckServerBlock ==
  /\ phase = "syntaxServerBlock"
  /\ \/ it = close["server"] /\ GoTo("syntax", it + 1) /\ close' = close
     \/ /\ it # close["server"] /\ text[it] = "location"
        /\ EnterSyntax("location", "syntaxLocationBlock", it + 3)
     \/ it # close["server"] /\ text[it] # "location" /\ CheckLine

\* One turn of the loop of syntaxLocationBlock.
CheckLocationBlock ==
  /\ phase = "syntaxLocationBlock"
  /\ \/ it = close["location"] /\ GoTo("syntaxServerBlock", it + 1) /\ close' = close
     \/ it # close["location"] /\ CheckLine

-----------------------------------------------------------------------------
Semicolon(p) == Least({q \in p .. Len(text) : text[q] = SEMICOLON})

ValuesFirst(p) == {p + 1} \cap {q \in p .. Len(text) : q < Semicolon(p)}

\* The value tokens of the key at p: up to the next semicolon, whatever they are.
Values(p) == p + 1 .. Semicolon(p) - 1

\* The setter of that key throws on that value.
Refuses(k, v) == <<text[k], text[v]>> \in Refused

\* The setters of the key at the iterator are called with its values in turn, on
\* behalf of who.
Apply(who) ==
  LET values == Values(it)
  IN  \/ /\ \E v \in values : Refuses(it, v)
         /\ End("invalid")
      \/ /\ \A v \in values : ~Refuses(it, v)
         /\ applied' = applied \cup [owner : {who}, key : {it}, value : values]
         /\ it' = Semicolon(it) + 1
         /\ UNCHANGED <<source, phase, close, block, owner, places>>

Set(who, key) == \E a \in applied : a.owner = who /\ text[a.key] = key

\* ServerSettings::validateBlock
ValidBlock == Set(block, "listen") /\ Set(block, "root") /\ places # {}

\* ParseConfig constructs the next ServerSettings, or is done.
ReadText ==
  /\ phase = "settings"
  /\ \/ it = PastEnd /\ End("read")
     \/ /\ it # PastEnd
        /\ phase' = "ServerSettings" /\ it' = it + 2
        /\ block' = it /\ places' = {}
        /\ UNCHANGED <<source, close, owner, applied>>

\* One turn of the loop of ServerSettings::ServerSettings.
ReadServerBlock ==
  /\ phase = "ServerSettings"
  /\ \/ ~Within(it) /\ End("overrun")
     \/ Within(it) /\ text[it] = CLOSE_BRACKET /\ ~ValidBlock /\ End("invalid")
     \/ /\ Within(it) /\ text[it] = CLOSE_BRACKET /\ ValidBlock
        /\ GoTo("settings", it + 1) /\ close' = close
     \/ /\ Within(it) /\ text[it] = "location"
        /\ phase' = "LocationSettings" /\ it' = it + 3
        /\ owner' = it + 1
        /\ UNCHANGED <<source, close, block, places, applied>>
     \/ Within(it) /\ text[it] \in ServerKeys /\ Apply(block)
     \/ /\ Within(it) /\ text[it] \notin ServerKeys \cup {CLOSE_BRACKET, "location"}
        /\ GoTo(phase, Semicolon(it) + 1) /\ close' = close

AfterUnknownStuck(p) == p

\* An unknown key of a location leaves the inner loop before its first value is
\* passed; the outer loop then passes one token more.
AfterUnknown(p) == p + 2

\* One turn of the loop of LocationSettings::LocationSettings.  The last token of
\* an accepted text is a bracket, so one that is none has a successor.
ReadLocationBlock ==
  /\ phase = "LocationSettings"
  /\ \/ ~Within(it) /\ End("overrun")
     \/ /\ Within(it) /\ text[it] = CLOSE_BRACKET
        /\ phase' = "ServerSettings" /\ it' = it + 1
        /\ places' = places \cup {owner}
        /\ UNCHANGED <<source, close, block, owner, applied>>
     \/ Within(it) /\ text[it] \in LocationKeys /\ Apply(owner)
     \/ /\ Within(it) /\ text[it] \notin LocationKeys \cup {CLOSE_BRACKET}
        /\ GoTo(phase, AfterUnknown(it)) /\ close' = close

-----------------------------------------------------------------------------
Init ==
  /\ InitTokens
  /\ phase = "tokens" /\ it = 1
  /\ close = [server |-> Throws, location |-> Throws]
  /\ block = 0 /\ owner = 0 /\ places = {} /\ applied = {}

Next ==
  \/ Tokenize \/ CheckText \/ CheckServerBlock \/ CheckLocationBlock
  \/ ReadText \/ ReadServerBlock \/ ReadLocationBlock

Spec == Init /\ [][Next]_vars

\* The program reads its configuration before anything else and never waits.
FairSpec == Spec /\ WF_vars(Next)

-----------------------------------------------------------------------------
\* The language, said without walking: depth of a token, the line it is in.
Depth(k) == Count(OPEN_BRACKET, 1, k - 1) - Count(CLOSE_BRACKET, 1, k - 1)

LineStart(k) == 1 + Greatest({0} \cup {j \in 1 .. k - 1 : ~Word(text[j])})

\* A bracket opens a server block outside all others, or a location with a path
\* inside a server block; it closes what a complete line or a location precedes;
\* a semicolon ends a line of a block that has a key and a value.
MayOpen(k) ==
  \/ Depth(k) = 0 /\ LineStart(k) = k - 1 /\ text[k - 1] = "server"
  \/ Depth(k) = 1 /\ LineStart(k) = k - 2 /\ text[k - 2] = "location" /\ IsPath(text[k - 1])

MayClose(k) ==
  \/ Depth(k) = 1 /\ text[k - 1] \in {SEMICOLON, CLOSE_BRACKET}
  \/ Depth(k) = 2 /\ text[k - 1] = SEMICOLON

MayEnd(k) ==
  /\ Depth(k) \in {1, 2} /\ LineStart(k) <= k - 2
  /\ Depth(k) = 1 => text[LineStart(k)] # "location"

WellPlaced(k) ==
  /\ text[k] = OPEN_BRACKET  => MayOpen(k)
  /\ text[k] = CLOSE_BRACKET => MayClose(k)
  /\ text[k] = SEMICOLON     => MayEnd(k)
  /\ Word(text[k])           => k < Len(text) /\ text[k + 1] # CLOSE_BRACKET

\* The language the check is to decide.  It is not the one README.md gives in
\* "Grammer" (lines 100-129).  There a path is any WORD; here it begins and ends
\* with a slash, as syntaxRequestTarget has it.  There a server block has settings
\* and after them locations, at least one of each, a text at least one block, and
\* a block may be one of the identifier global; here lines and locations come in any
\* order, a server block may have only the ones or only the others (validateBlock asks
\* for a location, listen and root later: Sound), an empty text is accepted, no line
\* of a server block has the key location, and there is no global.
WellFormed ==
  /\ \A k \in DOMAIN text : WellPlaced(k)
  /\ Depth(PastEnd) = 0

\* The settings a well-formed text makes.
ValueIn(k) ==
  /\ Word(text[k]) /\ LineStart(k) < k
  /\ text[WordsEnd(k)] = SEMICOLON
  /\ text[LineStart(k)] \in (IF Depth(k) = 1 THEN ServerKeys ELSE LocationKeys)

OwnerOf(k) ==
  Greatest({j \in 1 .. k - 1 : text[j] = OPEN_BRACKET /\ Depth(j) = Depth(k) - 1}) - 1

Meaning ==
  {[owner |-> OwnerOf(k), key |-> LineStart(k), value |-> k] :
     k \in {j \in DOMAIN text : ValueIn(j)}}

\* Every key of a location is one LocationSettings knows.
KnownKeys ==
  \A k \in DOMAIN text :
    Depth(k) = 2 /\ Word(text[k]) /\ LineStart(k) = k => text[k] \in LocationKeys

Sound ==
  /\ \A a \in Meaning : ~Refuses(a.key, a.value)
  /\ \A s \in {j \in DOMAIN text : text[j] = "server" /\ Depth(j) = 0} :
       /\ \E a \in Meaning : a.owner = s /\ text[a.key] = "listen"
       /\ \E a \in Meaning : a.owner = s /\ text[a.key] = "root"
       /\ \E j \in DOMAIN text : text[j] = OPEN_BRACKET /\ Depth(j) = 1 /\ OwnerOf(j) = s

\* What the syntax check is given are the tokens of the file: no comment reaches it,
\* and nothing of a line before or after one is lost, wherever blanks and line ends
\* are and whatever touches what.
TokensRight == phase = "syntax" => text = Tokens

\* The syntax check decides that language: it rejects or runs past the end of
\* nothing well-formed, and lets nothing else through to the constructors.
SyntaxDecides ==
  /\ phase = "rejected" \/ (phase = "overrun" /\ block = 0) => ~WellFormed
  /\ phase \in {"settings", "ServerSettings", "LocationSettings", "invalid", "read"}
       => WellFormed

\* The constructors follow the text the check accepted, as long as locations
\* have known keys only: a sound text is read, with exactly its settings, each
\* made to the block it stands in, and any other is refused.
SettingsFollow ==
  phase \in Ended /\ WellFormed /\ KnownKeys =>
    /\ phase # "overrun"
    /\ phase = "invalid" => ~Sound
    /\ phase = "read" => Sound /\ applied = Meaning

\* Whatever the keys, what was read has exactly the settings it states.
EverySettingKept == phase = "read" => applied = Meaning

\* Reading ends, well or badly.
ReadingEnds == <>(phase \in Ended)
=============================================================================
