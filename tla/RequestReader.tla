---------------------------- MODULE RequestReader ----------------------------
(***************************************************************************)
(* How one connection's bytes become a request and the request an answer:  *)
(* HTTPRequest::receive with its parsers, the Receiving branch of          *)
(* Client::handleConnection with resolveServerSetting, and the Loading     *)
(* branch up to the file or script that is named.                          *)
(*                                                                         *)
(* What a peer sends is a sequence of symbols: CR, LF, space, colon, slash *)
(* and words.  A read returns any next piece of it, wherever that cuts.    *)
(***************************************************************************)
EXTENDS Routing

CONSTANTS
  Configs,     \* the configurations: sequences of blocks
  Asked,       \* the requests peers may mean
  Malformed,   \* what peers may send that is no request
  BufferSize,  \* symbols one read returns, at most
  Methods,     \* the methods the server knows
  Number       \* the words that are numbers, and their values

ASSUME BufferAssumption == BufferSize \in Nat \ {0}

\* stoi's result is kept as a size_t.
ASSUME NumberAssumption == \A n \in DOMAIN Number : Number[n] \in Nat

ASSUME ConfigsAssumption == \A blocks \in Configs : blocks \in Seq(Blocks) /\ blocks # Empty

ASSUME MalformedAssumption == \A symbols \in Malformed : symbols \in Seq(STRING)

VARIABLES
  config,   \* the blocks of the configuration file
  listen,   \* the address the connection came in on
  asked,    \* <<the request the peer means>>, or empty if it means none
  text,     \* what it sends
  read,     \* how much of it has been read
  http,     \* _http_request
  req,      \* what has been understood: method, target, headers, body, length
  ended,    \* _header_end
  setting,  \* _serversetting, of the client and of its FileManager
  limit,    \* _max_body_size
  cgi,      \* _cgi
  state,    \* _state
  mask,     \* the state last returned, which decides what is waited for
  outcome   \* what the request came to; how = "none" as long as it is open

connection == <<config, listen, asked, text>>
vars == <<connection, read, http, req, ended, setting, limit, cgi, state, mask, outcome>>

-----------------------------------------------------------------------------
\* std::string::find: the first place from p on where that pattern stands, or 0.
\* As positions count from 1 here, NPos + 1 is the first one, as npos + 1 is.
NPos == 0

Find(s, pattern, p) ==
  LET hits == {q \in p .. Len(s) - Len(pattern) + 1 :
                 SubSeq(s, q, q + Len(pattern) - 1) = pattern}
  IN  IF hits = {} THEN NPos ELSE Min(hits)

\* What stands from p up to q, or to the end if q is NPos.
Upto(s, p, q) == SubSeq(s, p, IF q = NPos THEN Len(s) ELSE q - 1)

CRLF == <<"CR", "LF">>

EndsInEmptyLine(s) == IsSuffix(CRLF \o CRLF, s)

\* The header has come in once an empty line has.
HeaderIsIn(s) == Find(s, CRLF \o CRLF, 1) # NPos

\* parseStartLine: up to a space, up to a space, up to a line end.
StartLine(s) ==
  LET p == Find(s, <<" ">>, 1)
      q == Find(s, <<" ">>, p + 1)
      r == Find(s, CRLF, q + 1)
  IN  [method |-> Upto(s, 1, p), target |-> Upto(s, p + 1, q),
       version |-> Upto(s, q + 1, r), next |-> r + 2]

\* The line at p of the text s, split at its colon; the character after the colon
\* is passed over.  Without one to pass over, substr throws.
Header(s, p) ==
  LET end   == Find(s, CRLF, p)
      line  == Upto(s, p, end)
      colon == Find(line, <<":">>, 1)
  IN  [key |-> Upto(line, 1, colon), value |-> SubSeq(line, colon + 2, Len(line)),
       throws |-> colon + 1 > Len(line), next |-> end + 2]

\* The headers are over at p if an empty line ends there.  A position before the
\* third one (after a line that never ends) makes substr throw.
OverAt(s, p) == p > 2 /\ p < Len(s) /\ SubSeq(s, p - 2, p + 1) = CRLF \o CRLF

\* The loop of receive(): the header lines from p on, and where they are over;
\* 0 if an exception nobody catches ends it.
HeaderLines(s, p) ==
  LET from[q \in 1 .. Len(s) + 2] ==
        LET line == Header(s, q)
        IN  IF OverAt(s, q) THEN [lines |-> Empty, over |-> q]
            ELSE IF q <= 2 \/ line.throws THEN [lines |-> Empty, over |-> 0]
            ELSE [lines |-> <<line>> \o from[line.next].lines, over |-> from[line.next].over]
  IN  from[p]

LastValue(lines, key) == lines[Max({k \in DOMAIN lines : lines[k].key = key})].value

\* The header of that key that counts is the first (unordered_map::emplace).
Has(lines, key) == \E k \in DOMAIN lines : lines[k].key = key

ValueOf(lines, key) == lines[Min({k \in DOMAIN lines : lines[k].key = key})].value

\* std::stoi skips spaces and reads a number, or throws.
FirstWord(value) == value[Min({k \in DOMAIN value : value[k] # " "})]

IsNumber(value) == (\E k \in DOMAIN value : value[k] # " ") /\ FirstWord(value) \in DOMAIN Number

StoiShort(value) == Number[FirstWord(value)] - 1

Stoi(value) == Number[FirstWord(value)]

\* The body is complete.
Enough(body, length) == Len(body) >= length

TooLarge(body, max) == Len(body) > max

-----------------------------------------------------------------------------
Still == [how |-> "none", path |-> Empty]

\* The connection is done for: an error page, or the end of the process.
Ends(how) == outcome' = Outcome(how, Empty) /\ UNCHANGED <<state, mask>>

\* catch (ClientException &): a request known to be for a script ends the process.
Refused(code, isCgi, method) ==
  Ends(IF isCgi /\ method # <<"DELETE">> THEN "killed" ELSE code)

\* handleConnection returns ret and leaves s in _state.
Returns(s, ret) == state' = s /\ mask' = ret /\ UNCHANGED outcome

HostOf(lines) ==
  LET value == ValueOf(lines, <<"Host">>)
  IN  Upto(value, 1, Find(value, <<":">>, 1))

Group == CHOOSE group \in Range(SortServerSettings(config)) : Head(group).listen = listen

\* The rest of the Receiving branch, once the header is in: r is what receive()
\* understood, s what it returned.  Without a Host nothing is resolved, and the
\* limit stays 0; with a block that sets no limit, stoull throws.
Resolved(r, s) ==
  LET hosted == Has(r.headers, <<"Host">>)
      block  == IF hosted THEN ResolveServerSetting(Group, HostOf(r.headers)) ELSE Head(Group)
      max    == IF hosted THEN block.limit ELSE 0
      found  == ResolveLocation(block.places, r.target)
      place  == Head(found)
  IN  /\ ended' = ~hosted
      /\ setting' = [client |-> block, files |-> IF hosted THEN block ELSE NoBlock]
      /\ limit' = max
      /\ \/ /\ max = NoLimit \/ found = Empty
            /\ Ends("aborted")
            /\ UNCHANGED cgi
         \/ /\ max # NoLimit /\ found # Empty /\ ~ResolveMethod(place, r.method[1])
            /\ Refused("405", cgi, r.method)
            /\ UNCHANGED cgi
         \/ /\ max # NoLimit /\ found # Empty /\ ResolveMethod(place, r.method[1])
            /\ cgi' = (cgi \/ place.cgi)
            /\ \/ TooLarge(r.body, max) /\ Refused("413", cgi', r.method)
               \/ /\ ~TooLarge(r.body, max)
                  /\ Returns(s, IF Enough(r.body, r.length) THEN "Loading" ELSE s)

\* setRequestVariables, for the headers of the text s, over at p.
Understood(s, start, lines, p) ==
  LET sized  == Has(lines, <<"Content-Length">>)
      size   == ValueOf(lines, <<"Content-Length">>)
      length == IF sized THEN Stoi(size) ELSE 0
      body   == IF length = 0 THEN Empty ELSE SubSeq(s, p + 2, Len(s))
      r      == [method |-> start.method, target |-> start.target,
                 headers |-> lines, body |-> body, length |-> length]
  IN  IF sized /\ ~IsNumber(size)
      THEN Ends("aborted") /\ UNCHANGED <<req, ended, setting, limit, cgi>>
      ELSE /\ req' = r
           /\ Resolved(r, IF Len(body) = length THEN "Loading" ELSE "Receiving")

\* A read that belongs to the header: it is kept, and parsed once it is all in.
ReadHeader(piece) ==
  LET got == http \o piece
      start == StartLine(got)
      known == start.method \in {<<m>> : m \in Methods}
      head  == HeaderLines(got, start.next)
  IN  /\ req.length = 0
      /\ http' = got
      /\ \/ /\ ~HeaderIsIn(got)
            /\ Returns("Receiving", "Receiving")
            /\ UNCHANGED <<req, ended, setting, limit, cgi>>
         \/ /\ HeaderIsIn(got) /\ ~known
            /\ Refused("501", FALSE, start.method)
            /\ UNCHANGED <<req, ended, setting, limit, cgi>>
         \/ /\ HeaderIsIn(got) /\ known /\ head.over = 0
            /\ Ends("aborted")
            /\ UNCHANGED <<req, ended, setting, limit, cgi>>
         \/ /\ HeaderIsIn(got) /\ known /\ head.over # 0
            /\ Understood(got, start, head.lines, head.over)

\* A read that belongs to the body.  (If the Host is missing, the limit is 0 and
\* the first such read is too large.)
ReadBody(piece) ==
  LET body == req.body \o piece
      s    == IF Enough(body, req.length) THEN "Loading" ELSE "Receiving"
  IN  /\ req.length # 0
      /\ req' = [req EXCEPT !.body = body]
      /\ \/ TooLarge(body, limit) /\ Refused("413", cgi, req.method)
         \/ ~TooLarge(body, limit) /\ Returns(s, s)
      /\ UNCHANGED <<http, ended, setting, limit, cgi>>

\* HTTPRequest::receive, with what handleConnection does after it.
Receive ==
  /\ outcome = Still /\ mask = "Receiving" /\ state = "Receiving"
  /\ \E n \in 1 .. BufferSize :
       /\ read + n <= Len(text)
       /\ read' = read + n
       /\ LET piece == SubSeq(text, read + 1, read + n)
          IN  ReadHeader(piece) \/ ReadBody(piece)
  /\ UNCHANGED connection

\* Room to write is waited for, but the state is still Receiving.
BadRequest ==
  /\ outcome = Still /\ mask = "Loading" /\ state = "Receiving"
  /\ Refused("400", cgi, req.method)
  /\ UNCHANGED <<connection, read, http, req, ended, setting, limit, cgi>>

\* The Loading branch: the script, or the file, the request comes to.
Load ==
  /\ outcome = Still /\ mask = "Loading" /\ state = "Loading"
  /\ outcome' =
       IF cgi /\ req.method # <<"DELETE">>
       THEN ParseURIForCGI(ResolveAlias(Head(ResolveLocation(setting.client.places, req.target)),
                                        req.target))
       ELSE ResolveRequestTarget(setting.files, req.target)
  /\ UNCHANGED <<connection, read, http, req, ended, setting, limit, cgi, state, mask>>

-----------------------------------------------------------------------------
\* What peers mean: words of a line hold no line end, and a length is the body's.
InLine == STRING \ {"CR", "LF"}

KeysAsked(a) == {a.headers[k][1] : k \in DOMAIN a.headers}

\* The value a request gives a key: the one it gives first.
ValueAsked(a, key) == a.headers[Min({k \in DOMAIN a.headers : a.headers[k][1] = key})][2]

ASSUME AskedAssumption ==
  \A a \in Asked :
    /\ a.method \in InLine \ {" "} /\ a.target \in Seq(InLine \ {" "}) \ {Empty}
    /\ a.headers \in Seq((InLine \ {":"}) \X Seq(InLine)) /\ a.body \in Seq(STRING)
    /\ "Content-Length" \in KeysAsked(a) =>
         LET size == ValueAsked(a, "Content-Length")
         IN  IsNumber(size) /\ Number[FirstWord(size)] = Len(a.body)
    /\ "Host" \in KeysAsked(a)
    /\ LET host == ValueAsked(a, "Host")
       IN  host # Empty /\ host[1] # ":" /\ (Len(host) > 1 => host[2] = ":")

\* A request as it is sent: the line, the headers, an empty line, the body.
HeaderSent(header) == <<header[1], ":", " ">> \o header[2] \o CRLF

HeadersSent(headers) == FoldLeft(LAMBDA sent, header : sent \o HeaderSent(header), Empty, headers)

Rendered(a) ==
  <<a.method, " ">> \o a.target \o <<" ", "HTTP">> \o CRLF
    \o HeadersSent(a.headers) \o CRLF \o a.body

Init ==
  /\ config \in Configs
  /\ listen \in {block.listen : block \in Range(config)}
  /\ \/ \E a \in Asked : asked = <<a>> /\ text = Rendered(a)
     \/ asked = Empty /\ text \in Malformed
  /\ read = 0 /\ http = Empty
  /\ req = [method |-> Empty, target |-> Empty, headers |-> Empty, body |-> Empty, length |-> 0]
  /\ ended = FALSE
  /\ setting = [client |-> Head(Group), files |-> NoBlock]
  /\ limit = 0 /\ cgi = FALSE
  /\ state = "Receiving" /\ mask = "Receiving"
  /\ outcome = Still

Next == Receive \/ BadRequest \/ Load

Spec == Init /\ [][Next]_vars

-----------------------------------------------------------------------------
Complete == state = "Loading" /\ mask = "Loading"

\* The state's shape; no length is negative, no more is kept than was read.
TypeOK ==
  /\ read \in 0 .. Len(text) /\ Len(http) + Len(req.body) <= 2 * read
  /\ req.length \in Nat /\ limit \in Nat \cup {NoLimit}
  /\ ended \in BOOLEAN /\ cgi \in BOOLEAN
  /\ {state, mask} \subseteq {"Receiving", "Loading"}

\* However the reads cut what is sent, the request understood is the one that
\* was meant: its method, target and headers, and, once it is complete, the whole
\* body it announced and nothing else.
RequestKept ==
  \A a \in Range(asked) :
    /\ req.method # Empty =>
         /\ req.method = <<a.method>> /\ req.target = a.target
         /\ \A key \in KeysAsked(a) :
              ValueOf(req.headers, <<key>>) = ValueAsked(a, key)
    /\ Complete /\ "Content-Length" \in KeysAsked(a) => req.body = a.body

\* The server's own words on which block a request is for: one of the address it
\* came in on, the first with its host's name, or else the first.
BlockFor(a) ==
  LET own   == {k \in DOMAIN config : config[k].listen = listen}
      named == {k \in own : <<ValueAsked(a, "Host")[1]>> \in config[k].names}
  IN  config[Min(IF named = {} THEN own ELSE named)]

\* The location of a block that has the longest path the target begins with.
Fitting(block, target) == {k \in DOMAIN block.places : IsPrefix(block.places[k].path, target)}

PlaceFor(block, target) ==
  LET length(k) == Len(block.places[k].path)
  IN  block.places[CHOOSE k \in Fitting(block, target) :
                     \A j \in Fitting(block, target) :
                       length(j) < length(k) \/ (length(j) = length(k) /\ k <= j)]

Aliased(place, target) ==
  IF place.alias = Empty THEN target
  ELSE place.alias \o SubSeq(target, Len(place.path) + 1, Len(target))

\* What the file manager makes of a target that no script answers.
FileFor(block, place, target) ==
  LET path == Tail(block.root) \o Aliased(place, target)
  IN  CASE place.redirect # Empty  -> Outcome("302", place.redirect)
        [] place.redirect = Empty /\ ~IsSuffix(<<"/">>, target) -> Outcome("file", path)
        [] place.redirect = Empty /\ IsSuffix(<<"/">>, target) /\ place.index # Empty ->
             Outcome("file", path \o place.index)
        [] OTHER -> IF place.autoindex THEN Outcome("listing", path) ELSE Outcome("401", Empty)

\* What a request must come to, read off the configuration.
AnswerFor(a) ==
  LET block  == BlockFor(a)
      place  == PlaceFor(block, a.target)
      script == place.cgi /\ a.method # "DELETE"
  IN  CASE a.method \notin Methods                 -> Outcome("501", Empty)
        [] a.method \in Methods /\ (block.limit = NoLimit \/ Fitting(block, a.target) = {}) ->
             Outcome("aborted", Empty)
        [] OTHER ->
             CASE a.method \notin place.methods    -> Outcome("405", Empty)
               [] a.method \in place.methods /\ Len(a.body) > block.limit ->
                    Outcome(IF script THEN "killed" ELSE "413", Empty)
               [] OTHER ->
                    IF script THEN ParseURIForCGI(Aliased(place, a.target))
                    ELSE FileFor(block, place, a.target)

\* However the reads cut a request, and whether its body comes with its header or
\* after it, its answer is the one the configuration has for it: the block, the
\* location, the limit and the path that apply.
RightAnswer == \A a \in Range(asked) : outcome # Still => outcome = AnswerFor(a)

\* A request that has been read whole is decided or about to be: no cut leaves
\* the server waiting for more than was announced.
NeverWaiting ==
  asked # Empty /\ read = Len(text) => outcome # Still \/ mask = "Loading"

\* The block a request is served by is one of the address it came in on.
OwnAddress == setting.client.listen = listen

\* The body a request brings is the body it is served with.
BodyKept == \A a \in Range(asked) : Complete => req.body = a.body
=============================================================================
