--------------------------- MODULE MCRequestReader ---------------------------
(***************************************************************************)
(* Instances of RequestReader for TLC: a few configurations of blocks with *)
(* nested locations, and every request put together from a few parts.      *)
(***************************************************************************)
EXTENDS RequestReader

Verbs == {"GET", "POST", "DELETE"}
Python == {"up.py"}
Value(n) == CASE n = "0" -> 0 [] n = "1" -> 1 [] n = "2" -> 2 [] n = "3" -> 3
Digits == [n \in {"0", "1", "2", "3"} |-> Value(n)]
Digit(k) == CHOOSE n \in DOMAIN Digits : Digits[n] = k

\* A location: its path, and what it says; the rest is unset.
Unset == [path |-> Empty, alias |-> Empty, index |-> Empty, methods |-> {}, cgi |-> FALSE,
          redirect |-> Empty, autoindex |-> FALSE]

Top    == [Unset EXCEPT !.path = <<"/">>, !.methods = {"GET"}, !.index = <<"i">>]
Files  == [Unset EXCEPT !.path = <<"/", "a", "/">>, !.methods = Verbs, !.autoindex = TRUE]
Deep   == [Unset EXCEPT !.path = <<"/", "a", "/", "b", "/">>, !.methods = {"GET", "DELETE"},
                        !.alias = <<"/", "d", "/">>]
Python3 == [Unset EXCEPT !.path = <<"/", "c", "/">>, !.methods = Verbs, !.cgi = TRUE]
Moved  == [Unset EXCEPT !.path = <<"/", "c", "/">>, !.methods = {"GET"}, !.redirect = <<"n">>]

Block(at, names, root, max, places) ==
  [listen |-> at, names |-> names, root |-> <<"/", root>>, limit |-> max, places |-> places]

One    == Block(1, {<<"h1">>}, "r1", 2, <<Deep, Top, Files, Python3>>)
Other  == Block(1, {<<"h1">>, <<"h2">>}, "r2", 1, <<Top, Moved, Python3, Files, Deep>>)
Second == Block(2, {<<"h1">>}, "r3", 2, <<Files, Deep, Python3>>)
Third  == Block(2, {<<"h2">>}, "r4", NoLimit, <<Top>>)

\* Addresses come up in their own order.
Grouped == {<<One, Other>>, <<One, Second, Other, Third>>}

\* They do not.
Mixed == {<<Second, One, Other>>}

Targets ==
  {<<"/">>, <<"/", "a">>, <<"/", "a", "/">>, <<"/", "a", "/", "x">>,
   <<"/", "a", "/", "b", "/">>, <<"/", "a", "/", "b", "/", "x", "?", "x">>,
   <<"/", "c", "/", "up.py">>, <<"/", "c", "/", "up.py", "?", "x">>,
   <<"/", "c", "/", "up.py", "/", "x">>, <<"/", "c", "/", "x">>}

Hosts == {<<"h1">>, <<"h2", ":", "1">>, <<"h3">>}
Bodies == {<<"x">>, <<"x", "y">>, <<"CR", "LF", "x">>}

Host(value) == <<"Host", value>>
LengthOf(body) == <<"Content-Length", <<Digit(Len(body))>>>>

Request(method, target, headers, body) ==
  [method |-> method, target |-> target, headers |-> headers, body |-> body]

\* Requests with no body, some with a header given twice; requests with one.
Plain ==
  {Request(m, t, <<Host(h)>>, Empty) : m \in Verbs \cup {"PUT"}, t \in Targets, h \in Hosts}
    \cup {Request("GET", t, <<Host(<<"h2">>), LengthOf(Empty), Host(<<"h1">>)>>, Empty) :
            t \in Targets}

WithBody ==
  {Request("POST", t, <<Host(h), LengthOf(b)>>, b) : t \in Targets, h \in Hosts, b \in Bodies}
    \cup {Request(m, t, <<LengthOf(b), Host(<<"h1">>), LengthOf(Empty)>>, b) :
            m \in Verbs, t \in Targets, b \in Bodies}

Wellformed == Plain \cup WithBody

\* The tests send the length of a body so.
Spelled ==
  {Request("POST", t, <<Host(<<"h1">>), <<"Content-length", <<Digit(Len(b))>>>>>>, b) :
     t \in Targets, b \in Bodies}

Line(words) == words \o CRLF
First == Line(<<"POST", " ", "/", "a", "/", "x", " ", "HTTP">>)

\* No Host; a length that is no number; a header with no value; a first line
\* with no spaces; more than was announced; no end.
Odd ==
  {First \o Line(<<"Content-Length", ":", " ", "2">>) \o CRLF \o <<"x", "y">>,
   First \o Line(<<"Host", ":", " ", "h1">>) \o Line(<<"Content-Length", ":", " ", "x">>) \o CRLF,
   First \o Line(<<"Host", ":">>) \o CRLF,
   First \o Line(<<"Host">>) \o CRLF,
   CRLF \o CRLF, Line(<<"GET">>) \o CRLF,
   Line(<<"GET", " ", "/">>) \o CRLF, CRLF \o <<"GET", " ", "/">> \o CRLF \o CRLF,
   First \o Line(<<"Host", ":", " ", "h1">>) \o Line(<<"Content-Length", ":", " ", "1">>)
     \o CRLF \o <<"x", "y", "z">>,
   First \o Line(<<"Host", ":", " ", "h1">>)}

None == {}
=============================================================================
