--------------------------- MODULE EventLoopStatic ---------------------------
(***************************************************************************)
(* What the peers of static requests can rely on: every connection is      *)
(* closed by the step that completes its answer and by no other, no wake-up *)
(* is lost, and the copy of the poll table the loop walks does not age.     *)
(* Each holds until a culprit (a CGI request, one of the FatalKinds, a peer *)
(* that resets) has been accepted, so always where there is none.           *)
(***************************************************************************)
EXTENDS EventLoopQuiet

\* Nobody sends anything but StaticKinds, and no peer resets.
StaticOnly == Kinds \subseteq StaticKinds /\ MayHangUp = FALSE

\* Where the client record cl of a connection stands with its peer p: nothing is
\* sent before the state Sending; there a chunk is left to send, and part of a
\* response went out only if this response has begun or its next chunk is its last;
\* the state Error is only kept while the error page is open.  A peer not accepted
\* yet has received nothing, one whose connection was closed a response to its end.
Stage(cl, p) ==
  /\ cl.fd # NoFd =>
       /\ cl.state # "Done"
       /\ cl.state # "Sending" => p.got = "nothing"
       /\ cl.state = "Error" => cl.open
       /\ cl.state = "Sending" =>
            /\ cl.left > 0
            /\ p.got = "nothing" \/ (p.got = "partial" /\ (cl.begun \/ cl.left = 1))
  /\ p.phase \in {"idle", "pending"} => p.got = "nothing"
  /\ p.phase = "closed" => p.got \in {"answer", "spliced"}

\* A mask that waits for what a client record waits for.
WaitsFor(events, cl, p) ==
  events = Mask(cl.state) \/ (p.kind = "surplus" /\ cl.state = "Receiving")

\* A client has an entry, and every entry of it waits for the right events.
Registered(c) ==
  /\ Live(c) => \E t \in DOMAIN pollfds : pollfds[t].fd = client[c].fd
  /\ \A t \in DOMAIN pollfds :
       pollfds[t].fd = client[c].fd => WaitsFor(pollfds[t].events, client[c], peer[c])

\* What was reported of an entry not visited yet is what the entry still waits
\* for; of the listener, that a connection is waiting.
StillTrue(t) ==
  /\ pollfds[t].events = todo[t].events
  /\ todo[t].fd = ListenFd =>
       todo[t].revents \subseteq {"IN"} /\ \E c \in Conns : peer[c].phase = "pending"
  /\ todo[t].fd # ListenFd => todo[t].revents \subseteq {todo[t].events}

Orderly ==
  /\ \A c \in Conns : Stage(client[c], peer[c]) /\ Registered(c)
  /\ \A t \in DOMAIN todo : StillTrue(t)

Tame == Quiet /\ Orderly

-----------------------------------------------------------------------------
(* A handler that returns. *)

\* A handler of client c returns the record next, its peer as pr and the state
\* ret: it answers to the end when it says Done, else it leaves them in order.
Fine(c, next, pr, ret) ==
  /\ next \in ClientRecords /\ next.fd = client[c].fd
  /\ pr \in PeerRecords /\ SamePeer(pr, peer[c])
  /\ ret = "Done" => pr.got \in {"answer", "spliced"}
  /\ ret # "Done" =>
       /\ Stage(next, pr) /\ WaitsFor(Mask(ret), next, pr)
       /\ pr.got \in {peer[c].got, "partial"}

Handled(t, c) ==
  \E next, pr, ret :
    /\ Fine(c, next, pr, ret)
    /\ ReturnWith(todo[t], c, "client", next, pr, ret, pollfds, activePipes, desc)

\* A step of Delivery, or one it does not see.
Delivering == [Promised!Next]_(Promised!vars)

\* Only a peer that may reset its connection does.
NoReset == \A d \in Conns : peer'[d].hung => peer[d].hung \/ MayHangUp

\* A connection answered to its end is closed and forgotten.
LEMMA DoneOrderly ==
  ASSUME Consistent, Tame, NEW t, Visiting(t), NEW c \in Conns,
         client[c].fd = todo[t].fd,
         NEW next, NEW pr, Fine(c, next, pr, "Done"),
         ReturnWith(todo[t], c, "client", next, pr, "Done", pollfds, activePipes, desc)
  PROVE  Orderly' /\ Delivering /\ NoReset
  <1> DEFINE e  == todo[t]
             cs == [client EXCEPT ![c] = next]
             ps == [peer EXCEPT ![c] = pr]
  <1>1. /\ t \in DOMAIN todo /\ e.fd \in Fds /\ e.fd # NoFd /\ e.fd # ListenFd
        /\ \A d \in Conns : client[d].fd = e.fd => d = c
        /\ \A u \in DOMAIN todo : u # t => todo[u].fd # e.fd
    BY VisitedAlone DEF Tame
  <1>2. /\ client \in [Conns -> ClientRecords] /\ peer \in [Conns -> PeerRecords]
        /\ peer[c].phase = "open"
    BY <1>1 DEF Consistent, CoreOK, Accepted
  <1>3. /\ next \in ClientRecords /\ next.fd = e.fd /\ pr \in PeerRecords
        /\ pr.phase = "open" /\ pr.hung = peer[c].hung /\ pr.got \in {"answer", "spliced"}
    BY <1>2 DEF Fine, SamePeer
  <1>4. /\ pollfds' = Without(pollfds, e.fd)
        /\ Erase(e.fd, cs, ps, desc)
    BY DEF ReturnWith, AfterClient
  <1>5. /\ cs[c] = next /\ ps[c] = pr
        /\ \A d \in Conns \ {c} : cs[d] = client[d] /\ ps[d] = peer[d]
    BY <1>2
  <1> HIDE DEF cs, ps
  <1>6. /\ client'[c] = NoClient /\ peer'[c] = [pr EXCEPT !.phase = "closed"]
        /\ \A d \in Conns \ {c} : client'[d] = client[d] /\ peer'[d] = peer[d]
    BY <1>1, <1>3, <1>4, <1>5 DEF Erase
  <1>7. peer'[c].phase = "closed" /\ peer'[c].got = pr.got /\ peer'[c].hung = pr.hung
    BY <1>3, <1>6 DEF PeerRecords
  <1>8. /\ DOMAIN pollfds' = {u \in DOMAIN pollfds : pollfds[u].fd # e.fd}
        /\ \A u \in DOMAIN pollfds' : pollfds'[u] = pollfds[u]
    BY <1>4 DEF Without
  <1>9. \A d \in Conns : Stage(client[d], peer[d])'
    <2>1. Stage(NoClient, peer'[c])
      BY <1>3, <1>7 DEF Stage, NoClient
    <2>2. \A d \in Conns \ {c} : Stage(client'[d], peer'[d])
      BY <1>6 DEF Tame, Orderly
    <2> QED BY <1>6, <2>1, <2>2
  <1>10. ASSUME NEW d \in Conns PROVE Registered(d)'
    <2>1. CASE d = c
      <3>1. \A u \in DOMAIN pollfds' : pollfds'[u].fd # NoFd
        BY <1>8, FdsAssumption DEF Consistent, CoreOK, IsTable
      <3> QED BY <1>6, <2>1, <3>1 DEF Registered, Live, NoClient
    <2>2. CASE d # c
      <3>1. Registered(d)
        BY DEF Tame, Orderly
      <3>2. client'[d] = client[d] /\ peer'[d] = peer[d] /\ client[d].fd # e.fd
        BY <1>1, <1>6, <2>2
      <3> QED BY <1>8, <3>1, <3>2 DEF Registered, Live
    <2> QED BY <2>1, <2>2
  <1>11. ASSUME NEW u \in DOMAIN todo' PROVE StillTrue(u)'
    <2>1. u \in DOMAIN todo /\ u # t /\ todo'[u] = todo[u]
      BY DEF Visiting
    <2>2. /\ StillTrue(u) /\ todo[u].fd # e.fd
          /\ u \in DOMAIN pollfds /\ pollfds[u].fd = todo[u].fd
      BY <1>1, <2>1 DEF Tame, Orderly, Quiet, Fresh
    <2>3. pollfds'[u] = pollfds[u]
      BY <1>8, <2>2
    <2>4. \A d \in Conns : peer[d].phase = "pending" => peer'[d].phase = "pending"
      BY <1>2, <1>6
    <2> QED BY <2>1, <2>2, <2>3, <2>4 DEF StillTrue
  <1>12. Delivering
    <2>1. [d \in Conns |-> peer[d].phase]'
            = [[d \in Conns |-> peer[d].phase] EXCEPT ![c] = "closed"]
      BY <1>2, <1>6, <1>7
    <2>2. [d \in Conns |-> SentOf(peer[d].got)]'
            = [[d \in Conns |-> SentOf(peer[d].got)] EXCEPT ![c] = "whole"]
      <3>1. SentOf(peer'[c].got) = "whole"
        BY <1>3, <1>7 DEF SentOf
      <3> QED BY <1>6, <3>1
    <2>3. Promised!Answer(c)
      BY <1>2, <2>1, <2>2 DEF Promised!Answer, Promised!Moves
    <2> QED BY <2>3 DEF Delivering, Promised!Next
  <1>13. NoReset
    BY <1>3, <1>6, <1>7 DEF NoReset
  <1> QED BY <1>9, <1>10, <1>11, <1>12, <1>13 DEF Orderly

\* Any other return leaves the record and the entry of its client in order.
LEMMA StaysOrderly ==
  ASSUME Consistent, Tame, NEW t, Visiting(t), NEW c \in Conns,
         client[c].fd = todo[t].fd,
         NEW next, NEW pr, NEW ret, ret # "Done", Fine(c, next, pr, ret),
         ReturnWith(todo[t], c, "client", next, pr, ret, pollfds, activePipes, desc)
  PROVE  Orderly' /\ Delivering /\ NoReset
  <1> DEFINE e  == todo[t]
             cs == [client EXCEPT ![c] = next]
             ps == [peer EXCEPT ![c] = pr]
  <1>1. /\ t \in DOMAIN todo /\ e.fd \in Fds /\ e.fd # NoFd /\ e.fd # ListenFd
        /\ \A d \in Conns : client[d].fd = e.fd => d = c
        /\ \A u \in DOMAIN todo : u # t => todo[u].fd # e.fd
    BY VisitedAlone DEF Tame
  <1>2. /\ client \in [Conns -> ClientRecords] /\ peer \in [Conns -> PeerRecords]
        /\ peer[c].phase = "open"
    BY <1>1 DEF Consistent, CoreOK, Accepted
  <1>3. /\ next.fd = e.fd /\ pr.phase = "open" /\ pr.hung = peer[c].hung
        /\ Stage(next, pr) /\ WaitsFor(Mask(ret), next, pr)
        /\ pr.got \in {peer[c].got, "partial"}
    BY <1>2 DEF Fine, SamePeer
  <1>4. /\ pollfds' = SetEvents(pollfds, e.fd, Mask(ret))
        /\ client' = cs /\ peer' = ps
    BY DEF ReturnWith, AfterClient
  <1>5. /\ client'[c] = next /\ peer'[c] = pr
        /\ \A d \in Conns \ {c} : client'[d] = client[d] /\ peer'[d] = peer[d]
    BY <1>2, <1>4
  <1>6. \A u, v \in DOMAIN pollfds : pollfds[u].fd = pollfds[v].fd => u = v
    BY DEF Tame, Quiet, OneEntryEach
  <1>7. /\ DOMAIN pollfds' = DOMAIN pollfds
        /\ \A u \in DOMAIN pollfds : /\ pollfds'[u].fd = pollfds[u].fd
                                     /\ pollfds[u].fd # e.fd => pollfds'[u] = pollfds[u]
    BY <1>4 DEF SetEvents
  <1>8. \A u \in DOMAIN pollfds : pollfds[u].fd = e.fd => pollfds'[u].events = Mask(ret)
    <2> SUFFICES ASSUME NEW u \in DOMAIN pollfds, pollfds[u].fd = e.fd
                 PROVE  pollfds'[u].events = Mask(ret)
      OBVIOUS
    <2>1. u \in Nat
      BY DEF Consistent, CoreOK, IsTable
    <2>2. \A v \in DOMAIN pollfds : pollfds[v].fd = e.fd => u <= v
      BY <1>6, <2>1
    <2> QED BY <1>4, <2>2 DEF SetEvents
  <1>9. \A d \in Conns : Stage(client[d], peer[d])'
    BY <1>3, <1>5 DEF Tame, Orderly
  <1>10. ASSUME NEW d \in Conns PROVE Registered(d)'
    <2>1. Registered(d)
      BY DEF Tame, Orderly
    <2>2. CASE d = c
      <3>1. Live(c) /\ client'[c].fd = client[c].fd
        BY <1>1, <1>3, <1>5 DEF Live
      <3> QED BY <1>3, <1>5, <1>7, <1>8, <2>1, <2>2, <3>1 DEF Registered, Live
    <2>3. CASE d # c
      <3>1. client'[d] = client[d] /\ peer'[d] = peer[d] /\ client[d].fd # e.fd
        BY <1>1, <1>5, <2>3
      <3> QED BY <1>7, <2>1, <3>1 DEF Registered, Live
    <2> QED BY <2>2, <2>3
  <1>11. ASSUME NEW u \in DOMAIN todo' PROVE StillTrue(u)'
    <2>1. u \in DOMAIN todo /\ u # t /\ todo'[u] = todo[u]
      BY DEF Visiting
    <2>2. /\ StillTrue(u) /\ todo[u].fd # e.fd
          /\ u \in DOMAIN pollfds /\ pollfds[u].fd = todo[u].fd
      BY <1>1, <2>1 DEF Tame, Orderly, Quiet, Fresh
    <2>3. pollfds'[u] = pollfds[u]
      BY <1>7, <2>2
    <2>4. \A d \in Conns : peer[d].phase = "pending" => peer'[d].phase = "pending"
      BY <1>2, <1>5
    <2> QED BY <2>1, <2>2, <2>3, <2>4 DEF StillTrue
  <1>12. Delivering
    <2>1. UNCHANGED [d \in Conns |-> peer[d].phase]
      BY <1>2, <1>3, <1>5
    <2>2. CASE pr.got = peer[c].got
      <3>1. UNCHANGED [d \in Conns |-> SentOf(peer[d].got)]
        BY <1>5, <2>2
      <3> QED BY <2>1, <3>1 DEF Delivering, Promised!vars
    <2>3. CASE pr.got = "partial"
      <3>1. [d \in Conns |-> SentOf(peer[d].got)]'
              = [[d \in Conns |-> SentOf(peer[d].got)] EXCEPT ![c] = "part"]
        <4>1. SentOf(peer'[c].got) = "part"
          BY <1>5, <2>3 DEF SentOf
        <4> QED BY <1>5, <4>1
      <3>2. Promised!Write(c)
        BY <1>2, <2>1, <3>1 DEF Promised!Write
      <3> QED BY <3>2 DEF Delivering, Promised!Next
    <2> QED BY <1>3, <2>2, <2>3
  <1>13. NoReset
    BY <1>3, <1>5 DEF NoReset
  <1> QED BY <1>9, <1>10, <1>11, <1>12, <1>13 DEF Orderly

\* A visit that moves one client by one of the static branches keeps order, and is a
\* step of Delivery or none.
LEMMA HandledOrderly ==
  ASSUME Consistent, Tame, NEW t, Visiting(t), NEW c \in Conns,
         client[c].fd = todo[t].fd, Handled(t, c)
  PROVE  Orderly' /\ Delivering /\ NoReset
  <1>1. PICK next, pr, ret :
          /\ Fine(c, next, pr, ret)
          /\ ReturnWith(todo[t], c, "client", next, pr, ret, pollfds, activePipes, desc)
    BY DEF Handled
  <1> QED BY <1>1, DoneOrderly, StaysOrderly

-----------------------------------------------------------------------------
(* The branches a static request takes. *)

\* What every branch starts from: the mask visited is the one the state asks for,
\* unless the body was longer than announced.
LEMMA OrderlyClient ==
  ASSUME Consistent, Tame, NEW t, Visiting(t), NEW c \in Conns,
         client[c].fd = todo[t].fd, ~Culprit(c)
  PROVE  /\ client[c] \in ClientRecords /\ peer[c] \in PeerRecords
         /\ client[c].fd # NoFd /\ ~client[c].cgi
         /\ client[c].state \in StaticStates \ {"Done"}
         /\ peer[c].phase = "open" /\ peer[c].kind \in StaticKinds
         /\ peer[c].kind \notin CgiKinds \cup FatalKinds /\ ~peer[c].hung
         /\ Stage(client[c], peer[c]) /\ WaitsFor(todo[t].events, client[c], peer[c])
         /\ Fresh(t)
  <1>1. /\ client[c] \in ClientRecords /\ peer[c] \in PeerRecords
        /\ ~client[c].cgi /\ client[c].state \in StaticStates
        /\ peer[c].kind \in StaticKinds /\ peer[c].kind \notin CgiKinds
        /\ peer[c].kind \notin FatalKinds /\ ~peer[c].hung
        /\ Fresh(t)
    BY QuietClient DEF Tame
  <1>2. t \in DOMAIN todo /\ client[c].fd # NoFd
    BY VisitedAlone DEF Tame
  <1>3. peer[c].phase = "open"
    BY <1>2 DEF Consistent, CoreOK, Accepted
  <1>4. Stage(client[c], peer[c]) /\ client[c].state # "Done"
    BY <1>2 DEF Tame, Orderly, Stage
  <1>5. WaitsFor(todo[t].events, client[c], peer[c])
    BY <1>1, <1>2 DEF Tame, Orderly, Registered, StillTrue, Fresh
  <1> QED BY <1>1, <1>2, <1>3, <1>4, <1>5

\* A handler that returns what it has written into the record.
LEMMA ReturnHandled ==
  ASSUME NEW t, NEW c \in Conns, NEW next, NEW pr, NEW ret,
         Fine(c, next, pr, ret), Return(todo[t], c, "client", next, pr, ret)
  PROVE  Handled(t, c)
  BY DEF Handled, Return

\* A ClientException before anything was sent: the error page or the bare status.
LEMMA FailHandled ==
  ASSUME NEW t, NEW c \in Conns,
         NEW cl \in ClientRecords, cl.fd = client[c].fd, ~cl.cgi,
         NEW pr \in PeerRecords, SamePeer(pr, peer[c]), pr.phase = "open",
         pr.got = "nothing", peer[c].got = "nothing",
         Fail(todo[t], c, "client", cl, pr)
  PROVE  Handled(t, c)
  <1>1. ~Fatal(cl)
    BY DEF Fatal
  <1>2. ASSUME NEW k \in Nat, NEW s \in {"Error", "Sending"},
               NEW b \in BOOLEAN, b = (s = "Error"), s = "Sending" => k > 0,
               Return(todo[t], c, "client",
                      [cl EXCEPT !.state = s, !.left = k, !.begun = FALSE, !.open = b], pr, s)
        PROVE  Handled(t, c)
    <2> DEFINE next == [cl EXCEPT !.state = s, !.left = k, !.begun = FALSE, !.open = b]
    <2>1. /\ next \in ClientRecords /\ next.fd = client[c].fd
          /\ next.state = s /\ next.left = k /\ next.open = b
      BY DEF ClientRecords, ClientStates
    <2>2. Return(todo[t], c, "client", next, pr, s)
      BY <1>2
    <2> HIDE DEF next
    <2>3. Stage(next, pr) /\ WaitsFor(Mask(s), next, pr)
      BY <1>2, <2>1 DEF Stage, WaitsFor
    <2>4. Fine(c, next, pr, s)
      BY <2>1, <2>3 DEF Fine
    <2> QED BY <2>2, <2>4, ReturnHandled
  <1>3. ASSUME cl.open,
               Return(todo[t], c, "client",
                      [cl EXCEPT !.state = "Error", !.left = 0, !.begun = FALSE], pr, "Error")
        PROVE  Handled(t, c)
    <2>1. [cl EXCEPT !.state = "Error", !.left = 0, !.begun = FALSE]
            = [cl EXCEPT !.state = "Error", !.left = 0, !.begun = FALSE, !.open = TRUE]
      BY <1>3 DEF ClientRecords
    <2> QED BY <1>2, <1>3, <2>1
  <1>4. \A k \in Chunks : k \in Nat /\ k > 0
    BY BoundsAssumption DEF Chunks
  <1>5. cl.open =>
          Return(todo[t], c, "client",
                 [cl EXCEPT !.state = "Error", !.left = 0, !.begun = FALSE], pr, "Error")
    BY <1>1 DEF Fail
  <1>6. ~cl.open =>
          \E k \in Chunks, s \in {"Error", "Sending"} :
            Return(todo[t], c, "client",
                   [cl EXCEPT !.state = s, !.left = k, !.begun = FALSE,
                              !.open = (s = "Error")], pr, s)
    BY <1>1 DEF Fail
  <1> QED BY <1>2, <1>3, <1>4, <1>5, <1>6

\* A step that leaves the state it returns, as one of a static request does before
\* its response is written.
LEMMA MoveHandled ==
  ASSUME Consistent, Tame, NEW t, Visiting(t), NEW c \in Conns,
         client[c].fd = todo[t].fd, ~Culprit(c), peer[c].got = "nothing",
         NEW next \in ClientRecords, next.fd = client[c].fd,
         next.state \in {"Receiving", "Loading", "Sending", "Error"},
         next.state = "Sending" => next.left > 0, next.state = "Error" => next.open,
         NEW pr \in PeerRecords, SamePeer(pr, peer[c]), pr.got = "nothing",
         Return(todo[t], c, "client", next, pr, next.state)
  PROVE  Handled(t, c)
  <1>1. peer[c].phase = "open"
    BY OrderlyClient
  <1>2. Stage(next, pr) /\ WaitsFor(Mask(next.state), next, pr)
    BY <1>1 DEF Stage, WaitsFor, SamePeer
  <1>3. Fine(c, next, pr, next.state)
    BY <1>2 DEF Fine
  <1> QED BY <1>3, ReturnHandled

\* Reading a request.
LEMMA ReceiveHandled ==
  ASSUME Consistent, Tame, NEW t, Visiting(t), NEW c \in Conns,
         client[c].fd = todo[t].fd, ~Culprit(c), Receive(todo[t], c, "client")
  PROVE  Handled(t, c)
  <1> DEFINE e  == todo[t]
             p  == peer[c]
             r  == [p EXCEPT !.inbox = p.inbox - 1,
                             !.need = IF p.need = 0 THEN 0 ELSE p.need - 1]
             cl == client[c]
  <1>1. /\ cl \in ClientRecords /\ p \in PeerRecords
        /\ ~cl.cgi /\ cl.state = "Receiving" /\ cl.fd # NoFd
        /\ p.kind \notin CgiKinds \cup {"malformed", "unrouted"} /\ ~p.hung
        /\ p.phase = "open" /\ p.got = "nothing"
        /\ e.events = "IN" /\ Fresh(t)
    BY OrderlyClient DEF Receive, Stage, FatalKinds
  <1>2. /\ p.inbox > 0 \/ p.eof
        /\ p.inbox \in Nat /\ p.need \in Nat
        /\ cl.left \in Nat /\ cl.open \in BOOLEAN /\ cl.begun \in BOOLEAN
    BY <1>1 DEF Fresh, PeerRecords, ClientRecords
  <1>3. p.inbox > 0 => /\ r \in PeerRecords /\ SamePeer(r, p)
                       /\ r.phase = "open" /\ r.got = "nothing"
    <2>1. ASSUME NEW i \in Nat, NEW k \in Nat
          PROVE  LET q == [p EXCEPT !.inbox = i, !.need = k]
                 IN  q \in PeerRecords /\ SamePeer(q, p) /\ q.phase = p.phase /\ q.got = p.got
      BY <1>1 DEF PeerRecords, SamePeer
    <2>2. p.inbox > 0 => p.inbox - 1 \in Nat
      BY <1>2
    <2>3. (IF p.need = 0 THEN 0 ELSE p.need - 1) \in Nat
      BY <1>2
    <2> QED BY <1>1, <2>1, <2>2, <2>3
  <1>4. [cl EXCEPT !.cgi = FALSE] = cl
    BY <1>1 DEF ClientRecords
  <1>5. \/ Return(e, c, "client", cl, p, "Receiving")
        \/ p.inbox > 0 /\ Return(e, c, "client", cl, r, "Receiving")
        \/ p.inbox > 0 /\ Complete(e, c, "client", r)
    <2>1. \/ Return(e, c, "client", cl, p, "Receiving")
          \/ p.inbox > 0 /\ \E seen \in {cl.cgi, p.kind \in CgiKinds} :
               Return(e, c, "client", [cl EXCEPT !.cgi = seen], r, "Receiving")
          \/ p.inbox > 0 /\ Complete(e, c, "client", r)
      BY <1>1, <1>2 DEF Receive, r
    <2>2. \A seen \in {cl.cgi, p.kind \in CgiKinds} : [cl EXCEPT !.cgi = seen] = cl
      BY <1>1, <1>4 DEF ClientRecords
    <2> QED BY <2>1, <2>2
  <1> HIDE DEF r
  <1>6. ASSUME p.inbox > 0, Complete(e, c, "client", r)
        PROVE  \/ Fail(e, c, "client", cl, r)
               \/ r.kind = "surplus" /\ Return(e, c, "client", cl, r, "Loading")
               \/ \E n \in Chunks : Return(e, c, "client",
                                           [cl EXCEPT !.state = "Loading", !.left = n],
                                           r, "Loading")
    <2>1. (r.kind \in CgiKinds) = FALSE
      BY <1>1, <1>3, <1>6 DEF SamePeer
    <2>2. [client[c] EXCEPT !.cgi = r.kind \in CgiKinds] = cl
      BY <1>4, <2>1
    <2>3. r.kind # "script surplus" /\ r.kind \notin {"malformed", "unrouted"}
      BY <1>1, <1>3, <1>6 DEF CgiKinds, SamePeer
    <2> QED BY <1>6, <2>2, <2>3 DEF Complete
  <1>7. ASSUME NEW next \in ClientRecords, next.fd = cl.fd,
               next.state \in {"Receiving", "Loading"},
               NEW pr, pr = p \/ (pr = r /\ p.inbox > 0),
               Return(e, c, "client", next, pr, next.state)
        PROVE  Handled(t, c)
    <2>1. pr \in PeerRecords /\ SamePeer(pr, p) /\ pr.got = "nothing"
      BY <1>1, <1>3, <1>7, SamePeerSelf
    <2> QED BY <1>1, <1>7, <2>1, MoveHandled
  <1>8. CASE Return(e, c, "client", cl, p, "Receiving")
    BY <1>1, <1>7, <1>8
  <1>9. CASE p.inbox > 0 /\ Return(e, c, "client", cl, r, "Receiving")
    BY <1>1, <1>7, <1>9
  <1>10. CASE p.inbox > 0 /\ Fail(e, c, "client", cl, r)
    BY <1>1, <1>3, <1>10, FailHandled
  <1>11. CASE p.inbox > 0 /\ r.kind = "surplus" /\ Return(e, c, "client", cl, r, "Loading")
    <2>1. Stage(cl, r) /\ WaitsFor(Mask("Loading"), cl, r)
      BY <1>1, <1>3, <1>11 DEF Stage, WaitsFor
    <2>2. Fine(c, cl, r, "Loading")
      BY <1>1, <1>3, <1>11, <2>1 DEF Fine
    <2> QED BY <1>11, <2>2, ReturnHandled
  <1>12. ASSUME NEW n \in Chunks, p.inbox > 0,
                Return(e, c, "client", [cl EXCEPT !.state = "Loading", !.left = n],
                       r, "Loading")
         PROVE  Handled(t, c)
    <2> DEFINE next == [cl EXCEPT !.state = "Loading", !.left = n]
    <2>1. next \in ClientRecords /\ next.fd = cl.fd /\ next.state = "Loading"
      BY <1>1, <1>12, ChunksNat DEF ClientRecords, ClientStates
    <2>2. Return(e, c, "client", next, r, "Loading")
      BY <1>12
    <2> HIDE DEF next
    <2> QED BY <1>7, <1>12, <2>1, <2>2
  <1> QED BY <1>5, <1>6, <1>8, <1>9, <1>10, <1>11, <1>12

\* FileManager::manage and what it answers.
LEMMA LoadHandled ==
  ASSUME Consistent, Tame, NEW t, Visiting(t), NEW c \in Conns,
         client[c].fd = todo[t].fd, ~Culprit(c), Load(todo[t], c, "client")
  PROVE  Handled(t, c)
  <1> DEFINE e  == todo[t]
             cl == client[c]
             p  == peer[c]
  <1>1. /\ cl \in ClientRecords /\ p \in PeerRecords
        /\ ~cl.cgi /\ cl.state = "Loading" /\ cl.fd # NoFd
        /\ cl.left \in Nat /\ cl.open \in BOOLEAN /\ cl.begun \in BOOLEAN
        /\ p.phase = "open" /\ p.got = "nothing" /\ p.kind # "unservable"
    BY OrderlyClient DEF Load, Stage, ClientRecords, FatalKinds
  <1>2. \/ Fail(e, c, "client", cl, p)
        \/ Fail(e, c, "client", [cl EXCEPT !.open = TRUE], p)
        \/ Return(e, c, "client", [cl EXCEPT !.state = "Sending", !.left = 1,
                                             !.begun = FALSE], p, "Sending")
        \/ cl.left > 1
           /\ Return(e, c, "client", [cl EXCEPT !.left = cl.left - 1, !.open = TRUE],
                     p, "Loading")
        \/ \E n \in Chunks :
             Return(e, c, "client", [cl EXCEPT !.state = "Sending", !.left = n,
                                               !.open = TRUE], p, "Sending")
    BY <1>1, ZenonT(30) DEF Load, FindScript, ManageFile
  <1> HIDE DEF cl
  <1>3. ASSUME NEW next \in ClientRecords, next.fd = cl.fd,
               next.state \in {"Loading", "Sending"},
               next.state = "Sending" => next.left > 0,
               Return(e, c, "client", next, p, next.state)
        PROVE  Handled(t, c)
    <2>1. /\ next.state \in {"Receiving", "Loading", "Sending", "Error"}
          /\ next.state # "Error"
      BY <1>3
    <2> QED BY <1>1, <1>3, <2>1, MoveHandled, SamePeerSelf DEF cl
  <1>4. CASE Fail(e, c, "client", cl, p)
    BY <1>1, <1>4, FailHandled, SamePeerSelf DEF cl
  <1>5. CASE Fail(e, c, "client", [cl EXCEPT !.open = TRUE], p)
    <2> DEFINE next == [cl EXCEPT !.open = TRUE]
    <2>1. next \in ClientRecords /\ next.fd = cl.fd /\ ~next.cgi
      BY <1>1 DEF ClientRecords
    <2>2. Fail(e, c, "client", next, p)
      BY <1>5
    <2> HIDE DEF next
    <2> QED BY <1>1, <2>1, <2>2, FailHandled, SamePeerSelf DEF cl
  <1>6. CASE Return(e, c, "client", [cl EXCEPT !.state = "Sending", !.left = 1,
                                               !.begun = FALSE], p, "Sending")
    <2> DEFINE next == [cl EXCEPT !.state = "Sending", !.left = 1, !.begun = FALSE]
    <2>1. /\ next \in ClientRecords /\ next.fd = cl.fd
          /\ next.state = "Sending" /\ next.left = 1
      BY <1>1 DEF ClientRecords, ClientStates
    <2>2. Return(e, c, "client", next, p, "Sending")
      BY <1>6
    <2> HIDE DEF next
    <2> QED BY <1>3, <2>1, <2>2
  <1>7. CASE cl.left > 1
             /\ Return(e, c, "client", [cl EXCEPT !.left = cl.left - 1, !.open = TRUE],
                       p, "Loading")
    <2> DEFINE next == [cl EXCEPT !.left = cl.left - 1, !.open = TRUE]
    <2>1. \A k \in Nat : LET q == [cl EXCEPT !.left = k, !.open = TRUE]
                         IN  q \in ClientRecords /\ q.fd = cl.fd /\ q.state = "Loading"
      BY <1>1 DEF ClientRecords, ClientStates
    <2>2. Return(e, c, "client", next, p, "Loading") /\ cl.left - 1 \in Nat
      BY <1>1, <1>7
    <2>3. next \in ClientRecords /\ next.fd = cl.fd /\ next.state = "Loading"
      BY <2>1, <2>2
    <2> HIDE DEF next
    <2> QED BY <1>3, <2>2, <2>3
  <1>8. ASSUME NEW n \in Chunks,
               Return(e, c, "client", [cl EXCEPT !.state = "Sending", !.left = n,
                                                 !.open = TRUE], p, "Sending")
        PROVE  Handled(t, c)
    <2> DEFINE next == [cl EXCEPT !.state = "Sending", !.left = n, !.open = TRUE]
    <2>1. n \in Nat /\ n > 0
      BY <1>8, BoundsAssumption DEF Chunks
    <2>2. /\ next \in ClientRecords /\ next.fd = cl.fd
          /\ next.state = "Sending" /\ next.left = n
      BY <1>1, <2>1 DEF ClientRecords, ClientStates
    <2>3. Return(e, c, "client", next, p, "Sending")
      BY <1>8
    <2> HIDE DEF next
    <2> QED BY <1>3, <2>1, <2>2, <2>3
  <1> QED BY <1>2, <1>4, <1>5, <1>6, <1>7, <1>8

\* FileManager::loadErrorPage: the page is open, so its end is a response.
LEMMA LoadErrorPageHandled ==
  ASSUME Consistent, Tame, NEW t, Visiting(t), NEW c \in Conns,
         client[c].fd = todo[t].fd, ~Culprit(c), LoadErrorPage(todo[t], c, "client")
  PROVE  Handled(t, c)
  <1> DEFINE e  == todo[t]
             cl == client[c]
  <1>1. /\ cl \in ClientRecords /\ peer[c] \in PeerRecords /\ cl.state = "Error"
        /\ cl.left \in Nat /\ cl.open \in BOOLEAN /\ cl.begun \in BOOLEAN
        /\ cl.open /\ peer[c].got = "nothing"
    BY OrderlyClient DEF LoadErrorPage, ClientRecords, Stage
  <1>2. ASSUME NEW k \in Nat, NEW s \in {"Error", "Sending"}, s = "Sending" => k > 0,
               Return(e, c, "client", [cl EXCEPT !.state = s, !.left = k], peer[c], s)
        PROVE  Handled(t, c)
    <2> DEFINE next == [cl EXCEPT !.state = s, !.left = k]
    <2>1. /\ next \in ClientRecords /\ next.fd = cl.fd /\ next.open
          /\ next.state = s /\ next.left = k
      BY <1>1 DEF ClientRecords, ClientStates
    <2>2. Return(e, c, "client", next, peer[c], next.state)
      BY <1>2, <2>1
    <2>3. next.state \in {"Receiving", "Loading", "Sending", "Error"}
      BY <2>1
    <2> HIDE DEF next
    <2> QED BY <1>1, <1>2, <2>1, <2>2, <2>3, MoveHandled, SamePeerSelf
  <1>3. (IF cl.left = 0 THEN 0 ELSE cl.left - 1) \in Nat
    BY <1>1
  <1>4. \A k \in Nat : [cl EXCEPT !.left = k] = [cl EXCEPT !.state = "Error", !.left = k]
    BY <1>1 DEF ClientRecords
  <1>5. \A n \in Chunks : n \in Nat /\ n > 0
    BY BoundsAssumption DEF Chunks
  <1>6. \/ \E n \in Chunks :
             Return(e, c, "client", [cl EXCEPT !.state = "Sending", !.left = n],
                    peer[c], "Sending")
        \/ Return(e, c, "client",
                  [cl EXCEPT !.left = IF cl.left = 0 THEN 0 ELSE cl.left - 1],
                  peer[c], "Error")
    BY <1>1, ZenonT(30) DEF LoadErrorPage
  <1> HIDE DEF cl
  <1> QED BY <1>2, <1>3, <1>4, <1>5, <1>6

\* One chunk of a response: it is the last, and the answer is whole, or the answer
\* has begun and a chunk is left.
LEMMA SendHandled ==
  ASSUME Consistent, Tame, NEW t, Visiting(t), NEW c \in Conns,
         client[c].fd = todo[t].fd, ~Culprit(c), client[c].state = "Sending",
         SendResponse(todo[t], c, "client", client[c], pollfds, activePipes)
  PROVE  Handled(t, c)
  <1> DEFINE cl   == client[c]
             p    == peer[c]
             ret  == IF Written(cl) THEN "Done" ELSE "Sending"
             k    == IF cl.left = 0 THEN 0 ELSE cl.left - 1
             b    == ret = "Sending"
             next == [cl EXCEPT !.state = ret, !.begun = b, !.left = k]
             got  == IF cl.left = 0 THEN p.got ELSE GotAfter(cl, p)
             pr   == [p EXCEPT !.got = got]
  <1>1. /\ cl \in ClientRecords /\ p \in PeerRecords /\ ~p.hung /\ cl.fd # NoFd
        /\ cl.left \in Nat /\ cl.left > 0 /\ p.phase = "open"
        /\ p.got = "nothing" \/ (p.got = "partial" /\ (cl.begun \/ cl.left = 1))
    BY OrderlyClient DEF ClientRecords, Stage
  <1>2. ReturnWith(todo[t], c, "client", next, pr, ret, pollfds, activePipes, desc)
    BY <1>1 DEF SendResponse
  <1>3. /\ got \in {"nothing", "partial", "answer", "spliced"}
        /\ ret = "Done" => got \in {"answer", "spliced"}
        /\ ret # "Done" => got = "partial" /\ cl.left > 1
    BY <1>1 DEF GotAfter, Written
  <1>4. pr \in PeerRecords /\ SamePeer(pr, p) /\ pr.phase = "open" /\ pr.got = got
    <2> HIDE DEF got
    <2> QED BY <1>1, <1>3 DEF PeerRecords, SamePeer
  <1>5. k = cl.left - 1 /\ k \in Nat /\ b \in BOOLEAN /\ ret \in {"Done", "Sending"}
    BY <1>1
  <1>6. b = (ret = "Sending")
    OBVIOUS
  <1> HIDE DEF ret, k, b, got, pr
  <1>7. /\ next \in ClientRecords /\ next.fd = cl.fd
        /\ next.state = ret /\ next.begun = b /\ next.left = k
    BY <1>1, <1>5 DEF ClientRecords, ClientStates
  <1> HIDE DEF next
  <1>8. ret # "Done" => Stage(next, pr) /\ WaitsFor(Mask(ret), next, pr)
    <2> SUFFICES ASSUME ret # "Done" PROVE Stage(next, pr) /\ WaitsFor(Mask(ret), next, pr)
      OBVIOUS
    <2>1. ret = "Sending" /\ next.state = "Sending" /\ pr.got = "partial"
      BY <1>3, <1>4, <1>5, <1>7
    <2>2. next.begun
      BY <1>6, <1>7, <2>1, Zenon
    <2>3. next.left > 0
      BY <1>1, <1>3, <1>5, <1>7
    <2> QED BY <1>4, <2>1, <2>2, <2>3 DEF Stage, WaitsFor
  <1>9. Fine(c, next, pr, ret)
    BY <1>1, <1>3, <1>4, <1>7, <1>8 DEF Fine
  <1> QED BY <1>2, <1>9 DEF Handled

\* A state and a mask that do not go together: the body was longer than announced.
LEMMA BadRequestHandled ==
  ASSUME Consistent, Tame, NEW t, Visiting(t), NEW c \in Conns,
         client[c].fd = todo[t].fd, ~Culprit(c), BadRequest(todo[t], c, "client")
  PROVE  Handled(t, c)
  <1>1. /\ client[c] \in ClientRecords /\ peer[c] \in PeerRecords /\ ~client[c].cgi
        /\ client[c].fd # NoFd /\ peer[c].phase = "open"
        /\ client[c].state \in StaticStates \ {"Done"}
        /\ Stage(client[c], peer[c]) /\ WaitsFor(todo[t].events, client[c], peer[c])
    BY OrderlyClient
  <1>2. client[c].state = "Receiving"
    BY <1>1 DEF BadRequest, WaitsFor, Mask, StaticStates
  <1>3. peer[c].got = "nothing"
    BY <1>1, <1>2 DEF Stage
  <1> QED BY <1>1, <1>3, FailHandled, SamePeerSelf DEF BadRequest

\* For a static client, handleConnection is one of those branches.
LEMMA HandleConnectionHandled ==
  ASSUME Consistent, Tame, NEW t, Visiting(t), NEW c \in Conns,
         client[c].fd = todo[t].fd, ~Culprit(c),
         HandleConnection(todo[t], c, "client")
  PROVE  Handled(t, c)
  <1>1. client[c].state \in StaticStates
    BY OrderlyClient
  <1>2. /\ ~StartScript(todo[t], c, "client")
        /\ ~SendBody(todo[t], c, "client")
        /\ ~ReceiveOutput(todo[t], c, "client")
    BY <1>1 DEF StartScript, SendBody, ReceiveOutput, StaticStates
  <1>3. CASE Receive(todo[t], c, "client")
    BY <1>3, ReceiveHandled
  <1>4. CASE Load(todo[t], c, "client")
    BY <1>4, LoadHandled
  <1>5. CASE LoadErrorPage(todo[t], c, "client")
    BY <1>5, LoadErrorPageHandled
  <1>6. CASE /\ client[c].state = "Sending"
             /\ SendResponse(todo[t], c, "client", client[c], pollfds, activePipes)
    BY <1>6, SendHandled
  <1>7. CASE BadRequest(todo[t], c, "client")
    BY <1>7, BadRequestHandled
  <1> QED BY <1>2, <1>3, <1>4, <1>5, <1>6, <1>7 DEF HandleConnection

-----------------------------------------------------------------------------
(* One step of an orderly loop. *)

\* What a peer or a script does leaves every entry, every record and what was
\* reported as they were.
LEMMA PeerOrderly ==
  ASSUME Consistent, Tame, NEW c \in Conns, NEW p, PeerStep(c, p),
         p.kind = peer[c].kind, p.got = peer[c].got,
         p.phase = peer[c].phase \/ (peer[c].phase = "idle" /\ p.phase = "pending")
  PROVE  Orderly'
  <1>1. /\ peer' = [peer EXCEPT ![c] = p] /\ peer \in [Conns -> PeerRecords]
        /\ UNCHANGED <<server, pollfds, todo, client>>
    BY DEF PeerStep, loop, Consistent, CoreOK
  <1>2. /\ peer'[c] = p
        /\ \A d \in Conns \ {c} : peer'[d] = peer[d]
    BY <1>1
  <1>3. \A d \in Conns : /\ peer'[d].kind = peer[d].kind /\ peer'[d].got = peer[d].got
                         /\ \/ peer'[d].phase = peer[d].phase
                            \/ peer[d].phase = "idle" /\ peer'[d].phase = "pending"
    BY <1>2
  <1>4. ASSUME NEW d \in Conns PROVE Stage(client[d], peer[d])' /\ Registered(d)'
    BY <1>1, <1>3 DEF Tame, Orderly, Stage, Registered, Live, WaitsFor
  <1>5. ASSUME NEW t \in DOMAIN todo' PROVE StillTrue(t)'
    <2>1. StillTrue(t) /\ \A d \in Conns : peer[d].phase = "pending" => peer'[d].phase = "pending"
      BY <1>1, <1>3 DEF Tame, Orderly
    <2> QED BY <1>1, <2>1 DEF StillTrue
  <1> QED BY <1>4, <1>5 DEF Orderly

\* What Delivery sees of a step that changes no connection's phase and sends nothing.
LEMMA Unseen ==
  ASSUME \A d \in Conns : peer'[d].phase = peer[d].phase /\ peer'[d].got = peer[d].got
  PROVE  Delivering
  <1>1. /\ UNCHANGED [d \in Conns |-> peer[d].phase]
        /\ UNCHANGED [d \in Conns |-> SentOf(peer[d].got)]
    OBVIOUS
  <1> QED BY <1>1 DEF Delivering, Promised!vars

\* Peers and scripts keep order as well.
LEMMA EnvironmentOrderly ==
  ASSUME Consistent, Tame, NEW c \in Conns,
         \/ Connect(c) \/ SendSegment(c) \/ Lengthen(c) \/ HalfClose(c) \/ HangUp(c)
         \/ ScriptWrites(c) \/ ScriptExits(c)
  PROVE  Orderly' /\ Delivering /\ NoReset
  <1>1. peer \in [Conns -> PeerRecords] /\ peer[c] \in PeerRecords
    BY DEF Consistent, CoreOK
  <1>2. CASE Connect(c)
    <2> DEFINE p == [peer[c] EXCEPT !.phase = "pending"]
    <2>1. /\ PeerStep(c, p) /\ peer[c].phase = "idle" /\ p.phase = "pending"
          /\ p.kind = peer[c].kind /\ p.got = peer[c].got /\ p.hung = peer[c].hung
      BY <1>1, <1>2 DEF Connect, PeerRecords
    <2> HIDE DEF p
    <2>2. Orderly'
      BY <2>1, PeerOrderly
    <2>3. peer' = [peer EXCEPT ![c] = p]
      BY <2>1 DEF PeerStep
    <2>4. /\ peer'[c] = p
          /\ \A d \in Conns \ {c} : peer'[d] = peer[d]
      BY <1>1, <2>3
    <2>5. [d \in Conns |-> peer[d].phase]'
            = [[d \in Conns |-> peer[d].phase] EXCEPT ![c] = "pending"]
      BY <2>1, <2>4
    <2>6. UNCHANGED [d \in Conns |-> SentOf(peer[d].got)]
      <3>1. \A d \in Conns : peer'[d].got = peer[d].got
        BY <2>1, <2>4
      <3> QED BY <3>1
    <2>7. Promised!Connect(c)
      BY <2>1, <2>5, <2>6 DEF Promised!Connect, Promised!Moves
    <2>8. NoReset
      BY <2>1, <2>4 DEF NoReset
    <2> QED BY <2>2, <2>7, <2>8 DEF Delivering, Promised!Next
  <1>3. ASSUME NEW p, PeerStep(c, p), p.kind = peer[c].kind, p.got = peer[c].got,
               p.phase = peer[c].phase, p.hung => peer[c].hung \/ MayHangUp
        PROVE  Orderly' /\ Delivering /\ NoReset
    <2>1. Orderly'
      BY <1>3, PeerOrderly
    <2>2. \A d \in Conns : peer'[d].phase = peer[d].phase /\ peer'[d].got = peer[d].got
      BY <1>1, <1>3 DEF PeerStep
    <2>3. NoReset
      BY <1>1, <1>3 DEF PeerStep, NoReset
    <2> QED BY <2>1, <2>2, <2>3, Unseen
  <1>4. CASE SendSegment(c)
    <2> DEFINE p == [peer[c] EXCEPT !.unsent = peer[c].unsent - 1,
                                    !.inbox = peer[c].inbox + 1]
    <2>1. PeerStep(c, p)
      BY <1>4 DEF SendSegment
    <2>2. /\ p.kind = peer[c].kind /\ p.got = peer[c].got /\ p.phase = peer[c].phase
          /\ p.hung => peer[c].hung \/ MayHangUp
      BY <1>1 DEF PeerRecords
    <2> HIDE DEF p
    <2> QED BY <1>3, <2>1, <2>2
  <1>5. CASE HalfClose(c)
    <2> DEFINE p == [peer[c] EXCEPT !.eof = TRUE]
    <2>1. PeerStep(c, p)
      BY <1>5 DEF HalfClose
    <2>2. /\ p.kind = peer[c].kind /\ p.got = peer[c].got /\ p.phase = peer[c].phase
          /\ p.hung => peer[c].hung \/ MayHangUp
      BY <1>1 DEF PeerRecords
    <2> HIDE DEF p
    <2> QED BY <1>3, <2>1, <2>2
  <1>6. CASE HangUp(c)
    <2> DEFINE p == [peer[c] EXCEPT !.hung = TRUE]
    <2>1. PeerStep(c, p)
      BY <1>6 DEF HangUp
    <2>2. /\ p.kind = peer[c].kind /\ p.got = peer[c].got /\ p.phase = peer[c].phase
          /\ p.hung => peer[c].hung \/ MayHangUp
      BY <1>1, <1>6 DEF PeerRecords, HangUp
    <2> HIDE DEF p
    <2> QED BY <1>3, <2>1, <2>2
  <1>7. CASE ScriptWrites(c) \/ ScriptExits(c)
    <2>1. UNCHANGED <<server, pollfds, todo, client, peer>>
      BY <1>7 DEF ScriptWrites, ScriptExits, ScriptStep, loop
    <2>2. Orderly'
      BY <2>1 DEF Tame, Orderly, Stage, Registered, Live, WaitsFor, StillTrue
    <2> QED BY <2>1, <2>2, Unseen DEF NoReset
  <1>8. CASE Lengthen(c)
    <2> DEFINE p == [peer[c] EXCEPT !.need = peer[c].need + 1,
                                    !.unsent = peer[c].unsent + 1]
    <2>1. PeerStep(c, p)
      BY <1>8 DEF Lengthen
    <2>2. /\ p.kind = peer[c].kind /\ p.got = peer[c].got /\ p.phase = peer[c].phase
          /\ p.hung => peer[c].hung \/ MayHangUp
      BY <1>1 DEF PeerRecords
    <2> HIDE DEF p
    <2> QED BY <1>3, <2>1, <2>2
  <1> QED BY <1>2, <1>4, <1>5, <1>6, <1>7, <1>8

\* poll() reports of every entry what it waits for.
LEMMA PollOrderly ==
  ASSUME Consistent, Tame, \A c \in Conns : ~Culprit(c), NEW W, Poll(W)
  PROVE  Orderly' /\ Delivering /\ NoReset
  <1>1. /\ UNCHANGED <<server, pollfds, client, desc, peer>>
        /\ todo' = [t \in Ready(W) |->
                      [fd |-> pollfds[t].fd, events |-> pollfds[t].events,
                       revents |-> Revents(pollfds[t], W)]]
    BY DEF Poll
  <1>2. ASSUME NEW t \in DOMAIN todo' PROVE StillTrue(t)'
    <2>1. /\ t \in DOMAIN pollfds /\ Revents(pollfds[t], W) # {}
          /\ pollfds[t].fd \in Fds
          /\ todo'[t].fd = pollfds[t].fd /\ todo'[t].events = pollfds[t].events
          /\ todo'[t].revents = Revents(pollfds[t], W)
      BY <1>1 DEF Ready, Consistent, CoreOK, IsTable
    <2>2. CASE pollfds[t].fd = ListenFd
      <3>1. Revents(pollfds[t], W)
              = IF \E d \in Conns : peer[d].phase = "pending" THEN {"IN"} ELSE {}
        BY <2>2 DEF Revents, Tame, Quiet, Listening, Listen
      <3> QED BY <1>1, <2>1, <2>2, <3>1 DEF StillTrue
    <2>3. CASE pollfds[t].fd # ListenFd
      <3>1. PICK c \in Conns : client[c].fd = pollfds[t].fd
        BY <2>1, <2>3 DEF Tame, Quiet, OneEntryEach
      <3>2. client[c].fd # NoFd
        BY <2>1, <3>1, FdsAssumption
      <3>3. desc[pollfds[t].fd] = Sock(c) /\ ~peer[c].hung
        BY <3>1, <3>2, NoCulprit DEF Consistent, CoreOK, OwnDescriptors, HoldsOwn
      <3>4. Revents(pollfds[t], W)
              = (IF pollfds[t].events = "IN" /\ (peer[c].inbox > 0 \/ peer[c].eof)
                 THEN {"IN"} ELSE {})
                \cup (IF pollfds[t].events = "OUT" /\ HasRoom(Sock(c), W) THEN {"OUT"} ELSE {})
        BY <3>3 DEF Revents, Sock
      <3> QED BY <1>1, <2>1, <2>3, <3>4 DEF StillTrue
    <2> QED BY <2>2, <2>3
  <1>3. \A c \in Conns : (Stage(client[c], peer[c]) /\ Registered(c))'
    BY <1>1 DEF Tame, Orderly, Stage, Registered, Live, WaitsFor
  <1> QED BY <1>1, <1>2, <1>3, Unseen DEF Orderly, NoReset

\* After a timeout every client has one chunk to send, the 408, and its entry
\* waits for room.
LEMMA TimeoutOrderly ==
  ASSUME Consistent, Tame, Timeout
  PROVE  Orderly' /\ Delivering /\ NoReset
  <1>1. /\ pollfds' = TimedOut
        /\ client' = [c \in Conns |->
             IF Live(c) THEN [client[c] EXCEPT !.state = "Sending", !.left = 1, !.begun = FALSE]
             ELSE client[c]]
        /\ UNCHANGED <<server, todo, peer>>
        /\ DOMAIN todo = {}
    BY DEF Timeout
  <1>2. ASSUME NEW c \in Conns
        PROVE  /\ client'[c].fd = client[c].fd
               /\ Live(c) => client'[c].state = "Sending" /\ client'[c].left = 1
               /\ ~Live(c) => client'[c] = client[c]
    <2>1. client[c] \in ClientRecords
      BY CoreRecords DEF Consistent
    <2>2. LET next == [client[c] EXCEPT !.state = "Sending", !.left = 1, !.begun = FALSE]
          IN  next.fd = client[c].fd /\ next.state = "Sending" /\ next.left = 1
      BY <2>1 DEF ClientRecords
    <2> QED BY <1>1, <2>2
  <1>3. /\ DOMAIN pollfds' = DOMAIN pollfds
        /\ \A u \in DOMAIN pollfds : pollfds'[u].fd = pollfds[u].fd
    BY <1>1 DEF TimedOut
  <1>4. \A u \in DOMAIN pollfds :
          (\E c \in Conns : client[c].fd = pollfds[u].fd) => pollfds'[u].events = "OUT"
    <2> SUFFICES ASSUME NEW u \in DOMAIN pollfds, NEW c \in Conns,
                        client[c].fd = pollfds[u].fd
                 PROVE  pollfds'[u].events = "OUT"
      OBVIOUS
    <2>1. u \in Nat
      BY DEF Consistent, CoreOK, IsTable
    <2>2. \A v \in DOMAIN pollfds : pollfds[v].fd = pollfds[u].fd => u <= v
      BY <2>1 DEF Tame, Quiet, OneEntryEach
    <2> QED BY <1>1, <2>2 DEF TimedOut
  <1>5. ASSUME NEW c \in Conns PROVE Stage(client[c], peer[c])'
    <2>1. CASE Live(c)
      <3>1. Stage(client[c], peer[c]) /\ peer[c].phase = "open" /\ client[c].state # "Done"
        BY <2>1 DEF Tame, Orderly, Stage, Live, Consistent, CoreOK, Accepted
      <3>2. client[c].state \in StaticStates
        BY DEF Tame, Quiet, NoScripts
      <3>3. peer[c].got \in {"nothing", "partial"}
        BY <2>1, <3>1 DEF Stage, Live
      <3>4. client'[c].state = "Sending" /\ client'[c].left = 1 /\ peer' = peer
        BY <1>1, <1>2, <2>1
      <3> QED BY <3>1, <3>3, <3>4 DEF Stage
    <2>2. CASE ~Live(c)
      BY <1>1, <1>2, <2>2 DEF Tame, Orderly
    <2> QED BY <2>1, <2>2
  <1>6. ASSUME NEW c \in Conns PROVE Registered(c)'
    <2>1. CASE Live(c)
      <3>1. \A u \in DOMAIN pollfds' : pollfds'[u].fd = client'[c].fd =>
              WaitsFor(pollfds'[u].events, client'[c], peer'[c])
        BY <1>2, <1>3, <1>4, <2>1 DEF WaitsFor, Mask
      <3>2. PICK t \in DOMAIN pollfds : pollfds[t].fd = client[c].fd
        BY <2>1 DEF Tame, Orderly, Registered
      <3>3. t \in DOMAIN pollfds' /\ pollfds'[t].fd = client'[c].fd
        BY <1>2, <1>3, <3>2
      <3> QED BY <3>1, <3>3 DEF Registered
    <2>2. CASE ~Live(c)
      <3>1. \A u \in DOMAIN pollfds : pollfds[u].fd # NoFd
        BY FdsAssumption DEF Consistent, CoreOK, IsTable
      <3> QED BY <1>2, <1>3, <2>2, <3>1 DEF Registered, Live
    <2> QED BY <2>1, <2>2
  <1> QED BY <1>1, <1>5, <1>6, Unseen DEF Orderly, NoReset

\* A connection is accepted: its entry waits for its request.
LEMMA ListenerOrderly ==
  ASSUME Consistent, Tame, NEW t, VisitListener(t)
  PROVE  Orderly' /\ Delivering /\ NoReset
  <1>1. /\ Visiting(t) /\ t \in DOMAIN todo /\ todo[t].fd = ListenFd
        /\ todo' = [u \in DOMAIN todo \ {t} |-> todo[u]]
    BY DEF VisitListener, Visiting
  <1>2. ASSUME NEW u \in DOMAIN todo'
        PROVE  /\ u \in DOMAIN todo /\ todo'[u] = todo[u] /\ todo[u].fd # ListenFd
               /\ StillTrue(u) /\ u \in DOMAIN pollfds /\ pollfds[u].fd = todo[u].fd
    BY <1>1 DEF Tame, Orderly, Quiet, Fresh, OneEntryEach
  <1>3. CASE Stop("failed")
    <2>1. UNCHANGED <<pollfds, client, peer>>
      BY <1>3 DEF Stop
    <2>2. \A u \in DOMAIN todo' : StillTrue(u)'
      BY <1>2, <2>1 DEF StillTrue
    <2>3. \A c \in Conns : (Stage(client[c], peer[c]) /\ Registered(c))'
      BY <2>1 DEF Tame, Orderly, Stage, Registered, Live, WaitsFor
    <2> QED BY <2>1, <2>2, <2>3, Unseen DEF Orderly, NoReset
  <1>4. ASSUME NEW c \in Conns, NEW f \in Candidates(FreeFds),
               NEW r \in Residue \cup {NoFd}, NEW w \in Residue \cup {NoFd},
               peer[c].phase = "pending",
               client' = [client EXCEPT ![c] = NewClient(f, r, w)],
               peer' = [peer EXCEPT ![c].phase = "open"],
               pollfds' = Add(pollfds, tickets, f, "IN")
        PROVE  Orderly' /\ Delivering /\ NoReset
    <2>1. f \in Fds /\ desc[f] = Free
      <3>1. FreeFds \in SUBSET Fds
        BY DEF FreeFds
      <3> QED BY <3>1, CandidatesAssumption DEF FreeFds
    <2>2. /\ client \in [Conns -> ClientRecords] /\ peer \in [Conns -> PeerRecords]
          /\ tickets \in Nat /\ IsTable(pollfds, tickets)
          /\ \A d \in Conns : HoldsOwn(d, client[d], desc)
          /\ client[c].fd = NoFd /\ f # NoFd
      BY <1>4, <2>1, FdsAssumption DEF Consistent, CoreOK, OwnDescriptors, Accepted
    <2>3. \A d \in Conns : client[d].fd # f
      BY <2>1, <2>2, ObjectsDistinct DEF HoldsOwn
    <2>4. f # ListenFd
      BY <2>1 DEF Tame, Quiet, Listening, Free, Listen
    <2> DEFINE new == NewClient(f, r, w)
    <2>5. new.fd = f /\ new.state = "Receiving"
      BY DEF NewClient, NoClient
    <2>6. client' = [client EXCEPT ![c] = new]
      BY <1>4
    <2> HIDE DEF new
    <2>7. /\ client'[c] = new
          /\ \A d \in Conns \ {c} : client'[d] = client[d] /\ peer'[d] = peer[d]
      BY <1>4, <2>2, <2>6
    <2>8. /\ peer'[c].phase = "open" /\ peer'[c].got = peer[c].got
          /\ peer[c].got = "nothing" /\ peer'[c].hung = peer[c].hung
      <3>1. peer'[c] = [peer[c] EXCEPT !.phase = "open"] /\ peer[c] \in PeerRecords
        BY <1>4, <2>2
      <3>2. peer[c].got = "nothing"
        BY <1>4 DEF Tame, Orderly, Stage
      <3> QED BY <3>1, <3>2 DEF PeerRecords
    <2>9. /\ DOMAIN pollfds' = DOMAIN pollfds \cup {tickets}
          /\ pollfds'[tickets] = [fd |-> f, events |-> "IN"]
          /\ \A u \in DOMAIN pollfds : pollfds'[u] = pollfds[u]
      <3>1. tickets \notin DOMAIN pollfds
        BY <2>2 DEF IsTable
      <3> QED BY <1>4, <3>1 DEF Add
    <2>10. \A u \in DOMAIN pollfds : pollfds[u].fd # f /\ pollfds[u].fd # NoFd
      BY <2>2, <2>3, <2>4, FdsAssumption DEF Tame, Quiet, OneEntryEach, IsTable
    <2>11. \A d \in Conns : Stage(client[d], peer[d])'
      <3>1. Stage(new, peer'[c])
        BY <2>5, <2>8 DEF Stage
      <3> QED BY <2>7, <3>1 DEF Tame, Orderly
    <2>12. ASSUME NEW d \in Conns PROVE Registered(d)'
      <3>1. Registered(d)
        BY DEF Tame, Orderly
      <3>2. CASE d = c
        <4>1. \A u \in DOMAIN pollfds' : pollfds'[u].fd = f => u = tickets
          BY <2>9, <2>10
        <4>2. WaitsFor("IN", new, peer'[c])
          BY <2>5 DEF WaitsFor, Mask
        <4> QED BY <2>5, <2>7, <2>9, <3>2, <4>1, <4>2 DEF Registered
      <3>3. CASE d # c
        <4>1. client'[d] = client[d] /\ peer'[d] = peer[d] /\ client[d].fd # f
          BY <2>3, <2>7, <3>3
        <4> QED BY <2>9, <3>1, <4>1 DEF Registered, Live
      <3> QED BY <3>2, <3>3
    <2>13. \A u \in DOMAIN todo' : StillTrue(u)'
      BY <1>2, <2>9 DEF StillTrue
    <2>14. Delivering
      <3>1. [d \in Conns |-> peer[d].phase]'
              = [[d \in Conns |-> peer[d].phase] EXCEPT ![c] = "open"]
        BY <2>7, <2>8
      <3>2. UNCHANGED [d \in Conns |-> SentOf(peer[d].got)]
        <4>1. \A d \in Conns : peer'[d].got = peer[d].got
          BY <2>7, <2>8
        <4> QED BY <4>1
      <3>3. Promised!Accept(c)
        BY <1>4, <3>1, <3>2 DEF Promised!Accept, Promised!Moves
      <3> QED BY <3>3 DEF Delivering, Promised!Next
    <2>15. NoReset
      BY <2>7, <2>8 DEF NoReset
    <2> QED BY <2>11, <2>12, <2>13, <2>14, <2>15 DEF Orderly
  <1> QED BY <1>3, <1>4 DEF VisitListener

\* So does every visit while there is no culprit.
LEMMA VisitOrderly ==
  ASSUME Consistent, Tame, \A c \in Conns : ~Culprit(c), Visit
  PROVE  Orderly' /\ Delivering /\ NoReset
  <1>1. PICK t \in DOMAIN todo :
          \/ VisitUnownedHangUp(t) \/ VisitScriptHangUp(t) \/ VisitBroken(t)
          \/ VisitListener(t) \/ VisitClient(t) \/ VisitPipe(t) \/ VisitUnknown(t)
    BY DEF Visit
  <1>2. Fresh(t) /\ activePipes = {}
    BY DEF Tame, Quiet, NoScripts
  <1>3. "HUP" \notin todo[t].revents /\ ~Broken(todo[t])
    BY <1>2 DEF Fresh, Broken
  <1>4. todo[t].fd = ListenFd \/ \E c \in Conns : client[c].fd = todo[t].fd
    BY <1>2 DEF Tame, Quiet, Fresh, OneEntryEach
  <1>5. VisitListener(t) \/ VisitClient(t)
    BY <1>1, <1>2, <1>3, <1>4
       DEF VisitUnownedHangUp, VisitScriptHangUp, VisitBroken, VisitPipe, VisitUnknown
  <1>6. CASE VisitListener(t)
    BY <1>6, ListenerOrderly
  <1>7. CASE VisitClient(t)
    BY <1>7, HandleConnectionHandled, HandledOrderly DEF VisitClient
  <1> QED BY <1>5, <1>6, <1>7

\* A server that has just begun to listen is in order.
LEMMA InitTame == Init => Tame
  <1> SUFFICES ASSUME Init PROVE Tame
    OBVIOUS
  <1>1. Quiet
    <2>1. \A c \in Conns : ~Culprit(c)
      BY DEF Init, Culprit
    <2> QED BY <2>1, InitCalm DEF Calm
  <1>2. /\ DOMAIN todo = {} /\ client = [c \in Conns |-> NoClient]
        /\ pollfds = [t \in {0} |-> [fd |-> ListenFd, events |-> "IN"]]
        /\ \A c \in Conns : peer[c].phase = "idle" /\ peer[c].got = "nothing"
    BY DEF Init
  <1>3. ASSUME NEW c \in Conns PROVE Stage(client[c], peer[c]) /\ Registered(c)
    BY <1>2, FdsAssumption DEF Stage, Registered, Live, NoClient
  <1> QED BY <1>1, <1>2, <1>3 DEF Tame, Orderly

\* As long as no culprit has been accepted, a step leaves the loop in order, and
\* Delivery allows it.
LEMMA NextTame ==
  ASSUME Consistent, Tame, \A c \in Conns : ~Culprit(c), [Next]_vars
  PROVE  Delivering /\ NoReset /\ (Tame' \/ (\E c \in Conns : Culprit(c))')
  <1>1. Calm'
    BY NextCalm DEF Tame, Calm
  <1>2. Orderly' /\ Delivering /\ NoReset
    <2>1. CASE UNCHANGED vars
      <3>1. Orderly'
        BY <2>1 DEF vars, Tame, Orderly, Stage, Registered, Live, WaitsFor, StillTrue
      <3> QED BY <2>1, <3>1, Unseen DEF vars, NoReset
    <2>2. ASSUME NEW W, Poll(W) PROVE Orderly' /\ Delivering /\ NoReset
      BY <2>2, PollOrderly
    <2>3. CASE Timeout
      BY <2>3, TimeoutOrderly
    <2>4. CASE Visit
      BY <2>4, VisitOrderly
    <2>5. ASSUME NEW c \in Conns,
                 \/ Connect(c) \/ SendSegment(c) \/ Lengthen(c) \/ HalfClose(c) \/ HangUp(c)
                 \/ ScriptWrites(c) \/ ScriptExits(c)
          PROVE  Orderly' /\ Delivering /\ NoReset
      BY <2>5, EnvironmentOrderly
    <2> QED BY <2>1, <2>2, <2>3, <2>4, <2>5 DEF Next
  <1> QED BY <1>1, <1>2 DEF Calm, Tame

-----------------------------------------------------------------------------
(* The theorems. *)

\* The invariant: in order, or a culprit has been accepted.
Kept == Tame \/ \E c \in Conns : Culprit(c)

\* So order is kept up to the first culprit.
LEMMA KeptAlways == Spec => []Kept
  <1>1. Init => Kept
    BY InitTame DEF Kept
  <1>2. Consistent /\ Kept /\ [Next]_vars => Kept'
    <2> SUFFICES ASSUME Consistent, Kept, [Next]_vars PROVE Kept'
      OBVIOUS
    <2>1. CASE \E c \in Conns : Culprit(c)
      BY <2>1, NextConsistent DEF Kept, CulpritsKept
    <2>2. CASE Tame /\ \A c \in Conns : ~Culprit(c)
      BY <2>2, NextTame DEF Kept
    <2> QED BY <2>1, <2>2 DEF Kept
  <1> QED BY <1>1, <1>2, Consistency, PTL DEF Spec

\* Where only static requests come in and no peer resets, no culprit ever is.
LEMMA NoCulprits == ASSUME StaticOnly PROVE Spec => []((\A c \in Conns : ~peer[c].hung) /\ Tame)
  <1> DEFINE I == (\A c \in Conns : ~peer[c].hung) /\ Tame
  <1>1. Consistent /\ (\A c \in Conns : ~peer[c].hung) => \A c \in Conns : ~Culprit(c)
    <2> SUFFICES ASSUME Consistent, NEW c \in Conns, ~peer[c].hung
                 PROVE  ~Culprit(c)
      OBVIOUS
    <2>1. peer[c].kind \in StaticKinds
      BY CoreRecords DEF Consistent, StaticOnly, PeerRecords
    <2> QED BY <2>1 DEF Culprit, StaticKinds, CgiKinds, FatalKinds
  <1>2. Init => I
    <2>1. Init => \A c \in Conns : ~peer[c].hung
      BY DEF Init
    <2> QED BY <2>1, InitTame
  <1>3. Consistent /\ Consistent' /\ I /\ [Next]_vars => I'
    <2> SUFFICES ASSUME Consistent, Consistent', I, [Next]_vars PROVE I'
      OBVIOUS
    <2>1. NoReset /\ (Tame' \/ (\E c \in Conns : Culprit(c))')
      BY <1>1, NextTame
    <2>2. \A c \in Conns : ~peer'[c].hung
      BY <2>1 DEF NoReset, StaticOnly
    <2>3. (Consistent /\ (\A c \in Conns : ~peer[c].hung) => \A c \in Conns : ~Culprit(c))'
      <3> SUFFICES ASSUME NEW c \in Conns PROVE Culprit(c)' => FALSE
        OBVIOUS
      <3>1. peer'[c].kind \in StaticKinds
        BY DEF Consistent, CoreOK, StaticOnly, PeerRecords
      <3> QED BY <2>2, <3>1 DEF Culprit, StaticKinds, CgiKinds, FatalKinds
    <2> QED BY <2>1, <2>2, <2>3
  <1> QED BY <1>2, <1>3, Consistency, PTL DEF Spec

\* What being in order amounts to.
LEMMA TameIsRight ==
  ASSUME Consistent, Tame
  PROVE  ClosedAfterAnswer /\ Watched /\ SnapshotCurrent
  <1>1. ClosedAfterAnswer
    BY DEF ClosedAfterAnswer, Tame, Orderly, Stage
  <1>2. Watched
    <2> SUFFICES ASSUME NEW c \in Conns, Live(c)
                 PROVE  \E t \in DOMAIN pollfds :
                          /\ pollfds[t].fd = client[c].fd
                          /\ \A u \in DOMAIN pollfds : pollfds[u].fd = client[c].fd => u = t
                          /\ \/ pollfds[t].events = Mask(client[c].state)
                             \/ peer[c].kind = "surplus" /\ client[c].state = "Receiving"
      BY DEF Watched
    <2>1. PICK t \in DOMAIN pollfds : pollfds[t].fd = client[c].fd
      BY DEF Tame, Orderly, Registered
    <2>2. WaitsFor(pollfds[t].events, client[c], peer[c])
      BY <2>1 DEF Tame, Orderly, Registered
    <2>3. \A u \in DOMAIN pollfds : pollfds[u].fd = client[c].fd => u = t
      BY <2>1 DEF Tame, Quiet, OneEntryEach
    <2> QED BY <2>1, <2>2, <2>3 DEF WaitsFor
  <1>3. SnapshotCurrent
    <2> SUFFICES ASSUME NEW t \in DOMAIN todo
                 PROVE  /\ t \in DOMAIN pollfds
                        /\ pollfds[t] = [fd |-> todo[t].fd, events |-> todo[t].events]
                        /\ todo[t].revents \subseteq Revents(todo[t], Fillable)
      BY DEF SnapshotCurrent
    <2>1. Fresh(t) /\ StillTrue(t)
      BY DEF Tame, Quiet, Orderly
    <2>2. /\ t \in DOMAIN pollfds /\ pollfds[t].fd = todo[t].fd
          /\ pollfds[t].events = todo[t].events
      BY <2>1 DEF Fresh, StillTrue
    <2>3. pollfds[t] \in [fd : Fds, events : Events] /\ todo[t].fd \in Fds
      BY <2>2 DEF Consistent, CoreOK, IsTable
    <2>4. pollfds[t] = [fd |-> todo[t].fd, events |-> todo[t].events]
      BY <2>2, <2>3
    <2>5. CASE todo[t].fd = ListenFd
      <3>1. desc[todo[t].fd].type = "listen"
        BY <2>5 DEF Tame, Quiet, Listening, Listen
      <3>2. Revents(todo[t], Fillable)
              = IF \E d \in Conns : peer[d].phase = "pending" THEN {"IN"} ELSE {}
        BY <3>1 DEF Revents
      <3> QED BY <2>1, <2>2, <2>4, <2>5, <3>2 DEF StillTrue
    <2>6. CASE todo[t].fd # ListenFd
      <3>1. PICK c \in Conns : client[c].fd = todo[t].fd
        BY <2>2, <2>6 DEF Tame, Quiet, OneEntryEach
      <3>2. client[c].fd # NoFd
        BY <2>3, <3>1, FdsAssumption
      <3>3. desc[todo[t].fd] = Sock(c)
        BY <3>1, <3>2 DEF Consistent, CoreOK, OwnDescriptors, HoldsOwn
      <3>4. todo[t].events \in Events /\ todo[t].revents \subseteq {todo[t].events}
        BY <2>1, <2>2, <2>3, <2>6 DEF StillTrue
      <3>5. CASE todo[t].events = "IN"
        <4>1. peer[c].inbox > 0 \/ peer[c].eof
          BY <2>1, <3>1, <3>5 DEF Fresh
        <4>2. "IN" \in Revents(todo[t], Fillable)
          BY <3>3, <3>5, <4>1 DEF Revents, Sock
        <4> QED BY <2>2, <2>4, <3>4, <3>5, <4>2
      <3>6. CASE todo[t].events = "OUT"
        <4>1. Sock(c) \in Outlets
          BY <2>2, <3>3, <3>6 DEF Outlets
        <4>2. HasRoom(Sock(c), Fillable)
          BY <4>1 DEF HasRoom, Fillable, Sock
        <4>3. "OUT" \in Revents(todo[t], Fillable)
          BY <3>3, <3>6, <4>2 DEF Revents, Sock
        <4> QED BY <2>2, <2>4, <3>4, <3>6, <4>3
      <3> QED BY <3>4, <3>5, <3>6 DEF Events
    <2> QED BY <2>5, <2>6
  <1> QED BY <1>1, <1>2, <1>3

\* Until a culprit has been accepted, a connection is only closed after its answer,
\* every client has one entry in the poll table, for the events its state waits for,
\* and the copy of the table being walked is as true as when poll() returned.
THEOREM OrderlyUntilCulprit ==
  Spec => []((ClosedAfterAnswer /\ Watched /\ SnapshotCurrent) \/ \E c \in Conns : Culprit(c))
  <1>1. Consistent /\ Kept =>
          (ClosedAfterAnswer /\ Watched /\ SnapshotCurrent) \/ \E c \in Conns : Culprit(c)
    BY TameIsRight DEF Kept
  <1> QED BY <1>1, KeptAlways, Consistency, PTL

\* Where all requests are static and no peer resets, a connection the server closes
\* has been sent a response to its end (HTTPServer erases a client only when
\* HTTPResponse::send has written the last chunk).
THEOREM ClosedWhole == ASSUME StaticOnly PROVE Spec => []ClosedAfterAnswer
  <1>1. Consistent /\ (\A c \in Conns : ~peer[c].hung) /\ Tame => ClosedAfterAnswer
    BY TameIsRight
  <1> QED BY <1>1, NoCulprits, Consistency, PTL

\* Under the same hypothesis no wake-up is lost: each client is in the poll table
\* once, for the events the state handleExistingConnection left it in waits for.
THEOREM WakeUps == ASSUME StaticOnly PROVE Spec => []Watched
  <1>1. Consistent /\ (\A c \in Conns : ~peer[c].hung) /\ Tame => Watched
    BY TameIsRight
  <1> QED BY <1>1, NoCulprits, Consistency, PTL

\* Under the same hypothesis handleActivePollFDs may walk a copy of the table: an
\* entry not visited yet is unchanged in the table, and its revents still hold.
THEOREM SnapshotHolds == ASSUME StaticOnly PROVE Spec => []SnapshotCurrent
  <1>1. Consistent /\ (\A c \in Conns : ~peer[c].hung) /\ Tame => SnapshotCurrent
    BY TameIsRight
  <1> QED BY <1>1, NoCulprits, Consistency, PTL

\* Under the same hypothesis the loop implements Delivery: a connection is closed
\* by the step that completes its answer, by no other, and nothing follows.
THEOREM Refinement == ASSUME StaticOnly PROVE Spec => Delivers
  <1>1. Init => Promised!Init
    BY DEF Init, Promised!Init, SentOf
  <1>2. Consistent /\ (\A c \in Conns : ~peer[c].hung) /\ Tame /\ [Next]_vars
          => [Promised!Next]_(Promised!vars)
    <2> SUFFICES ASSUME Consistent, \A c \in Conns : ~peer[c].hung, Tame, [Next]_vars
                 PROVE  Delivering
      BY DEF Delivering
    <2>1. \A c \in Conns : ~Culprit(c)
      <3> SUFFICES ASSUME NEW c \in Conns PROVE ~Culprit(c)
        OBVIOUS
      <3>1. peer[c].kind \in StaticKinds
        BY CoreRecords DEF Consistent, StaticOnly, PeerRecords
      <3> QED BY <3>1 DEF Culprit, StaticKinds, CgiKinds, FatalKinds
    <2> QED BY <2>1, NextTame
  <1> QED BY <1>1, <1>2, NoCulprits, Consistency, PTL DEF Spec, Delivers, Promised!Spec
=============================================================================
