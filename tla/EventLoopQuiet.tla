---------------------------- MODULE EventLoopQuiet ----------------------------
(***************************************************************************)
(* What the server is like as long as no request came in that runs a script *)
(* or is one of the FatalKinds, and the theorem that it then keeps running. *)
(***************************************************************************)
EXTENDS EventLoopProofs

\* The states a client serving a static request is in.
StaticStates == {"Receiving", "Loading", "Sending", "Error", "Done"}

\* The listener is never closed.
Listening == desc[ListenFd] = Listen

\* Every entry of the poll table is the listener's or that of a client, and no
\* two are for the same descriptor.
OneEntryEach ==
  /\ \A t \in DOMAIN pollfds :
       pollfds[t].fd = ListenFd \/ \E c \in Conns : client[c].fd = pollfds[t].fd
  /\ \A t, u \in DOMAIN pollfds : pollfds[t].fd = pollfds[u].fd => t = u

\* An entry still to be visited is in the table, its descriptor was not broken,
\* and if it is to be read there is something to read.
Fresh(t) ==
  /\ t \in DOMAIN pollfds /\ pollfds[t].fd = todo[t].fd
  /\ ~Broken(todo[t])
  /\ todo[t].events = "IN" =>
       \A c \in Conns : client[c].fd = todo[t].fd => peer[c].inbox > 0 \/ peer[c].eof

\* No client runs a script.
NoScripts ==
  /\ activePipes = {}
  /\ \A c \in Conns : ~client[c].cgi /\ client[c].state \in StaticStates

Quiet ==
  /\ server # "running" => FreeFds = {}
  /\ Listening
  /\ OneEntryEach
  /\ \A t \in DOMAIN todo : Fresh(t)
  /\ NoScripts

Calm == Quiet \/ \E c \in Conns : Culprit(c)

-----------------------------------------------------------------------------
(* A handler that returns. *)

\* The entry a client is visited for is nobody else's, and not the listener's.
LEMMA VisitedAlone ==
  ASSUME Consistent, Quiet, NEW t, Visiting(t), NEW c \in Conns,
         client[c].fd = todo[t].fd
  PROVE  /\ t \in DOMAIN todo /\ todo[t].fd \in Fds /\ todo[t].fd # NoFd
         /\ server = "running"
         /\ desc[todo[t].fd] = Sock(c) /\ todo[t].fd # ListenFd
         /\ \A d \in Conns : client[d].fd = todo[t].fd => d = c
         /\ \A u \in DOMAIN todo : u # t => todo[u].fd # todo[t].fd
  <1>1. t \in DOMAIN todo /\ todo[t].fd \in Fds /\ server = "running"
    BY DEF Visiting, Consistent, IsSnapshot
  <1>2. todo[t].fd # NoFd
    BY <1>1, FdsAssumption
  <1>3. \A d \in Conns : client[d].fd = todo[t].fd => desc[todo[t].fd] = Sock(d)
    BY <1>2 DEF Consistent, CoreOK, OwnDescriptors, HoldsOwn
  <1>4. todo[t].fd # ListenFd
    BY <1>3, ObjectsDistinct DEF Quiet, Listening
  <1>5. \A u \in DOMAIN todo : u # t => todo[u].fd # todo[t].fd
    BY <1>1 DEF Quiet, Fresh, OneEntryEach
  <1> QED BY <1>1, <1>2, <1>3, <1>4, <1>5, ObjectsDistinct

\* Whether its connection is over or not, a client that runs no script leaves
\* the loop quiet.
LEMMA ReturnQuiet ==
  ASSUME Consistent, Quiet, NEW t, Visiting(t), NEW c \in Conns,
         client[c].fd = todo[t].fd,
         NEW next \in ClientRecords, next.fd = client[c].fd,
         ~next.cgi, next.state \in StaticStates,
         NEW pr \in PeerRecords, NEW ret,
         ReturnWith(todo[t], c, "client", next, pr, ret, pollfds, activePipes, desc)
  PROVE  Quiet'
  <1> DEFINE e  == todo[t]
             cs == [client EXCEPT ![c] = next]
             ps == [peer EXCEPT ![c] = pr]
  <1>1. /\ e.fd \in Fds /\ e.fd # NoFd /\ desc[e.fd] = Sock(c) /\ e.fd # ListenFd
        /\ \A d \in Conns : client[d].fd = e.fd => d = c
        /\ \A u \in DOMAIN todo : u # t => todo[u].fd # e.fd
        /\ server = "running"
    BY VisitedAlone
  <1>2. /\ client \in [Conns -> ClientRecords] /\ peer \in [Conns -> PeerRecords]
        /\ desc \in [Fds -> Objects] /\ IsTable(pollfds, tickets)
    BY DEF Consistent, CoreOK
  <1>3. todo' = [u \in DOMAIN todo \ {t} |-> todo[u]]
    BY DEF Visiting
  <1>4. AfterClient(e, cs, ps, ret, pollfds, activePipes, desc) /\ server' = server
    BY DEF ReturnWith
  <1>5. /\ \A d \in Conns : cs[d].fd = client[d].fd
        /\ \A d \in Conns \ {c} : cs[d] = client[d] /\ ps[d] = peer[d]
        /\ cs[c] = next
    BY <1>2
  <1>6. \A u \in DOMAIN todo' : /\ u \in DOMAIN todo /\ u # t /\ todo'[u] = todo[u]
                                /\ Fresh(u)
    BY <1>3 DEF Quiet
  <1> HIDE DEF cs, ps
  <1>7. CASE ret = "Done"
    <2>1. /\ pollfds' = Without(pollfds, e.fd) /\ activePipes' = activePipes
          /\ Erase(e.fd, cs, ps, desc)
      BY <1>4, <1>7 DEF AfterClient
    <2>2. /\ client'[c] = NoClient
          /\ \A d \in Conns \ {c} : client'[d] = client[d] /\ peer'[d] = peer[d]
      BY <1>1, <1>5, <2>1 DEF Erase
    <2>3. /\ DOMAIN pollfds' = {u \in DOMAIN pollfds : pollfds[u].fd # e.fd}
          /\ \A u \in DOMAIN pollfds' : pollfds'[u] = pollfds[u]
      BY <2>1 DEF Without
    <2>4. Listening'
      BY <1>1, <1>2, <2>1, FdsAssumption DEF Quiet, Listening, Erase
    <2>5. OneEntryEach'
      BY <1>1, <2>2, <2>3 DEF Quiet, OneEntryEach
    <2>6. ASSUME NEW u \in DOMAIN todo' PROVE Fresh(u)'
      <3>1. u \in DOMAIN todo /\ todo'[u] = todo[u] /\ todo[u].fd # e.fd /\ Fresh(u)
        BY <1>1, <1>6
      <3>2. u \in DOMAIN pollfds' /\ pollfds'[u].fd = todo'[u].fd
        BY <2>3, <3>1 DEF Fresh
      <3>3. ~Broken(todo'[u])
        BY <3>1 DEF Fresh
      <3>4. ASSUME todo'[u].events = "IN", NEW d \in Conns, client'[d].fd = todo'[u].fd
            PROVE  peer'[d].inbox > 0 \/ peer'[d].eof
        <4>1. todo[u].fd \in Fds
          BY <3>1 DEF Consistent, IsSnapshot
        <4>2. d # c
          BY <2>2, <3>1, <3>4, <4>1, FdsAssumption DEF NoClient
        <4> QED BY <2>2, <3>1, <3>4, <4>2 DEF Fresh
      <3> QED BY <3>2, <3>3, <3>4 DEF Fresh, Broken
    <2>7. NoScripts'
      BY <2>1, <2>2 DEF Quiet, NoScripts, NoClient, StaticStates
    <2> QED BY <1>1, <1>4, <2>4, <2>5, <2>6, <2>7 DEF Quiet
  <1>8. CASE ret # "Done"
    <2>1. /\ pollfds' = SetEvents(pollfds, e.fd, Mask(ret)) /\ activePipes' = activePipes
          /\ client' = cs /\ peer' = ps /\ desc' = desc
      BY <1>4, <1>8 DEF AfterClient
    <2>2. /\ DOMAIN pollfds' = DOMAIN pollfds
          /\ \A u \in DOMAIN pollfds : pollfds'[u].fd = pollfds[u].fd
      BY <2>1 DEF SetEvents
    <2>3. Listening'
      BY <2>1 DEF Quiet, Listening
    <2>4. OneEntryEach'
      BY <1>5, <2>1, <2>2 DEF Quiet, OneEntryEach
    <2>5. ASSUME NEW u \in DOMAIN todo' PROVE Fresh(u)'
      <3>1. u \in DOMAIN todo /\ todo'[u] = todo[u] /\ todo[u].fd # e.fd /\ Fresh(u)
        BY <1>1, <1>6
      <3>2. u \in DOMAIN pollfds' /\ pollfds'[u].fd = todo'[u].fd
        BY <2>2, <3>1 DEF Fresh
      <3>3. ~Broken(todo'[u])
        BY <3>1 DEF Fresh
      <3>4. ASSUME todo'[u].events = "IN", NEW d \in Conns, client'[d].fd = todo'[u].fd
            PROVE  peer'[d].inbox > 0 \/ peer'[d].eof
        <4>1. client[d].fd = todo[u].fd /\ d # c
          BY <1>5, <2>1, <3>1, <3>4
        <4> QED BY <1>5, <2>1, <3>1, <3>4, <4>1 DEF Fresh
      <3> QED BY <3>2, <3>3, <3>4 DEF Fresh, Broken
    <2>6. NoScripts'
      BY <1>5, <2>1 DEF Quiet, NoScripts
    <2> QED BY <1>1, <1>4, <2>3, <2>4, <2>5, <2>6 DEF Quiet
  <1> QED BY <1>7, <1>8

\* A ClientException of a static request is answered with an error page.
LEMMA FailQuiet ==
  ASSUME Consistent, Quiet, NEW t, Visiting(t), NEW c \in Conns,
         client[c].fd = todo[t].fd,
         NEW cl \in ClientRecords, cl.fd = client[c].fd, ~cl.cgi,
         NEW pr \in PeerRecords,
         Fail(todo[t], c, "client", cl, pr)
  PROVE  Quiet'
  <1>1. ~Fatal(cl)
    BY DEF Fatal
  <1>2. ASSUME NEW k \in Nat, NEW s \in {"Error", "Sending"}, NEW b \in BOOLEAN,
               Return(todo[t], c, "client",
                      [cl EXCEPT !.state = s, !.left = k, !.begun = FALSE, !.open = b], pr, s)
        PROVE  Quiet'
    <2> DEFINE next == [cl EXCEPT !.state = s, !.left = k, !.begun = FALSE, !.open = b]
    <2>1. /\ next \in ClientRecords /\ next.fd = client[c].fd
          /\ ~next.cgi /\ next.state \in StaticStates
      BY DEF ClientRecords, ClientStates, StaticStates
    <2>2. ReturnWith(todo[t], c, "client", next, pr, s, pollfds, activePipes, desc)
      BY <1>2 DEF Return
    <2> HIDE DEF next
    <2> QED BY <2>1, <2>2, ReturnQuiet
  <1>3. ASSUME cl.open,
               Return(todo[t], c, "client",
                      [cl EXCEPT !.state = "Error", !.left = 0, !.begun = FALSE], pr, "Error")
        PROVE  Quiet'
    <2>1. [cl EXCEPT !.state = "Error", !.left = 0, !.begun = FALSE]
            = [cl EXCEPT !.state = "Error", !.left = 0, !.begun = FALSE, !.open = TRUE]
      BY <1>3 DEF ClientRecords
    <2> QED BY <1>2, <1>3, <2>1
  <1>4. \A k \in Chunks : k \in Nat
    BY ChunksNat
  <1>5. cl.open =>
          Return(todo[t], c, "client",
                 [cl EXCEPT !.state = "Error", !.left = 0, !.begun = FALSE], pr, "Error")
    BY <1>1 DEF Fail
  <1>6. ~cl.open =>
          \E k \in Chunks, s \in {"Error", "Sending"} :
            Return(todo[t], c, "client",
                   [cl EXCEPT !.state = s, !.left = k, !.begun = FALSE,
                              !.open = (s = "Error")], pr, s)
    BY <1>1 DEF Fail
  <1> QED BY <1>2, <1>3, <1>4, <1>5, <1>6

-----------------------------------------------------------------------------
(* The branches a static request takes. *)

\* A client that is no culprit was accepted with one of StaticKinds, and its peer
\* has not reset the connection.
LEMMA NoCulprit ==
  ASSUME Consistent, NEW c \in Conns, client[c].fd # NoFd, ~Culprit(c)
  PROVE  /\ peer[c].kind \in StaticKinds /\ peer[c].kind \notin CgiKinds
         /\ peer[c].kind \notin FatalKinds /\ ~peer[c].hung
  <1>1. peer[c] \in PeerRecords /\ peer[c].phase = "open"
    BY DEF Consistent, CoreOK, Accepted
  <1>2. peer[c].kind \in AllKinds /\ peer[c].hung \in BOOLEAN
    BY <1>1, KindsAssumption DEF PeerRecords
  <1>3. peer[c].kind \notin CgiKinds \cup FatalKinds /\ ~peer[c].hung
    BY <1>1 DEF Culprit
  <1> QED BY <1>2, <1>3 DEF AllKinds

\* What every branch starts from.
LEMMA QuietClient ==
  ASSUME Consistent, Quiet, NEW t, Visiting(t), NEW c \in Conns,
         client[c].fd = todo[t].fd, ~Culprit(c)
  PROVE  /\ client[c] \in ClientRecords /\ peer[c] \in PeerRecords
         /\ ~client[c].cgi /\ client[c].state \in StaticStates
         /\ peer[c].kind \in StaticKinds /\ peer[c].kind \notin CgiKinds
         /\ peer[c].kind \notin FatalKinds /\ ~peer[c].hung
         /\ Fresh(t)
  <1>1. t \in DOMAIN todo /\ client[c].fd # NoFd
    BY VisitedAlone
  <1> QED BY <1>1, NoCulprit, CoreRecords DEF Consistent, Quiet, NoScripts

\* Reading a request: there is something to read, and a whole static request is
\* loaded or refused.
LEMMA ReceiveQuiet ==
  ASSUME Consistent, Quiet, NEW t, Visiting(t), NEW c \in Conns,
         client[c].fd = todo[t].fd, ~Culprit(c), Receive(todo[t], c, "client")
  PROVE  Quiet'
  <1> DEFINE e  == todo[t]
             p  == peer[c]
             r  == [p EXCEPT !.inbox = p.inbox - 1,
                             !.need = IF p.need = 0 THEN 0 ELSE p.need - 1]
             cl == [client[c] EXCEPT !.cgi = r.kind \in CgiKinds]
  <1>1. /\ client[c] \in ClientRecords /\ p \in PeerRecords
        /\ ~client[c].cgi /\ client[c].state = "Receiving"
        /\ p.kind \in StaticKinds /\ p.kind \notin CgiKinds
        /\ p.kind \notin {"malformed", "unrouted"} /\ ~p.hung
        /\ e.events = "IN" /\ Fresh(t)
    BY QuietClient DEF Receive, FatalKinds
  <1>2. p.inbox > 0 \/ p.eof
    BY <1>1 DEF Fresh
  <1>3. p.inbox \in Nat /\ p.need \in Nat
    BY <1>1 DEF PeerRecords
  <1>4. p.inbox > 0 => r \in PeerRecords /\ r.kind = p.kind
    <2>1. ASSUME NEW i \in Nat, NEW k \in Nat
          PROVE  LET q == [p EXCEPT !.inbox = i, !.need = k]
                 IN  q \in PeerRecords /\ q.kind = p.kind
      BY <1>1 DEF PeerRecords
    <2>2. p.inbox > 0 => p.inbox - 1 \in Nat
      BY <1>3
    <2>3. (IF p.need = 0 THEN 0 ELSE p.need - 1) \in Nat
      BY <1>3
    <2> QED BY <2>1, <2>2, <2>3
  <1>5. p.inbox > 0 =>
          /\ cl \in ClientRecords /\ cl.fd = client[c].fd
          /\ ~cl.cgi /\ cl.state = "Receiving"
    <2>1. p.inbox > 0 => (r.kind \in CgiKinds) = FALSE
      <3> HIDE DEF r
      <3> QED BY <1>1, <1>4
    <2>2. LET q == [client[c] EXCEPT !.cgi = FALSE]
          IN  /\ q \in ClientRecords /\ q.fd = client[c].fd
              /\ ~q.cgi /\ q.state = "Receiving"
      BY <1>1 DEF ClientRecords
    <2> HIDE DEF r
    <2> QED BY <2>1, <2>2, Zenon
  <1> HIDE DEF r, cl
  <1>6. \/ Return(e, c, "client", client[c], p, "Receiving")
        \/ p.inbox > 0 /\ Return(e, c, "client", cl, r, "Receiving")
        \/ p.inbox > 0 /\ Fail(e, c, "client", cl, r)
        \/ p.inbox > 0 /\ Return(e, c, "client", cl, r, "Loading")
        \/ /\ p.inbox > 0
           /\ \E n \in Chunks : Return(e, c, "client",
                                       [cl EXCEPT !.state = "Loading", !.left = n],
                                       r, "Loading")
    <2>1. \/ Return(e, c, "client", client[c], p, "Receiving")
          \/ p.inbox > 0 /\ \E seen \in {client[c].cgi, p.kind \in CgiKinds} :
               Return(e, c, "client", [client[c] EXCEPT !.cgi = seen], r, "Receiving")
          \/ p.inbox > 0 /\ Complete(e, c, "client", r)
      BY <1>1, <1>2, <1>3 DEF Receive, r
    <2>3. p.inbox > 0 => \A seen \in {client[c].cgi, p.kind \in CgiKinds} :
                           [client[c] EXCEPT !.cgi = seen] = cl
      BY <1>1, <1>4 DEF cl, ClientRecords
    <2>2. Complete(e, c, "client", r) =>
            \/ r.kind \in {"malformed", "unrouted"}
            \/ Fail(e, c, "client", cl, r)
            \/ Return(e, c, "client", cl, r, "Loading")
            \/ \E n \in Chunks : Return(e, c, "client",
                                        [cl EXCEPT !.state = "Loading", !.left = n],
                                        r, "Loading")
      BY DEF Complete, cl
    <2> QED BY <1>1, <1>4, <2>1, <2>2, <2>3
  <1>7. "Receiving" \in StaticStates /\ "Loading" \in StaticStates
    BY DEF StaticStates
  <1>8. CASE Return(e, c, "client", client[c], p, "Receiving")
    BY <1>1, <1>7, <1>8, ReturnQuiet DEF Return
  <1>9. CASE p.inbox > 0 /\ Return(e, c, "client", cl, r, "Receiving")
    BY <1>4, <1>5, <1>7, <1>9, ReturnQuiet DEF Return
  <1>10. CASE p.inbox > 0 /\ Fail(e, c, "client", cl, r)
    BY <1>4, <1>5, <1>10, FailQuiet
  <1>11. CASE p.inbox > 0 /\ Return(e, c, "client", cl, r, "Loading")
    BY <1>4, <1>5, <1>7, <1>11, ReturnQuiet DEF Return
  <1>12. ASSUME NEW n \in Chunks, p.inbox > 0,
                Return(e, c, "client", [cl EXCEPT !.state = "Loading", !.left = n],
                       r, "Loading")
         PROVE  Quiet'
    <2> DEFINE next == [cl EXCEPT !.state = "Loading", !.left = n]
    <2>1. /\ next \in ClientRecords /\ next.fd = client[c].fd
          /\ ~next.cgi /\ next.state = "Loading"
      BY <1>5, <1>12, ChunksNat DEF ClientRecords, ClientStates
    <2>2. ReturnWith(e, c, "client", next, r, "Loading", pollfds, activePipes, desc)
      BY <1>12 DEF Return
    <2> HIDE DEF next
    <2> QED BY <1>4, <1>7, <1>12, <2>1, <2>2, ReturnQuiet
  <1> QED BY <1>6, <1>8, <1>9, <1>10, <1>11, <1>12

\* A step that only moves its client among the static states.
LEMMA MoveQuiet ==
  ASSUME Consistent, Quiet, NEW t, Visiting(t), NEW c \in Conns,
         client[c].fd = todo[t].fd, ~Culprit(c),
         NEW s \in StaticStates, NEW k \in Nat, NEW o \in BOOLEAN, NEW b \in BOOLEAN,
         NEW pr \in PeerRecords, NEW ret,
         NEW next, next = [client[c] EXCEPT !.state = s, !.left = k, !.open = o,
                                            !.begun = b],
         ReturnWith(todo[t], c, "client", next, pr, ret, pollfds, activePipes, desc)
  PROVE  Quiet'
  <1>1. client[c] \in ClientRecords /\ ~client[c].cgi
    BY QuietClient
  <1>2. s \in ClientStates
    BY DEF StaticStates, ClientStates
  <1>3. /\ next \in ClientRecords /\ next.fd = client[c].fd
        /\ ~next.cgi /\ next.state \in StaticStates
    BY <1>1, <1>2 DEF ClientRecords
  <1> QED BY <1>3, ReturnQuiet

\* FileManager::manage and what it answers.
LEMMA LoadQuiet ==
  ASSUME Consistent, Quiet, NEW t, Visiting(t), NEW c \in Conns,
         client[c].fd = todo[t].fd, ~Culprit(c), Load(todo[t], c, "client")
  PROVE  Quiet'
  <1> DEFINE e  == todo[t]
             cl == client[c]
             p  == peer[c]
  <1>1. /\ cl \in ClientRecords /\ p \in PeerRecords
        /\ ~cl.cgi /\ cl.state = "Loading"
        /\ cl.left \in Nat /\ cl.open \in BOOLEAN /\ cl.begun \in BOOLEAN
        /\ p.kind # "unservable"
    BY QuietClient DEF Load, FindScript, ManageFile, ClientRecords, FatalKinds
  <1>2. \/ Fail(e, c, "client", cl, p)
        \/ Fail(e, c, "client", [cl EXCEPT !.open = TRUE], p)
        \/ Return(e, c, "client", [cl EXCEPT !.state = "Sending", !.left = 1,
                                             !.begun = FALSE], p, "Sending")
        \/ cl.left > 1
           /\ Return(e, c, "client", [cl EXCEPT !.left = cl.left - 1, !.open = TRUE],
                     p, "Loading")
        \/ \E n \in Chunks :
             Return(e, c, "client", [cl EXCEPT !.state = "Sending", !.left = n,
                                               !.open = TRUE], p, "Sending")
    BY <1>1, ZenonT(30) DEF Load, FindScript, ManageFile
  <1>3. ASSUME NEW s \in StaticStates, NEW k \in Nat, NEW o \in BOOLEAN, NEW b \in BOOLEAN,
               NEW next, next = [cl EXCEPT !.state = s, !.left = k, !.open = o, !.begun = b],
               NEW ret, Return(e, c, "client", next, p, ret)
        PROVE  Quiet'
    BY <1>1, <1>3, MoveQuiet DEF Return
  <1>4. /\ "Sending" \in StaticStates /\ "Loading" \in StaticStates
        /\ TRUE \in BOOLEAN /\ FALSE \in BOOLEAN
    BY DEF StaticStates
  <1>5. CASE Fail(e, c, "client", cl, p)
    BY <1>1, <1>5, FailQuiet
  <1>6. CASE Fail(e, c, "client", [cl EXCEPT !.open = TRUE], p)
    <2> DEFINE next == [cl EXCEPT !.open = TRUE]
    <2>1. next \in ClientRecords /\ next.fd = client[c].fd /\ ~next.cgi
      BY <1>1 DEF ClientRecords
    <2>2. Fail(e, c, "client", next, p)
      BY <1>6
    <2> HIDE DEF next
    <2> QED BY <1>1, <2>1, <2>2, FailQuiet
  <1>7. CASE Return(e, c, "client", [cl EXCEPT !.state = "Sending", !.left = 1,
                                               !.begun = FALSE], p, "Sending")
    <2> DEFINE next == [cl EXCEPT !.state = "Sending", !.left = 1, !.begun = FALSE]
    <2>1. next = [cl EXCEPT !.state = "Sending", !.left = 1, !.open = cl.open,
                            !.begun = FALSE]
      BY <1>1 DEF ClientRecords
    <2>2. Return(e, c, "client", next, p, "Sending")
      BY <1>7
    <2> HIDE DEF next
    <2> QED BY <1>1, <1>3, <1>4, <2>1, <2>2
  <1>8. CASE cl.left > 1
             /\ Return(e, c, "client", [cl EXCEPT !.left = cl.left - 1, !.open = TRUE],
                       p, "Loading")
    <2> DEFINE next == [cl EXCEPT !.left = cl.left - 1, !.open = TRUE]
    <2>1. next = [cl EXCEPT !.state = "Loading", !.left = cl.left - 1, !.open = TRUE,
                            !.begun = cl.begun]
      BY <1>1 DEF ClientRecords
    <2>2. Return(e, c, "client", next, p, "Loading") /\ cl.left - 1 \in Nat
      BY <1>1, <1>8
    <2> HIDE DEF next
    <2> QED BY <1>1, <1>3, <1>4, <2>1, <2>2
  <1>9. ASSUME NEW n \in Chunks,
               Return(e, c, "client", [cl EXCEPT !.state = "Sending", !.left = n,
                                                 !.open = TRUE], p, "Sending")
        PROVE  Quiet'
    <2> DEFINE next == [cl EXCEPT !.state = "Sending", !.left = n, !.open = TRUE]
    <2>1. next = [cl EXCEPT !.state = "Sending", !.left = n, !.open = TRUE,
                            !.begun = cl.begun]
      BY <1>1 DEF ClientRecords
    <2>2. Return(e, c, "client", next, p, "Sending") /\ n \in Nat
      BY <1>9, ChunksNat
    <2> HIDE DEF next
    <2> QED BY <1>1, <1>3, <1>4, <2>1, <2>2
  <1> QED BY <1>2, <1>5, <1>6, <1>7, <1>8, <1>9

\* FileManager::loadErrorPage.
LEMMA LoadErrorPageQuiet ==
  ASSUME Consistent, Quiet, NEW t, Visiting(t), NEW c \in Conns,
         client[c].fd = todo[t].fd, ~Culprit(c), LoadErrorPage(todo[t], c, "client")
  PROVE  Quiet'
  <1> DEFINE e  == todo[t]
             cl == client[c]
  <1>1. /\ cl \in ClientRecords /\ peer[c] \in PeerRecords /\ cl.state = "Error"
        /\ cl.left \in Nat /\ cl.open \in BOOLEAN /\ cl.begun \in BOOLEAN
    BY QuietClient DEF LoadErrorPage, ClientRecords
  <1>2. ASSUME NEW k \in Nat, NEW s \in {"Error", "Sending"},
               Return(e, c, "client", [cl EXCEPT !.state = s, !.left = k], peer[c], s)
        PROVE  Quiet'
    <2> DEFINE next == [cl EXCEPT !.state = s, !.left = k]
    <2>1. next = [cl EXCEPT !.state = s, !.left = k, !.open = cl.open, !.begun = cl.begun]
      BY <1>1 DEF ClientRecords
    <2>2. ReturnWith(e, c, "client", next, peer[c], s, pollfds, activePipes, desc)
      BY <1>2 DEF Return
    <2>3. s \in StaticStates
      BY DEF StaticStates
    <2> HIDE DEF next
    <2> QED BY <1>1, <2>1, <2>2, <2>3, MoveQuiet
  <1>3. (IF cl.left = 0 THEN 0 ELSE cl.left - 1) \in Nat
    BY <1>1
  <1>4. \A k \in Nat : [cl EXCEPT !.left = k] = [cl EXCEPT !.state = "Error", !.left = k]
    BY <1>1 DEF ClientRecords
  <1>5. 0 \in Nat /\ \A n \in Chunks : n \in Nat
    BY ChunksNat
  <1>6. \/ Return(e, c, "client", [cl EXCEPT !.state = "Sending", !.left = 0],
                  peer[c], "Sending")
        \/ \E n \in Chunks :
             Return(e, c, "client", [cl EXCEPT !.state = "Sending", !.left = n],
                    peer[c], "Sending")
        \/ Return(e, c, "client",
                  [cl EXCEPT !.left = IF cl.left = 0 THEN 0 ELSE cl.left - 1],
                  peer[c], "Error")
    BY ZenonT(30) DEF LoadErrorPage
  <1> HIDE DEF cl
  <1> QED BY <1>2, <1>3, <1>4, <1>5, <1>6

\* Sending to a peer that is still there.
LEMMA SendQuiet ==
  ASSUME Consistent, Quiet, NEW t, Visiting(t), NEW c \in Conns,
         client[c].fd = todo[t].fd, ~Culprit(c),
         SendResponse(todo[t], c, "client", client[c], pollfds, activePipes)
  PROVE  Quiet'
  <1> DEFINE cl   == client[c]
             p    == peer[c]
             ret  == IF Written(cl) THEN "Done" ELSE "Sending"
             k    == IF cl.left = 0 THEN 0 ELSE cl.left - 1
             b    == ret = "Sending"
             next == [cl EXCEPT !.state = ret, !.begun = b, !.left = k]
             got  == IF cl.left = 0 THEN p.got ELSE GotAfter(cl, p)
             pr   == [p EXCEPT !.got = got]
  <1>1. /\ cl \in ClientRecords /\ p \in PeerRecords /\ ~p.hung
        /\ cl.left \in Nat /\ cl.open \in BOOLEAN
    BY QuietClient DEF ClientRecords
  <1>2. ReturnWith(todo[t], c, "client", next, pr, ret, pollfds, activePipes, desc)
    BY <1>1 DEF SendResponse
  <1>3. got \in {"nothing", "partial", "answer", "spliced"}
    BY <1>1, GotType DEF PeerRecords
  <1>4. pr \in PeerRecords
    <2> HIDE DEF got
    <2> QED BY <1>1, <1>3 DEF PeerRecords
  <1>5. k \in Nat /\ b \in BOOLEAN /\ ret \in StaticStates
    BY <1>1 DEF StaticStates
  <1> HIDE DEF ret, k, b, got, pr
  <1>6. next = [cl EXCEPT !.state = ret, !.left = k, !.open = cl.open, !.begun = b]
    BY <1>1 DEF ClientRecords
  <1> HIDE DEF next
  <1> QED BY <1>1, <1>2, <1>4, <1>5, <1>6, MoveQuiet

\* Whatever the branch, a client that is no culprit leaves the loop quiet.
LEMMA HandleConnectionQuiet ==
  ASSUME Consistent, Quiet, NEW t, Visiting(t), NEW c \in Conns,
         client[c].fd = todo[t].fd, ~Culprit(c),
         HandleConnection(todo[t], c, "client")
  PROVE  Quiet'
  <1>1. /\ client[c] \in ClientRecords /\ peer[c] \in PeerRecords
        /\ ~client[c].cgi /\ client[c].state \in StaticStates
    BY QuietClient
  <1>2. CASE Receive(todo[t], c, "client")
    BY <1>2, ReceiveQuiet
  <1>3. CASE Load(todo[t], c, "client")
    BY <1>3, LoadQuiet
  <1>4. CASE LoadErrorPage(todo[t], c, "client")
    BY <1>4, LoadErrorPageQuiet
  <1>5. CASE SendResponse(todo[t], c, "client", client[c], pollfds, activePipes)
    BY <1>5, SendQuiet
  <1>6. CASE BadRequest(todo[t], c, "client")
    BY <1>1, <1>6, FailQuiet DEF BadRequest
  <1>7. /\ ~StartScript(todo[t], c, "client")
        /\ ~SendBody(todo[t], c, "client")
        /\ ~ReceiveOutput(todo[t], c, "client")
    BY <1>1 DEF StartScript, SendBody, ReceiveOutput, StaticStates
  <1> QED BY <1>2, <1>3, <1>4, <1>5, <1>6, <1>7 DEF HandleConnection

-----------------------------------------------------------------------------
(* One step of a quiet loop. *)

\* A connection is accepted, for whatever request, or no number is left.
LEMMA ListenerQuiet ==
  ASSUME Consistent, Quiet, NEW t, VisitListener(t)
  PROVE  Quiet'
  <1>1. /\ Visiting(t) /\ t \in DOMAIN todo /\ server = "running"
        /\ todo' = [u \in DOMAIN todo \ {t} |-> todo[u]]
    BY DEF VisitListener, Visiting
  <1>2. \A u \in DOMAIN todo' : u \in DOMAIN todo /\ todo'[u] = todo[u] /\ Fresh(u)
    BY <1>1 DEF Quiet
  <1>3. CASE FreeFds = {} /\ Stop("failed")
    <2>1. /\ UNCHANGED <<pollfds, activePipes, client, desc, peer>> /\ FreeFds = {}
      BY <1>3 DEF Stop
    <2>2. FreeFds' = {}
      BY <2>1 DEF FreeFds
    <2>3. \A u \in DOMAIN todo' : Fresh(u)'
      BY <1>2, <2>1 DEF Fresh, Broken
    <2> QED BY <2>1, <2>2, <2>3 DEF Quiet, Listening, OneEntryEach, NoScripts
  <1>4. ASSUME NEW c \in Conns, NEW f \in Candidates(FreeFds),
               NEW r \in Residue \cup {NoFd}, NEW w \in Residue \cup {NoFd},
               peer[c].phase = "pending",
               client' = [client EXCEPT ![c] = NewClient(f, r, w)],
               desc' = [desc EXCEPT ![f] = Sock(c)],
               peer' = [peer EXCEPT ![c].phase = "open"],
               pollfds' = Add(pollfds, tickets, f, "IN"),
               tickets' = tickets + 1,
               UNCHANGED <<server, activePipes, child>>
        PROVE  Quiet'
    <2>1. f \in Fds /\ desc[f] = Free
      <3>1. FreeFds \in SUBSET Fds
        BY DEF FreeFds
      <3> QED BY <3>1, CandidatesAssumption DEF FreeFds
    <2>2. /\ client \in [Conns -> ClientRecords] /\ peer \in [Conns -> PeerRecords]
          /\ desc \in [Fds -> Objects] /\ tickets \in Nat /\ IsTable(pollfds, tickets)
          /\ \A d \in Conns : HoldsOwn(d, client[d], desc)
          /\ \A d \in Conns : client[d].fd # NoFd => peer[d].phase = "open"
          /\ \A u \in DOMAIN todo : todo[u].fd \in Fds
      BY DEF Consistent, CoreOK, OwnDescriptors, Accepted, IsSnapshot
    <2>3. client[c].fd = NoFd /\ f # NoFd
      BY <1>4, <2>1, <2>2, FdsAssumption
    <2>4. \A d \in Conns : client[d].fd # f
      BY <2>1, <2>2, <2>3, ObjectsDistinct DEF HoldsOwn
    <2>5. f # ListenFd
      BY <2>1 DEF Quiet, Listening, Free, Listen
    <2> DEFINE new == NewClient(f, r, w)
    <2>6. new.fd = f /\ ~new.cgi /\ new.state = "Receiving"
      BY DEF NewClient, NoClient
    <2>7. client' = [client EXCEPT ![c] = new]
      BY <1>4
    <2> HIDE DEF new
    <2>8. /\ client'[c] = new
          /\ \A d \in Conns \ {c} : client'[d] = client[d] /\ peer'[d] = peer[d]
      BY <1>4, <2>2, <2>7
    <2>9. /\ DOMAIN pollfds \subseteq 0 .. tickets - 1
          /\ DOMAIN pollfds' = DOMAIN pollfds \cup {tickets}
          /\ pollfds'[tickets].fd = f
          /\ \A u \in DOMAIN pollfds : pollfds'[u] = pollfds[u]
      <3>1. DOMAIN pollfds \subseteq 0 .. tickets - 1 /\ tickets \notin DOMAIN pollfds
        BY <2>2 DEF IsTable
      <3> QED BY <1>4, <3>1 DEF Add
    <2>10. Listening'
      BY <1>4, <2>2, <2>5, FdsAssumption DEF Quiet, Listening
    <2>11. \A u \in DOMAIN pollfds : pollfds[u].fd # f /\ pollfds[u].fd # NoFd
      BY <2>2, <2>4, <2>5, FdsAssumption DEF Quiet, OneEntryEach, IsTable
    <2>12. OneEntryEach'
      <3>1. \A u \in DOMAIN pollfds' :
              pollfds'[u].fd = ListenFd \/ \E d \in Conns : client'[d].fd = pollfds'[u].fd
        <4> SUFFICES ASSUME NEW u \in DOMAIN pollfds, pollfds[u].fd # ListenFd
                     PROVE  \E d \in Conns : client'[d].fd = pollfds[u].fd
          BY <2>6, <2>8, <2>9
        <4>1. PICK d \in Conns : client[d].fd = pollfds[u].fd
          BY DEF Quiet, OneEntryEach
        <4> QED BY <2>3, <2>8, <2>11, <4>1
      <3>2. \A u, v \in DOMAIN pollfds' : pollfds'[u].fd = pollfds'[v].fd => u = v
        BY <2>9, <2>11 DEF Quiet, OneEntryEach
      <3> QED BY <3>1, <3>2 DEF OneEntryEach
    <2>13. ASSUME NEW u \in DOMAIN todo' PROVE Fresh(u)'
      <3>1. u \in DOMAIN todo /\ todo'[u] = todo[u] /\ Fresh(u)
        BY <1>2
      <3>2. u \in DOMAIN pollfds' /\ pollfds'[u].fd = todo'[u].fd /\ todo[u].fd # f
        BY <2>9, <2>11, <3>1 DEF Fresh
      <3>3. ~Broken(todo'[u])
        BY <3>1 DEF Fresh
      <3>4. ASSUME todo'[u].events = "IN", NEW d \in Conns, client'[d].fd = todo'[u].fd
            PROVE  peer'[d].inbox > 0 \/ peer'[d].eof
        <4>1. d # c
          BY <2>6, <2>8, <3>1, <3>2, <3>4
        <4> QED BY <2>8, <3>1, <3>4, <4>1 DEF Fresh
      <3> QED BY <3>2, <3>3, <3>4 DEF Fresh, Broken
    <2>14. NoScripts'
      BY <1>4, <2>6, <2>8 DEF Quiet, NoScripts, StaticStates
    <2> QED BY <1>1, <1>4, <2>10, <2>12, <2>13, <2>14 DEF Quiet
  <1> QED BY <1>3, <1>4 DEF VisitListener

\* A visit, when no connection accepted so far is a culprit.
LEMMA VisitQuiet ==
  ASSUME Consistent, Quiet, \A c \in Conns : ~Culprit(c), Visit
  PROVE  Quiet'
  <1>1. PICK t \in DOMAIN todo :
          \/ VisitUnownedHangUp(t) \/ VisitScriptHangUp(t) \/ VisitBroken(t)
          \/ VisitListener(t) \/ VisitClient(t) \/ VisitPipe(t) \/ VisitUnknown(t)
    BY DEF Visit
  <1>2. Fresh(t) /\ activePipes = {}
    BY DEF Quiet, NoScripts
  <1>3. "HUP" \notin todo[t].revents /\ ~Broken(todo[t])
    BY <1>2 DEF Fresh, Broken
  <1>4. todo[t].fd = ListenFd \/ \E c \in Conns : client[c].fd = todo[t].fd
    BY <1>2 DEF Quiet, Fresh, OneEntryEach
  <1>5. VisitListener(t) \/ VisitClient(t)
    BY <1>1, <1>2, <1>3, <1>4
       DEF VisitUnownedHangUp, VisitScriptHangUp, VisitBroken, VisitPipe, VisitUnknown
  <1>6. CASE VisitListener(t)
    BY <1>6, ListenerQuiet
  <1>7. CASE VisitClient(t)
    BY <1>7, HandleConnectionQuiet DEF VisitClient
  <1> QED BY <1>5, <1>6, <1>7

\* poll() reports of the listener that a connection waits, of a peer that it sent
\* something or has room.
LEMMA PollQuiet ==
  ASSUME Consistent, Quiet, \A c \in Conns : ~Culprit(c), NEW W, Poll(W)
  PROVE  Quiet'
  <1>1. /\ UNCHANGED <<server, pollfds, tickets, activePipes, client, desc, peer, child>>
        /\ todo' = [t \in Ready(W) |->
                      [fd |-> pollfds[t].fd, events |-> pollfds[t].events,
                       revents |-> Revents(pollfds[t], W)]]
    BY DEF Poll
  <1>2. ASSUME NEW t \in DOMAIN todo' PROVE Fresh(t)'
    <2>1. /\ t \in DOMAIN pollfds /\ Revents(pollfds[t], W) # {}
          /\ pollfds[t].fd \in Fds /\ pollfds[t].events \in Events
          /\ todo'[t].fd = pollfds[t].fd /\ todo'[t].events = pollfds[t].events
          /\ todo'[t].revents = Revents(pollfds[t], W)
      BY <1>1 DEF Ready, Consistent, CoreOK, IsTable
    <2>2. ASSUME NEW c \in Conns, client[c].fd = pollfds[t].fd
          PROVE  /\ Revents(pollfds[t], W) \subseteq {"IN", "OUT"}
                 /\ pollfds[t].events = "IN" => peer[c].inbox > 0 \/ peer[c].eof
      <3>1. client[c].fd # NoFd
        BY <2>1, <2>2, FdsAssumption
      <3>2. desc[pollfds[t].fd] = Sock(c) /\ ~peer[c].hung
        BY <2>2, <3>1, NoCulprit DEF Consistent, CoreOK, OwnDescriptors, HoldsOwn
      <3>3. Revents(pollfds[t], W)
              = (IF pollfds[t].events = "IN" /\ (peer[c].inbox > 0 \/ peer[c].eof)
                 THEN {"IN"} ELSE {})
                \cup (IF pollfds[t].events = "OUT" /\ HasRoom(Sock(c), W) THEN {"OUT"} ELSE {})
        BY <3>2 DEF Revents, Sock
      <3> QED BY <2>1, <3>3 DEF Events
    <2>3. Revents(pollfds[t], W) \subseteq {"IN", "OUT"}
      <3>1. CASE pollfds[t].fd = ListenFd
        BY <3>1 DEF Revents, Quiet, Listening, Listen
      <3>2. CASE pollfds[t].fd # ListenFd
        BY <2>1, <2>2, <3>2 DEF Quiet, OneEntryEach
      <3> QED BY <3>1, <3>2
    <2>4. ~Broken(todo'[t])
      BY <2>1, <2>3 DEF Broken
    <2>5. \A c \in Conns : client'[c].fd = todo'[t].fd /\ todo'[t].events = "IN"
                           => peer'[c].inbox > 0 \/ peer'[c].eof
      BY <1>1, <2>1, <2>2
    <2> QED BY <1>1, <2>1, <2>4, <2>5 DEF Fresh, Broken
  <1>3. FreeFds' = FreeFds
    BY <1>1 DEF FreeFds
  <1> QED BY <1>1, <1>2, <1>3 DEF Quiet, Listening, OneEntryEach, NoScripts

\* The timeout changes what entries wait for and moves clients to Sending.
LEMMA TimeoutQuiet ==
  ASSUME Consistent, Quiet, Timeout
  PROVE  Quiet'
  <1>1. /\ pollfds' = TimedOut
        /\ client' = [c \in Conns |->
             IF Live(c) THEN [client[c] EXCEPT !.state = "Sending", !.left = 1, !.begun = FALSE]
             ELSE client[c]]
        /\ UNCHANGED <<server, todo, tickets, activePipes, desc, peer, child>>
        /\ DOMAIN todo = {}
    BY DEF Timeout
  <1>2. \A c \in Conns : /\ client'[c].fd = client[c].fd
                         /\ ~client'[c].cgi /\ client'[c].state \in StaticStates
    <2> TAKE c \in Conns
    <2>1. client[c] \in ClientRecords /\ ~client[c].cgi /\ client[c].state \in StaticStates
      BY CoreRecords DEF Consistent, Quiet, NoScripts
    <2>2. LET next == [client[c] EXCEPT !.state = "Sending", !.left = 1, !.begun = FALSE]
          IN  next.fd = client[c].fd /\ ~next.cgi /\ next.state = "Sending"
      BY <2>1 DEF ClientRecords
    <2> QED BY <1>1, <2>1, <2>2 DEF StaticStates
  <1>3. /\ DOMAIN pollfds' = DOMAIN pollfds
        /\ \A u \in DOMAIN pollfds : pollfds'[u].fd = pollfds[u].fd
    BY <1>1 DEF TimedOut
  <1>4. OneEntryEach'
    BY <1>2, <1>3 DEF Quiet, OneEntryEach
  <1>5. NoScripts'
    BY <1>1, <1>2 DEF Quiet, NoScripts
  <1>6. FreeFds' = FreeFds
    BY <1>1 DEF FreeFds
  <1> QED BY <1>1, <1>4, <1>5, <1>6 DEF Quiet, Listening

\* A peer that sends more leaves what is fresh fresh.
LEMMA PeerQuiet ==
  ASSUME Consistent, Quiet, NEW c \in Conns, NEW p, PeerStep(c, p),
         peer[c].inbox > 0 => p.inbox > 0, peer[c].eof => p.eof
  PROVE  Quiet'
  <1>1. peer' = [peer EXCEPT ![c] = p] /\ peer \in [Conns -> PeerRecords]
        /\ UNCHANGED <<server, pollfds, todo, activePipes, client, desc>>
    BY DEF PeerStep, loop, Consistent, CoreOK
  <1>2. FreeFds' = FreeFds
    BY <1>1 DEF FreeFds
  <1>3. ASSUME NEW t \in DOMAIN todo' PROVE Fresh(t)'
    BY <1>1 DEF Quiet, Fresh, Broken
  <1> QED BY <1>1, <1>2, <1>3 DEF Quiet, Listening, OneEntryEach, NoScripts

\* The environment leaves a quiet loop quiet.
LEMMA EnvironmentQuiet ==
  ASSUME Consistent, Quiet, NEW c \in Conns,
         \/ Connect(c) \/ SendSegment(c) \/ Lengthen(c) \/ HalfClose(c) \/ HangUp(c)
         \/ ScriptWrites(c) \/ ScriptExits(c)
  PROVE  Quiet'
  <1>1. peer[c] \in PeerRecords
    BY CoreRecords DEF Consistent
  <1>2. CASE Connect(c)
    <2> DEFINE p == [peer[c] EXCEPT !.phase = "pending"]
    <2>1. PeerStep(c, p) /\ p.inbox = peer[c].inbox /\ p.eof = peer[c].eof
      BY <1>1, <1>2 DEF Connect, PeerRecords
    <2> HIDE DEF p
    <2> QED BY <2>1, PeerQuiet
  <1>3. CASE SendSegment(c)
    <2> DEFINE p == [peer[c] EXCEPT !.unsent = peer[c].unsent - 1,
                                    !.inbox = peer[c].inbox + 1]
    <2>1. PeerStep(c, p)
      BY <1>3 DEF SendSegment
    <2>2. p.eof = peer[c].eof /\ (peer[c].inbox > 0 => p.inbox > 0)
      BY <1>1 DEF PeerRecords
    <2> HIDE DEF p
    <2> QED BY <2>1, <2>2, PeerQuiet
  <1>4. CASE HalfClose(c)
    <2> DEFINE p == [peer[c] EXCEPT !.eof = TRUE]
    <2>1. PeerStep(c, p) /\ p.inbox = peer[c].inbox /\ p.eof
      BY <1>1, <1>4 DEF HalfClose, PeerRecords
    <2> HIDE DEF p
    <2> QED BY <2>1, PeerQuiet
  <1>5. CASE HangUp(c)
    <2> DEFINE p == [peer[c] EXCEPT !.hung = TRUE]
    <2>1. PeerStep(c, p) /\ p.inbox = peer[c].inbox /\ p.eof = peer[c].eof
      BY <1>1, <1>5 DEF HangUp, PeerRecords
    <2> HIDE DEF p
    <2> QED BY <2>1, PeerQuiet
  <1>6. CASE ScriptWrites(c) \/ ScriptExits(c)
    <2>1. UNCHANGED <<server, pollfds, todo, activePipes, client, desc, peer>>
      BY <1>6 DEF ScriptWrites, ScriptExits, ScriptStep, loop
    <2> QED
      BY <2>1 DEF Quiet, Listening, OneEntryEach, Fresh, Broken, NoScripts, FreeFds
  <1>7. CASE Lengthen(c)
    <2> DEFINE p == [peer[c] EXCEPT !.need = peer[c].need + 1,
                                    !.unsent = peer[c].unsent + 1]
    <2>1. PeerStep(c, p) /\ p.inbox = peer[c].inbox /\ p.eof = peer[c].eof
      BY <1>1, <1>7 DEF Lengthen, PeerRecords
    <2> HIDE DEF p
    <2> QED BY <2>1, PeerQuiet
  <1> QED BY <1>2, <1>3, <1>4, <1>5, <1>6, <1>7

-----------------------------------------------------------------------------
(* The theorem. *)

\* A server that has just begun to listen is calm.
LEMMA InitCalm == Init => Calm
  <1> SUFFICES ASSUME Init PROVE Quiet
    BY DEF Calm
  <1>1. /\ server = "running" /\ activePipes = {} /\ DOMAIN todo = {}
        /\ pollfds = [t \in {0} |-> [fd |-> ListenFd, events |-> "IN"]]
        /\ client = [c \in Conns |-> NoClient]
        /\ desc = [f \in Fds |-> IF f = ListenFd THEN Listen ELSE Free]
    BY DEF Init
  <1>2. Listening
    BY <1>1, FdsAssumption DEF Listening
  <1>3. OneEntryEach
    BY <1>1 DEF OneEntryEach
  <1>4. NoScripts
    BY <1>1 DEF NoScripts, NoClient, StaticStates
  <1> QED BY <1>1, <1>2, <1>3, <1>4 DEF Quiet

\* Every step of a calm server leaves it calm, or a culprit has come in.
LEMMA NextCalm == Consistent /\ Calm /\ [Next]_vars => Calm'
  <1> SUFFICES ASSUME Consistent, Calm, [Next]_vars PROVE Calm'
    OBVIOUS
  <1>1. CASE \E c \in Conns : Culprit(c)
    BY <1>1, NextConsistent DEF Calm, CulpritsKept
  <1>2. CASE Quiet /\ \A c \in Conns : ~Culprit(c)
    <2>1. CASE UNCHANGED vars
      BY <1>2, <2>1 DEF vars, Calm, Quiet, Listening, OneEntryEach, Fresh, Broken,
                        NoScripts, FreeFds
    <2>2. ASSUME NEW W, Poll(W) PROVE Quiet'
      BY <1>2, <2>2, PollQuiet
    <2>3. CASE Timeout
      BY <1>2, <2>3, TimeoutQuiet DEF Calm
    <2>4. CASE Visit
      BY <1>2, <2>4, VisitQuiet DEF Calm
    <2>5. ASSUME NEW c \in Conns,
                 \/ Connect(c) \/ SendSegment(c) \/ Lengthen(c) \/ HalfClose(c) \/ HangUp(c)
                 \/ ScriptWrites(c) \/ ScriptExits(c)
          PROVE  Quiet'
      BY <1>2, <2>5, EnvironmentQuiet
    <2> QED BY <2>1, <2>2, <2>3, <2>4, <2>5 DEF Next, Calm
  <1> QED BY <1>1, <1>2 DEF Calm

\* Requests served, refused or answered with an error page cannot end the server
\* between them: in every reachable state in which it has stopped, it has accepted a
\* CGI request or one of the FatalKinds (malformed, of no location, or for what
\* cannot be served), or a peer reset its connection, or no descriptor was left.
THEOREM RunsOn == Spec => []StoppedByCulprit
  <1>1. Spec => []Calm
    <2>1. Consistent /\ Calm /\ [Next]_vars => Calm'
      BY NextCalm
    <2> QED BY InitCalm, <2>1, Consistency, PTL DEF Spec
  <1>2. Calm => StoppedByCulprit
    BY DEF Calm, Quiet, StoppedByCulprit
  <1> QED BY <1>1, <1>2, PTL
=============================================================================
