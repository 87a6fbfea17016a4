--------------------------- MODULE EventLoopProofs ---------------------------
(***************************************************************************)
(* Theorems about EventLoop, for any number of connections and descriptors. *)
(***************************************************************************)
EXTENDS EventLoop, TLAPS

\* Only a connection that has been accepted has a client.
Accepted == \A c \in Conns : client[c].fd # NoFd => peer[c].phase = "open"

\* A peer that may have sent or received more.
SamePeer(p, q) == p.kind = q.kind /\ p.phase = q.phase /\ p.hung = q.hung

\* A step forgets no culprit: a connection accepted stays so, a reset is final.
CulpritsKept == \A c \in Conns : Culprit(c) => Culprit(c)'

\* A peer is the same as itself.
LEMMA SamePeerSelf == \A p : SamePeer(p, p)
  BY DEF SamePeer

\* The typed state without the snapshot, and the ownership of descriptors: what
\* every operation of the loop keeps.
CoreOK ==
  /\ server \in {"running", "failed", "aborted", "killed"}
  /\ tickets \in Nat
  /\ IsTable(pollfds, tickets)
  /\ activePipes \subseteq Fds
  /\ client \in [Conns -> ClientRecords]
  /\ desc \in [Fds -> Objects]
  /\ peer \in [Conns -> PeerRecords]
  /\ child \in [Conns -> ChildRecords]
  /\ OwnDescriptors
  /\ Accepted

-----------------------------------------------------------------------------
(* The poll table. *)

\* addPollFD keeps a table a table, one ticket longer.
LEMMA AddType ==
  ASSUME NEW table, NEW n \in Nat, NEW f \in Fds, NEW events \in Events,
         IsTable(table, n)
  PROVE  IsTable(Add(table, n, f, events), n + 1)
  BY DEF IsTable, Add

\* setEvents keeps a table a table.
LEMMA SetEventsType ==
  ASSUME NEW table, NEW n \in Nat, NEW f, NEW events \in Events, IsTable(table, n)
  PROVE  IsTable(SetEvents(table, f, events), n)
  BY DEF IsTable, SetEvents

\* removeFD keeps a table a table.
LEMMA WithoutType ==
  ASSUME NEW table, NEW n \in Nat, NEW f, IsTable(table, n)
  PROVE  IsTable(Without(table, f), n)
  BY DEF IsTable, Without

-----------------------------------------------------------------------------
(* What follows a handler. *)

\* Erasing the client registered under a number keeps the types.
LEMMA EraseType ==
  ASSUME NEW f \in Fds, NEW cs \in [Conns -> ClientRecords],
         NEW ps \in [Conns -> PeerRecords], NEW objs \in [Fds -> Objects],
         NoClient \in ClientRecords, Erase(f, cs, ps, objs)
  PROVE  /\ client' \in [Conns -> ClientRecords]
         /\ peer' \in [Conns -> PeerRecords]
         /\ desc' \in [Fds -> Objects]
  <1>1. client' \in [Conns -> ClientRecords]
    BY DEF Erase
  <1>2. peer' \in [Conns -> PeerRecords]
    <2>1. \A c \in Conns : [ps[c] EXCEPT !.phase = "closed"] \in PeerRecords
      BY DEF PeerRecords
    <2> QED BY <2>1 DEF Erase
  <1>3. desc' \in [Fds -> Objects]
    BY DEF Erase, Objects
  <1> QED BY <1>1, <1>2, <1>3

\* Every client record of NoClient's shape is a client record.
LEMMA NoClientType == NoClient \in ClientRecords
  BY DEF NoClient, ClientRecords, ClientStates

\* Objects are told apart by their type and their connection.
LEMMA ObjectsDistinct ==
  \A c, d : /\ Sock(c) # Free /\ Rd(c) # Free /\ Wr(c) # Free
            /\ Sock(c) # Rd(d) /\ Sock(c) # Wr(d) /\ Rd(c) # Wr(d)
            /\ Sock(c) = Sock(d) => c = d
            /\ Sock(c) # Listen
  BY DEF Sock, Rd, Wr, Free, Listen

\* Erasing a client closes its own socket and leaves the others' descriptors.
LEMMA EraseOwn ==
  ASSUME NEW f \in Fds, NEW cs \in [Conns -> ClientRecords], NEW ps,
         NEW objs \in [Fds -> Objects],
         \A c \in Conns : HoldsOwn(c, cs[c], objs),
         \A g \in Fds, c \in Conns : objs[g] = Sock(c) => cs[c].fd = g,
         Erase(f, cs, ps, objs)
  PROVE  OwnDescriptors'
  <1> NoFd \notin Fds
    BY FdsAssumption
  <1>1. \A c \in Conns : HoldsOwn(c, client'[c], desc')
    <2> SUFFICES ASSUME NEW c \in Conns, client'[c].fd # NoFd
                 PROVE  HoldsOwn(c, client'[c], desc')
      BY DEF HoldsOwn
    <2>1. client'[c] = cs[c] /\ cs[c].fd # f
      BY DEF Erase, NoClient
    <2>2. HoldsOwn(c, cs[c], objs) /\ cs[c].fd # NoFd
      BY <2>1
    <2>3. ASSUME NEW g \in Fds, objs[g] \in {Sock(c), Rd(c), Wr(c)},
                 objs[g] = Sock(c) => g = cs[c].fd
          PROVE  desc'[g] = objs[g]
      <3> SUFFICES ASSUME g = f, NEW d \in Conns, cs[d].fd = f
                   PROVE  FALSE
        BY DEF Erase
      <3>1. objs[f] = Sock(d)
        BY FdsAssumption DEF HoldsOwn
      <3> QED BY <3>1, <2>1, <2>3, ObjectsDistinct
    <2>4. cs[c].fd \in Fds
      BY <2>2 DEF ClientRecords
    <2> QED BY <2>1, <2>2, <2>3, <2>4, ObjectsDistinct DEF HoldsOwn
  <1>2. \A g \in Fds, c \in Conns : desc'[g] = Sock(c) => client'[c].fd = g
    BY ObjectsDistinct DEF Erase
  <1> QED BY <1>1, <1>2 DEF OwnDescriptors

\* The clients left after an erasure are clients of accepted connections.
LEMMA EraseAccepted ==
  ASSUME NEW f, NEW cs \in [Conns -> ClientRecords],
         NEW ps \in [Conns -> PeerRecords], NEW objs,
         \A c \in Conns : cs[c].fd # NoFd => ps[c].phase = "open",
         \A c \in Conns : SamePeer(ps[c], peer[c]),
         Erase(f, cs, ps, objs)
  PROVE  Accepted' /\ CulpritsKept
  <1>1. Accepted'
    BY DEF Erase, Accepted, NoClient
  <1>2. \A c \in Conns : /\ peer'[c].kind = peer[c].kind /\ peer'[c].hung = peer[c].hung
                         /\ peer'[c].phase \in {peer[c].phase, "closed"}
    BY DEF Erase, SamePeer, PeerRecords
  <1>3. CulpritsKept
    BY <1>2 DEF CulpritsKept, Culprit
  <1> QED BY <1>1, <1>3

\* A handler that returns a typed client record, holding what it takes itself to
\* hold, keeps the types and the ownership, whichever function called it.
LEMMA ReturnWithCore ==
  ASSUME CoreOK,
         NEW e, e.fd \in Fds, NEW c \in Conns, NEW via,
         NEW cl \in ClientRecords, NEW pr \in PeerRecords, NEW ret,
         NEW table, NEW n \in Nat, NEW pipes \in SUBSET Fds,
         NEW objs \in [Fds -> Objects],
         IsTable(table, n),
         cl.fd = client[c].fd, SamePeer(pr, peer[c]),
         HoldsOwn(c, cl, objs),
         \A d \in Conns \ {c} : HoldsOwn(d, client[d], objs),
         \A g \in Fds, d \in Conns : objs[g] = Sock(d) => client[d].fd = g,
         ReturnWith(e, c, via, cl, pr, ret, table, pipes, objs)
  PROVE  /\ server' = server
         /\ IsTable(pollfds', n)
         /\ activePipes' \subseteq Fds
         /\ client' \in [Conns -> ClientRecords]
         /\ desc' \in [Fds -> Objects]
         /\ peer' \in [Conns -> PeerRecords]
         /\ OwnDescriptors' /\ Accepted' /\ CulpritsKept
  <1> DEFINE cs == [client EXCEPT ![c] = cl]
             ps == [peer EXCEPT ![c] = pr]
  <1>1. /\ client \in [Conns -> ClientRecords] /\ peer \in [Conns -> PeerRecords]
        /\ cs \in [Conns -> ClientRecords] /\ ps \in [Conns -> PeerRecords]
    BY DEF CoreOK
  <1>2. \A d \in Conns : HoldsOwn(d, cs[d], objs)
    BY <1>1
  <1>3. \A g \in Fds, d \in Conns : objs[g] = Sock(d) => cs[d].fd = g
    BY <1>1
  <1>4. \A d \in Conns : /\ cs[d].fd # NoFd => ps[d].phase = "open"
                         /\ SamePeer(ps[d], peer[d])
    BY <1>1 DEF CoreOK, Accepted, SamePeer
  <1>5. server' = server
    BY DEF ReturnWith
  <1>6. "IN" \in Events /\ "OUT" \in Events /\ Mask(ret) \in Events
    BY DEF Events, Mask
  <1> HIDE DEF cs, ps
  <1>7. CASE via = "client"
    <2>1. AfterClient(e, cs, ps, ret, table, pipes, objs)
      BY <1>7 DEF ReturnWith, cs, ps
    <2>2. CASE ret = "Done"
      <3>1. pollfds' = Without(table, e.fd) /\ activePipes' = pipes
            /\ Erase(e.fd, cs, ps, objs)
        BY <2>1, <2>2 DEF AfterClient
      <3>2. /\ client' \in [Conns -> ClientRecords]
            /\ peer' \in [Conns -> PeerRecords]
            /\ desc' \in [Fds -> Objects]
        BY <3>1, <1>1, EraseType, NoClientType
      <3>3. OwnDescriptors' /\ Accepted' /\ CulpritsKept
        BY <3>1, <1>1, <1>2, <1>3, <1>4, EraseOwn, EraseAccepted
      <3>4. IsTable(pollfds', n)
        BY <3>1, WithoutType
      <3> QED BY <3>1, <3>2, <3>3, <3>4, <1>5
    <2>3. CASE ret # "Done"
      <3>1. /\ pollfds' = SetEvents(table, e.fd, Mask(ret)) /\ activePipes' = pipes
            /\ client' = cs /\ peer' = ps /\ desc' = objs
        BY <2>1, <2>3 DEF AfterClient
      <3>2. IsTable(pollfds', n)
        BY <3>1, <1>6, SetEventsType
      <3>3. OwnDescriptors' /\ Accepted' /\ CulpritsKept
        BY <3>1, <1>2, <1>3, <1>4 DEF OwnDescriptors, HoldsOwn, Accepted, CulpritsKept, Culprit, SamePeer
      <3> QED BY <3>1, <3>2, <3>3, <1>1, <1>5
    <2> QED BY <2>2, <2>3
  <1>8. CASE via # "client"
    <2>1. AfterPipe(e, c, cs, ps, table, pipes, objs)
      BY <1>8 DEF ReturnWith, cs, ps
    <2> DEFINE sent == IF cs[c].bodySent
                       THEN SetEvents(Without(table, e.fd), cs[c].fd, "IN") ELSE table
               read == IF cs[c].hasRead
                       THEN SetEvents(Without(sent, e.fd), cs[c].fd, "OUT") ELSE sent
    <2>2. /\ pollfds' = read
          /\ activePipes' = IF cs[c].bodySent \/ cs[c].hasRead THEN pipes \ {e.fd} ELSE pipes
          /\ client' = cs /\ peer' = ps /\ desc' = objs
      BY <2>1 DEF AfterPipe
    <2>3. IsTable(Without(table, e.fd), n)
      BY WithoutType
    <2>4. IsTable(sent, n)
      BY <2>3, <1>6, SetEventsType
    <2> HIDE DEF sent
    <2>5. IsTable(Without(sent, e.fd), n)
      BY <2>4, WithoutType
    <2>6. IsTable(read, n)
      BY <2>4, <2>5, <1>6, SetEventsType
    <2>7. OwnDescriptors' /\ Accepted' /\ CulpritsKept
      BY <2>2, <1>2, <1>3, <1>4 DEF OwnDescriptors, HoldsOwn, Accepted, CulpritsKept, Culprit, SamePeer
    <2> HIDE DEF read
    <2> QED BY <2>2, <2>6, <2>7, <1>1, <1>5
  <1> QED BY <1>7, <1>8

\* Stopping the process changes nothing else.
LEMMA StopCore ==
  ASSUME CoreOK, NEW how \in {"failed", "aborted", "killed"}, Stop(how)
  PROVE  CoreOK' /\ CulpritsKept /\ tickets' = tickets
  BY DEF CoreOK, Stop, OwnDescriptors, HoldsOwn, Accepted, CulpritsKept, Culprit

\* A handler that opens and closes nothing.
LEMMA ReturnCore ==
  ASSUME CoreOK,
         NEW e, e.fd \in Fds, NEW c \in Conns, NEW via,
         NEW cl \in ClientRecords, NEW pr \in PeerRecords, NEW ret,
         cl.fd = client[c].fd, SamePeer(pr, peer[c]),
         HoldsOwn(c, cl, desc),
         Return(e, c, via, cl, pr, ret)
  PROVE  CoreOK' /\ CulpritsKept /\ tickets' = tickets
  <1>1. /\ desc \in [Fds -> Objects] /\ tickets \in Nat /\ IsTable(pollfds, tickets)
        /\ activePipes \in SUBSET Fds
        /\ \A d \in Conns \ {c} : HoldsOwn(d, client[d], desc)
        /\ \A g \in Fds, d \in Conns : desc[g] = Sock(d) => client[d].fd = g
    BY DEF CoreOK, OwnDescriptors
  <1>2. /\ ReturnWith(e, c, via, cl, pr, ret, pollfds, activePipes, desc)
        /\ tickets' = tickets /\ child' = child
    BY DEF Return
  <1>3. /\ server' = server
        /\ IsTable(pollfds', tickets)
        /\ activePipes' \subseteq Fds
        /\ client' \in [Conns -> ClientRecords]
        /\ desc' \in [Fds -> Objects]
        /\ peer' \in [Conns -> PeerRecords]
        /\ OwnDescriptors' /\ Accepted' /\ CulpritsKept
    BY <1>1, <1>2, ReturnWithCore
  <1> QED BY <1>2, <1>3 DEF CoreOK

\* An exception handled for a client whose record keeps its descriptor.
LEMMA FailCore ==
  ASSUME CoreOK,
         NEW e, e.fd \in Fds, NEW c \in Conns, NEW via,
         NEW cl \in ClientRecords, NEW pr \in PeerRecords,
         cl.fd = client[c].fd, SamePeer(pr, peer[c]),
         Fail(e, c, via, cl, pr)
  PROVE  CoreOK' /\ CulpritsKept /\ tickets' = tickets
  <1>1. CASE Stop("killed")
    BY <1>1, StopCore
  <1>2. ASSUME NEW k \in Nat, NEW s \in {"Error", "Sending"}, NEW b \in BOOLEAN,
               Return(e, c, via, [cl EXCEPT !.state = s, !.left = k, !.begun = FALSE,
                                            !.open = b], pr, s)
        PROVE  CoreOK' /\ CulpritsKept /\ tickets' = tickets
    <2> DEFINE next == [cl EXCEPT !.state = s, !.left = k, !.begun = FALSE, !.open = b]
    <2>1. next \in ClientRecords /\ next.fd = client[c].fd /\ next.state = s
      BY DEF ClientRecords, ClientStates
    <2>2. HoldsOwn(c, next, desc)
      BY <2>1 DEF HoldsOwn, CoreOK, OwnDescriptors
    <2>3. Return(e, c, via, next, pr, s)
      BY <1>2
    <2> HIDE DEF next
    <2> QED BY <2>1, <2>2, <2>3, ReturnCore
  <1>3. ASSUME cl.open,
               Return(e, c, via, [cl EXCEPT !.state = "Error", !.left = 0, !.begun = FALSE],
                      pr, "Error")
        PROVE  CoreOK' /\ CulpritsKept /\ tickets' = tickets
    <2>1. [cl EXCEPT !.state = "Error", !.left = 0, !.begun = FALSE]
            = [cl EXCEPT !.state = "Error", !.left = 0, !.begun = FALSE, !.open = TRUE]
      BY <1>3 DEF ClientRecords
    <2> QED BY <1>2, <1>3, <2>1
  <1>4. \A k \in Chunks : k \in Nat
    BY BoundsAssumption DEF Chunks
  <1>5. Fatal(cl) => Stop("killed")
    BY DEF Fail
  <1>6. ~Fatal(cl) /\ cl.open =>
          Return(e, c, via, [cl EXCEPT !.state = "Error", !.left = 0, !.begun = FALSE],
                 pr, "Error")
    BY DEF Fail
  <1>7. ~Fatal(cl) /\ ~cl.open =>
          \E k \in Chunks, s \in {"Error", "Sending"} :
            Return(e, c, via, [cl EXCEPT !.state = s, !.left = k, !.begun = FALSE,
                                         !.open = (s = "Error")], pr, s)
    BY DEF Fail
  <1> QED BY <1>1, <1>2, <1>3, <1>4, <1>5, <1>6, <1>7

-----------------------------------------------------------------------------
(* The branches of handleConnection. *)

\* The records of a typed state, one connection at a time.
LEMMA CoreRecords ==
  ASSUME CoreOK, NEW c \in Conns
  PROVE  /\ client[c] \in ClientRecords
         /\ peer[c] \in PeerRecords
         /\ child[c] \in ChildRecords
         /\ HoldsOwn(c, client[c], desc)
  BY DEF CoreOK, OwnDescriptors

\* A client that moves to a state without pipes holds what it held.
LEMMA HoldsWithoutPipes ==
  ASSUME NEW c, NEW cl, NEW objs, HoldsOwn(c, cl, objs),
         NEW next, next.fd = cl.fd, next.state \notin {"CGI_Write", "CGI_Read"}
  PROVE  HoldsOwn(c, next, objs)
  BY DEF HoldsOwn

\* Chunks are counted in naturals.
LEMMA ChunksNat == Chunks \subseteq Nat
  BY BoundsAssumption DEF Chunks

\* Client::handleConnection keeps the core of the invariant when a request is complete.
LEMMA CompleteCore ==
  ASSUME CoreOK, NEW e, e.fd \in Fds, NEW c \in Conns, NEW via,
         NEW pr \in PeerRecords, SamePeer(pr, peer[c]), client[c].state = "Receiving",
         Complete(e, c, via, pr)
  PROVE  CoreOK' /\ CulpritsKept /\ tickets' = tickets
  <1> DEFINE cl == [client[c] EXCEPT !.cgi = pr.kind \in CgiKinds]
  <1>1. /\ cl \in ClientRecords /\ cl.fd = client[c].fd /\ cl.state = "Receiving"
    <2>1. ASSUME NEW b \in BOOLEAN
          PROVE  LET next == [client[c] EXCEPT !.cgi = b]
                 IN  /\ next \in ClientRecords
                     /\ next.fd = client[c].fd /\ next.state = client[c].state
      BY CoreRecords DEF ClientRecords
    <2>2. (pr.kind \in CgiKinds) \in BOOLEAN
      OBVIOUS
    <2> QED BY <2>1, <2>2, Zenon
  <1>2. HoldsOwn(c, cl, desc)
    BY <1>1, CoreRecords, HoldsWithoutPipes
  <1> HIDE DEF cl
  <1>3. \/ Stop("aborted")
        \/ Fail(e, c, via, cl, pr)
        \/ Return(e, c, via, cl, pr, "Loading")
        \/ \E n \in Chunks : Return(e, c, via, [cl EXCEPT !.state = "Loading", !.left = n],
                                    pr, "Loading")
    BY DEF Complete, cl
  <1>4. CASE Stop("aborted")
    BY <1>4, StopCore
  <1>5. CASE Fail(e, c, via, cl, pr)
    BY <1>1, <1>5, FailCore
  <1>6. CASE Return(e, c, via, cl, pr, "Loading")
    BY <1>1, <1>2, <1>6, ReturnCore
  <1>7. ASSUME NEW n \in Chunks,
               Return(e, c, via, [cl EXCEPT !.state = "Loading", !.left = n], pr, "Loading")
        PROVE  CoreOK' /\ CulpritsKept /\ tickets' = tickets
    <2> DEFINE next == [cl EXCEPT !.state = "Loading", !.left = n]
    <2>1. next \in ClientRecords /\ next.fd = client[c].fd /\ next.state = "Loading"
      BY <1>1, ChunksNat DEF ClientRecords, ClientStates
    <2>2. HoldsOwn(c, next, desc)
      BY <1>1, <1>2, <2>1, HoldsWithoutPipes
    <2>3. Return(e, c, via, next, pr, "Loading")
      BY <1>7
    <2> HIDE DEF next
    <2> QED BY <2>1, <2>2, <2>3, ReturnCore
  <1> QED BY <1>3, <1>4, <1>5, <1>6, <1>7

\* So does the Receiving branch as a whole.
LEMMA ReceiveCore ==
  ASSUME CoreOK, NEW e, e.fd \in Fds, NEW c \in Conns, NEW via, Receive(e, c, via)
  PROVE  CoreOK' /\ CulpritsKept /\ tickets' = tickets
  <1> DEFINE p == peer[c]
             r == [p EXCEPT !.inbox = p.inbox - 1,
                            !.need = IF p.need = 0 THEN 0 ELSE p.need - 1]
  <1>1. /\ client[c] \in ClientRecords /\ p \in PeerRecords
        /\ HoldsOwn(c, client[c], desc)
        /\ client[c].state = "Receiving"
    BY CoreRecords DEF Receive
  <1>2. p.inbox > 0 => r \in PeerRecords /\ SamePeer(r, peer[c])
    <2>1. ASSUME NEW i \in Nat, NEW k \in Nat
          PROVE  LET q == [p EXCEPT !.inbox = i, !.need = k]
                 IN  q \in PeerRecords /\ SamePeer(q, p)
      BY <1>1 DEF PeerRecords, SamePeer
    <2>2. p.inbox \in Nat /\ p.need \in Nat
      BY <1>1 DEF PeerRecords
    <2>3. p.inbox > 0 => p.inbox - 1 \in Nat
      BY <2>2
    <2>4. (IF p.need = 0 THEN 0 ELSE p.need - 1) \in Nat
      BY <2>2
    <2> QED BY <2>1, <2>3, <2>4
  <1> HIDE DEF r
  <1>3. \/ Stop("aborted")
        \/ Return(e, c, via, client[c], p, "Receiving")
        \/ p.inbox > 0 /\ \E seen \in {client[c].cgi, p.kind \in CgiKinds} :
             Return(e, c, via, [client[c] EXCEPT !.cgi = seen], r, "Receiving")
        \/ p.inbox > 0 /\ Complete(e, c, via, r)
    BY DEF Receive, r
  <1>4. CASE Stop("aborted")
    BY <1>4, StopCore
  <1>5. CASE Return(e, c, via, client[c], p, "Receiving")
    BY <1>1, <1>5, ReturnCore, SamePeerSelf
  <1>6. ASSUME p.inbox > 0, NEW seen \in BOOLEAN,
               Return(e, c, via, [client[c] EXCEPT !.cgi = seen], r, "Receiving")
        PROVE  CoreOK' /\ CulpritsKept /\ tickets' = tickets
    <2> DEFINE next == [client[c] EXCEPT !.cgi = seen]
    <2>1. next \in ClientRecords /\ next.fd = client[c].fd /\ next.state = "Receiving"
      BY <1>1 DEF ClientRecords
    <2>2. HoldsOwn(c, next, desc)
      <3> HIDE DEF next
      <3> QED BY <1>1, <2>1, HoldsWithoutPipes
    <2>3. Return(e, c, via, next, r, "Receiving")
      BY <1>6
    <2> HIDE DEF next
    <2> QED BY <1>1, <1>2, <1>6, <2>1, <2>2, <2>3, ReturnCore
  <1>8. client[c].cgi \in BOOLEAN /\ (p.kind \in CgiKinds) \in BOOLEAN
    BY <1>1 DEF ClientRecords
  <1>7. CASE p.inbox > 0 /\ Complete(e, c, via, r)
    BY <1>1, <1>2, <1>7, CompleteCore
  <1> QED BY <1>3, <1>4, <1>5, <1>6, <1>7, <1>8

\* A handler that only moves its client to a state without pipes.
LEMMA MoveCore ==
  ASSUME CoreOK, NEW e, e.fd \in Fds, NEW c \in Conns, NEW via,
         NEW s \in ClientStates \ {"CGI_Write", "CGI_Read"}, NEW k \in Nat,
         NEW o \in BOOLEAN, NEW b \in BOOLEAN, NEW ret,
         NEW pr \in PeerRecords, SamePeer(pr, peer[c]),
         NEW next, next = [client[c] EXCEPT !.state = s, !.left = k, !.open = o,
                                            !.begun = b],
         Return(e, c, via, next, pr, ret)
  PROVE  CoreOK' /\ CulpritsKept /\ tickets' = tickets
  <1>1. next \in ClientRecords /\ next.fd = client[c].fd /\ next.state = s
    BY CoreRecords DEF ClientRecords, ClientStates
  <1>2. HoldsOwn(c, next, desc)
    BY <1>1, CoreRecords, HoldsWithoutPipes
  <1> QED BY <1>1, <1>2, ReturnCore

\* So does the Loading branch.
LEMMA LoadCore ==
  ASSUME CoreOK, NEW e, e.fd \in Fds, NEW c \in Conns, NEW via, Load(e, c, via)
  PROVE  CoreOK' /\ CulpritsKept /\ tickets' = tickets
  <1> DEFINE cl == client[c]
             p  == peer[c]
  <1>1. cl \in ClientRecords /\ p \in PeerRecords
    BY CoreRecords
  <1>2. CASE Fail(e, c, via, cl, p)
    BY <1>1, <1>2, FailCore, SamePeerSelf
  <1>3. CASE Fail(e, c, via, [cl EXCEPT !.open = TRUE], p)
    <2>1. [cl EXCEPT !.open = TRUE] \in ClientRecords
          /\ [cl EXCEPT !.open = TRUE].fd = client[c].fd
      BY <1>1 DEF ClientRecords
    <2> QED BY <1>1, <1>3, <2>1, FailCore, SamePeerSelf
  <1>4. CASE \E how \in {"failed", "aborted"} : Stop(how)
    BY <1>4, StopCore
  <1>5. CASE Return(e, c, via, [cl EXCEPT !.state = "Error"], p, "Error")
    <2>1. [cl EXCEPT !.state = "Error"]
            = [cl EXCEPT !.state = "Error", !.left = cl.left, !.open = cl.open,
                         !.begun = cl.begun]
          /\ cl.left \in Nat /\ cl.open \in BOOLEAN /\ cl.begun \in BOOLEAN
      BY <1>1 DEF ClientRecords
    <2> QED BY <1>1, <1>5, <2>1, MoveCore, SamePeerSelf DEF ClientStates
  <1>6. CASE Return(e, c, via, [cl EXCEPT !.state = "CGI_Start"], p, "CGI_Start")
    <2>1. [cl EXCEPT !.state = "CGI_Start"]
            = [cl EXCEPT !.state = "CGI_Start", !.left = cl.left, !.open = cl.open,
                         !.begun = cl.begun]
          /\ cl.left \in Nat /\ cl.open \in BOOLEAN /\ cl.begun \in BOOLEAN
      BY <1>1 DEF ClientRecords
    <2> QED BY <1>1, <1>6, <2>1, MoveCore, SamePeerSelf DEF ClientStates
  <1>7. CASE Return(e, c, via, [cl EXCEPT !.state = "Sending", !.left = 1, !.begun = FALSE],
                    p, "Sending")
    <2>1. [cl EXCEPT !.state = "Sending", !.left = 1, !.begun = FALSE]
            = [cl EXCEPT !.state = "Sending", !.left = 1, !.open = cl.open,
                         !.begun = FALSE]
          /\ cl.open \in BOOLEAN
      BY <1>1 DEF ClientRecords
    <2> QED BY <1>1, <1>7, <2>1, MoveCore, SamePeerSelf DEF ClientStates
  <1>8. CASE cl.left > 1
             /\ Return(e, c, via, [cl EXCEPT !.left = cl.left - 1, !.open = TRUE],
                       p, "Loading")
    <2>1. [cl EXCEPT !.left = cl.left - 1, !.open = TRUE]
            = [cl EXCEPT !.state = "Loading", !.left = cl.left - 1, !.open = TRUE,
                         !.begun = cl.begun]
          /\ cl.left - 1 \in Nat /\ cl.begun \in BOOLEAN
      <3>1. cl.state = "Loading"
        BY DEF Load, FindScript, ManageFile
      <3>2. cl.left - 1 \in Nat /\ cl.begun \in BOOLEAN
        BY <1>1, <1>8 DEF ClientRecords
      <3>3. [cl EXCEPT !.left = cl.left - 1, !.open = TRUE]
              = [cl EXCEPT !.state = "Loading", !.left = cl.left - 1, !.open = TRUE,
                           !.begun = cl.begun]
        BY <1>1, <3>1 DEF ClientRecords
      <3> QED BY <3>2, <3>3
    <2> QED BY <1>1, <1>8, <2>1, MoveCore, SamePeerSelf DEF ClientStates
  <1>9. ASSUME NEW n \in Chunks,
               Return(e, c, via, [cl EXCEPT !.state = "Sending", !.left = n, !.open = TRUE],
                      p, "Sending")
        PROVE  CoreOK' /\ CulpritsKept /\ tickets' = tickets
    <2>1. [cl EXCEPT !.state = "Sending", !.left = n, !.open = TRUE]
            = [cl EXCEPT !.state = "Sending", !.left = n, !.open = TRUE,
                         !.begun = cl.begun]
          /\ n \in Nat /\ cl.begun \in BOOLEAN
      BY <1>1, ChunksNat DEF ClientRecords
    <2> QED BY <1>1, <1>9, <2>1, MoveCore, SamePeerSelf DEF ClientStates
  <1>10. \/ Fail(e, c, via, cl, p)
         \/ Fail(e, c, via, [cl EXCEPT !.open = TRUE], p)
         \/ \E how \in {"failed", "aborted"} : Stop(how)
         \/ Return(e, c, via, [cl EXCEPT !.state = "Error"], p, "Error")
         \/ Return(e, c, via, [cl EXCEPT !.state = "CGI_Start"], p, "CGI_Start")
         \/ Return(e, c, via, [cl EXCEPT !.state = "Sending", !.left = 1, !.begun = FALSE],
                   p, "Sending")
         \/ cl.left > 1
            /\ Return(e, c, via, [cl EXCEPT !.left = cl.left - 1, !.open = TRUE],
                      p, "Loading")
         \/ \E n \in Chunks :
              Return(e, c, via, [cl EXCEPT !.state = "Sending", !.left = n, !.open = TRUE],
                     p, "Sending")
    BY ZenonT(30) DEF Load, FindScript, ManageFile
  <1> QED BY <1>2, <1>3, <1>4, <1>5, <1>6, <1>7, <1>8, <1>9, <1>10

\* So does the branch that loads an error page.
LEMMA LoadErrorPageCore ==
  ASSUME CoreOK, NEW e, e.fd \in Fds, NEW c \in Conns, NEW via, LoadErrorPage(e, c, via)
  PROVE  CoreOK' /\ CulpritsKept /\ tickets' = tickets
  <1> DEFINE cl == client[c]
  <1>1. /\ cl \in ClientRecords /\ peer[c] \in PeerRecords /\ cl.state = "Error"
        /\ cl.left \in Nat /\ cl.open \in BOOLEAN /\ cl.begun \in BOOLEAN
    BY CoreRecords DEF LoadErrorPage, ClientRecords
  <1>2. ASSUME NEW k \in Nat, NEW s \in {"Error", "Sending"},
               Return(e, c, via, [cl EXCEPT !.state = s, !.left = k], peer[c], s)
        PROVE  CoreOK' /\ CulpritsKept /\ tickets' = tickets
    <2> DEFINE next == [cl EXCEPT !.state = s, !.left = k]
    <2>1. next = [cl EXCEPT !.state = s, !.left = k, !.open = cl.open, !.begun = cl.begun]
      BY <1>1 DEF ClientRecords
    <2>2. Return(e, c, via, next, peer[c], s)
      BY <1>2
    <2>3. s \in ClientStates \ {"CGI_Write", "CGI_Read"}
      BY DEF ClientStates
    <2> HIDE DEF next
    <2> QED BY <1>1, <2>1, <2>2, <2>3, MoveCore, SamePeerSelf
  <1>3. (IF cl.left = 0 THEN 0 ELSE cl.left - 1) \in Nat
    BY <1>1
  <1>4. \A k \in Nat : [cl EXCEPT !.left = k] = [cl EXCEPT !.state = "Error", !.left = k]
    BY <1>1 DEF ClientRecords
  <1>5. 0 \in Nat /\ \A n \in Chunks : n \in Nat
    BY ChunksNat
  <1>6. \/ Return(e, c, via, [cl EXCEPT !.state = "Sending", !.left = 0],
                  peer[c], "Sending")
        \/ \E n \in Chunks :
             Return(e, c, via, [cl EXCEPT !.state = "Sending", !.left = n],
                    peer[c], "Sending")
        \/ Return(e, c, via, [cl EXCEPT !.left = IF cl.left = 0 THEN 0 ELSE cl.left - 1],
                  peer[c], "Error")
    BY ZenonT(30) DEF LoadErrorPage
  <1> HIDE DEF cl
  <1> QED BY <1>2, <1>3, <1>4, <1>5, <1>6

\* What a peer has got is one of four things.
LEMMA GotType ==
  ASSUME NEW cl, NEW p \in PeerRecords
  PROVE  GotAfter(cl, p) \in {"nothing", "partial", "answer", "spliced"}
  BY DEF GotAfter, PeerRecords

\* Sending, over a table and a set of pipes the caller may have reduced already.
LEMMA SendResponseCore ==
  ASSUME CoreOK, NEW e, e.fd \in Fds, NEW c \in Conns, NEW via,
         NEW cl \in ClientRecords, cl.fd = client[c].fd,
         NEW table, IsTable(table, tickets), NEW pipes \in SUBSET Fds,
         SendResponse(e, c, via, cl, table, pipes)
  PROVE  CoreOK' /\ CulpritsKept /\ tickets' = tickets
  <1> DEFINE p    == peer[c]
             ret  == IF Written(cl) THEN "Done" ELSE "Sending"
             next == [cl EXCEPT !.state = ret, !.begun = (ret = "Sending"),
                                !.left = IF cl.left = 0 THEN 0 ELSE cl.left - 1]
             got  == IF cl.left = 0 THEN p.got ELSE GotAfter(cl, p)
             pr   == [p EXCEPT !.got = got]
  <1>1. CASE \E how \in {"failed", "aborted"} : Stop(how)
    BY <1>1, StopCore
  <1>2. CASE /\ ReturnWith(e, c, via, next, pr, ret, table, pipes, desc)
             /\ UNCHANGED <<tickets, child>>
    <2>1. p \in PeerRecords /\ HoldsOwn(c, client[c], desc)
      BY CoreRecords
    <2>2. got \in {"nothing", "partial", "answer", "spliced"}
      BY <2>1, GotType DEF PeerRecords
    <2>3. pr \in PeerRecords /\ SamePeer(pr, peer[c])
      <3> HIDE DEF got
      <3> QED BY <2>1, <2>2 DEF PeerRecords, SamePeer
    <2>4. next \in ClientRecords /\ next.fd = client[c].fd
          /\ next.state \notin {"CGI_Write", "CGI_Read"}
      <3>1. ASSUME NEW s \in {"Done", "Sending"}, NEW b \in BOOLEAN, NEW k \in Nat
            PROVE  LET n == [cl EXCEPT !.state = s, !.begun = b, !.left = k]
                   IN  n \in ClientRecords /\ n.fd = client[c].fd
                       /\ n.state \notin {"CGI_Write", "CGI_Read"}
        BY DEF ClientRecords, ClientStates
      <3>2. ret \in {"Done", "Sending"}
        OBVIOUS
      <3>3. (ret = "Sending") \in BOOLEAN
        OBVIOUS
      <3>4. (IF cl.left = 0 THEN 0 ELSE cl.left - 1) \in Nat
        BY DEF ClientRecords
      <3> HIDE DEF ret
      <3> QED BY <3>1, <3>2, <3>3, <3>4, Zenon
    <2>5. HoldsOwn(c, next, desc)
      <3> HIDE DEF next
      <3> QED BY <2>1, <2>4, HoldsWithoutPipes
    <2>6. /\ desc \in [Fds -> Objects] /\ tickets \in Nat
          /\ \A d \in Conns \ {c} : HoldsOwn(d, client[d], desc)
          /\ \A g \in Fds, d \in Conns : desc[g] = Sock(d) => client[d].fd = g
      BY DEF CoreOK, OwnDescriptors
    <2> HIDE DEF pr, next, ret
    <2>7. /\ server' = server
          /\ IsTable(pollfds', tickets)
          /\ activePipes' \subseteq Fds
          /\ client' \in [Conns -> ClientRecords]
          /\ desc' \in [Fds -> Objects]
          /\ peer' \in [Conns -> PeerRecords]
          /\ OwnDescriptors' /\ Accepted' /\ CulpritsKept
      BY <1>2, <2>3, <2>4, <2>5, <2>6, ReturnWithCore
    <2> QED BY <1>2, <2>7 DEF CoreOK
  <1> QED BY <1>1, <1>2 DEF SendResponse

\* Opening and closing the pipes of one client leaves the others theirs, and
\* every socket its client.
LEMMA PipesOfOne ==
  ASSUME CoreOK, NEW c \in Conns, NEW objs \in [Fds -> Objects],
         \A g \in Fds : objs[g] # desc[g] =>
           /\ desc[g] \in {Free, Rd(c), Wr(c)}
           /\ objs[g] \in {Free, Rd(c), Wr(c)}
  PROVE  /\ \A d \in Conns \ {c} : HoldsOwn(d, client[d], objs)
         /\ \A g \in Fds, d \in Conns : objs[g] = Sock(d) => client[d].fd = g
         /\ \A g \in Fds : desc[g] = Sock(c) => objs[g] = Sock(c)
  <1>1. ASSUME NEW d \in Conns \ {c} PROVE HoldsOwn(d, client[d], objs)
    <2>1. HoldsOwn(d, client[d], desc) /\ client[d] \in ClientRecords
      BY CoreRecords
    <2>2. \A g \in Fds : desc[g] \in {Sock(d), Rd(d), Wr(d)} => objs[g] = desc[g]
      <3>1. /\ Sock(d) \notin {Free, Rd(c), Wr(c)}
            /\ Rd(d) \notin {Free, Rd(c), Wr(c)}
            /\ Wr(d) \notin {Free, Rd(c), Wr(c)}
        BY DEF Sock, Rd, Wr, Free
      <3> QED BY <3>1
    <2>3. client[d].fd # NoFd => client[d].fd \in Fds
      BY <2>1 DEF ClientRecords
    <2> QED BY <2>1, <2>2, <2>3 DEF HoldsOwn
  <1>2. \A g \in Fds, d \in Conns : objs[g] = Sock(d) => client[d].fd = g
    BY ObjectsDistinct DEF CoreOK, OwnDescriptors
  <1>3. \A g \in Fds : desc[g] = Sock(c) => objs[g] = Sock(c)
    BY ObjectsDistinct
  <1> QED BY <1>1, <1>2, <1>3

\* The kernel hands out free numbers, and pipe numbers are told apart.
LEMMA CandidatesFree ==
  ASSUME CoreOK, NEW a \in Candidates(FreeFds), NEW w \in Candidates(FreeFds \ {a}),
         NEW r \in Candidates(FreeFds \ {a, w})
  PROVE  /\ r \in Fds /\ w \in Fds /\ r # w
         /\ desc[r] = Free /\ desc[w] = Free
  <1>1. /\ FreeFds \in SUBSET Fds /\ FreeFds \ {a} \in SUBSET Fds
        /\ FreeFds \ {a, w} \in SUBSET Fds
    BY DEF FreeFds
  <1>2. w \in FreeFds \ {a} /\ r \in FreeFds \ {a, w}
    BY <1>1, CandidatesAssumption
  <1> QED BY <1>2 DEF FreeFds

\* With the pipes open, one or two entries and one or two pipes are added.
LEMMA StartedCore ==
  ASSUME CoreOK, NEW e, e.fd \in Fds, NEW c \in Conns, NEW via,
         NEW r \in Fds, NEW w \in Fds, r # w, desc[r] = Free, desc[w] = Free,
         child' \in [Conns -> ChildRecords],
         Started(e, c, via, r, w)
  PROVE  CoreOK' /\ CulpritsKept /\ tickets <= tickets'
  <1>1. /\ client[c] \in ClientRecords /\ peer[c] \in PeerRecords
        /\ HoldsOwn(c, client[c], desc)
        /\ tickets \in Nat /\ tickets + 1 \in Nat /\ tickets + 2 \in Nat
        /\ IsTable(pollfds, tickets) /\ activePipes \subseteq Fds
        /\ desc \in [Fds -> Objects]
        /\ server \in {"running", "failed", "aborted", "killed"}
    BY CoreRecords DEF CoreOK
  <1>2. IsTable(Add(pollfds, tickets, r, "IN"), tickets + 1)
    BY <1>1, AddType DEF Events
  <1>3. IsTable(Add(Add(pollfds, tickets, r, "IN"), tickets + 1, w, "OUT"), tickets + 2)
    <2>1. "OUT" \in Events /\ tickets + 1 + 1 = tickets + 2
      BY <1>1 DEF Events
    <2> QED BY <1>1, <1>2, <2>1, AddType
  <1>4. ASSUME NEW next \in ClientRecords, next.fd = client[c].fd, next.rd = r,
               NEW objs \in [Fds -> Objects], objs[r] = Rd(c),
               \/ next.state = "CGI_Read"
               \/ next.state = "CGI_Write" /\ next.wr = w /\ objs[w] = Wr(c),
               \A g \in Fds : objs[g] # desc[g] =>
                 desc[g] \in {Free, Rd(c), Wr(c)} /\ objs[g] \in {Free, Rd(c), Wr(c)},
               NEW n \in Nat, tickets' = n, tickets <= n,
               NEW table, IsTable(table, n), NEW pipes \in SUBSET Fds,
               ReturnWith(e, c, via, next, peer[c], next.state, table, pipes, objs)
        PROVE  CoreOK' /\ CulpritsKept /\ tickets <= tickets'
    <2>1. /\ \A d \in Conns \ {c} : HoldsOwn(d, client[d], objs)
          /\ \A g \in Fds, d \in Conns : objs[g] = Sock(d) => client[d].fd = g
          /\ \A g \in Fds : desc[g] = Sock(c) => objs[g] = Sock(c)
      BY <1>4, PipesOfOne
    <2>2. HoldsOwn(c, next, objs)
      BY <1>1, <1>4, <2>1 DEF HoldsOwn, ClientRecords
    <2>3. /\ server' = server
          /\ IsTable(pollfds', n)
          /\ activePipes' \subseteq Fds
          /\ client' \in [Conns -> ClientRecords]
          /\ desc' \in [Fds -> Objects]
          /\ peer' \in [Conns -> PeerRecords]
          /\ OwnDescriptors' /\ Accepted' /\ CulpritsKept
      BY <1>1, <1>4, <2>1, <2>2, ReturnWithCore, SamePeerSelf
    <2> QED BY <1>1, <1>4, <2>3 DEF CoreOK
  <1> DEFINE cl == [client[c] EXCEPT !.rd = r, !.wr = w]
  <1>5. ASSUME NEW s \in {"CGI_Read", "CGI_Write"}, NEW b \in Nat
        PROVE  LET next == [cl EXCEPT !.state = s, !.body = b]
               IN  /\ next \in ClientRecords /\ next.fd = client[c].fd
                   /\ next.state = s /\ next.rd = r /\ next.wr = w
    BY <1>1 DEF ClientRecords, ClientStates
  <1>6. CASE /\ ReturnWith(e, c, via, [cl EXCEPT !.state = "CGI_Read"], peer[c], "CGI_Read",
                           Add(pollfds, tickets, r, "IN"), activePipes \cup {r},
                           [desc EXCEPT ![r] = Rd(c)])
             /\ tickets' = tickets + 1
    <2> DEFINE next == [cl EXCEPT !.state = "CGI_Read"]
               objs == [desc EXCEPT ![r] = Rd(c)]
    <2>1. /\ next \in ClientRecords /\ next.fd = client[c].fd
          /\ next.state = "CGI_Read" /\ next.rd = r
      BY <1>1 DEF ClientRecords, ClientStates
    <2>2. /\ objs \in [Fds -> Objects] /\ objs[r] = Rd(c)
          /\ \A g \in Fds : objs[g] # desc[g] =>
               desc[g] \in {Free, Rd(c), Wr(c)} /\ objs[g] \in {Free, Rd(c), Wr(c)}
      BY <1>1 DEF Objects
    <2>3. ReturnWith(e, c, via, next, peer[c], next.state,
                     Add(pollfds, tickets, r, "IN"), activePipes \cup {r}, objs)
      BY <1>6, <2>1
    <2>4. activePipes \cup {r} \in SUBSET Fds /\ tickets <= tickets + 1
      BY <1>1
    <2> HIDE DEF next, objs
    <2> QED BY <1>1, <1>2, <1>4, <1>6, <2>1, <2>2, <2>3, <2>4
  <1>7. ASSUME NEW b \in 1 .. MaxBody,
               ReturnWith(e, c, via, [cl EXCEPT !.state = "CGI_Write", !.body = b],
                          peer[c], "CGI_Write",
                          Add(Add(pollfds, tickets, r, "IN"), tickets + 1, w, "OUT"),
                          activePipes \cup {r, w},
                          [desc EXCEPT ![r] = Rd(c), ![w] = Wr(c)]),
               tickets' = tickets + 2
        PROVE  CoreOK' /\ CulpritsKept /\ tickets <= tickets'
    <2> DEFINE next == [cl EXCEPT !.state = "CGI_Write", !.body = b]
               objs == [desc EXCEPT ![r] = Rd(c), ![w] = Wr(c)]
               table == Add(Add(pollfds, tickets, r, "IN"), tickets + 1, w, "OUT")
    <2>1. /\ next \in ClientRecords /\ next.fd = client[c].fd
          /\ next.state = "CGI_Write" /\ next.rd = r /\ next.wr = w
      <3>1. b \in Nat
        BY BoundsAssumption
      <3> HIDE DEF cl
      <3> QED BY <1>5, <3>1
    <2>2. /\ objs \in [Fds -> Objects] /\ objs[r] = Rd(c) /\ objs[w] = Wr(c)
          /\ \A g \in Fds : objs[g] # desc[g] =>
               desc[g] \in {Free, Rd(c), Wr(c)} /\ objs[g] \in {Free, Rd(c), Wr(c)}
      BY <1>1 DEF Objects
    <2>3. ReturnWith(e, c, via, next, peer[c], next.state, table, activePipes \cup {r, w}, objs)
      BY <1>7, <2>1
    <2>4. /\ activePipes \cup {r, w} \in SUBSET Fds /\ tickets <= tickets + 2
          /\ IsTable(table, tickets + 2)
      BY <1>1, <1>3
    <2> HIDE DEF next, objs, table
    <2> QED BY <1>1, <1>4, <1>7, <2>1, <2>2, <2>3, <2>4
  <1> QED BY <1>6, <1>7 DEF Started

\* CGI::start fails, or opens two pipes and starts a child.
LEMMA StartScriptCore ==
  ASSUME CoreOK, NEW e, e.fd \in Fds, NEW c \in Conns, NEW via, StartScript(e, c, via)
  PROVE  CoreOK' /\ CulpritsKept /\ tickets <= tickets'
  <1>1. /\ client[c] \in ClientRecords /\ peer[c] \in PeerRecords
        /\ child \in [Conns -> ChildRecords] /\ tickets \in Nat
    BY CoreRecords DEF CoreOK
  <1>2. CASE Fail(e, c, via, client[c], peer[c])
    BY <1>1, <1>2, FailCore, SamePeerSelf
  <1>3. CASE ~Fail(e, c, via, client[c], peer[c])
    <2>1. child' = [child EXCEPT ![c].status = "running"]
      BY <1>3 DEF StartScript
    <2>2. child' \in [Conns -> ChildRecords]
      <3>1. [child[c] EXCEPT !.status = "running"] \in ChildRecords
        BY <1>1 DEF ChildRecords
      <3> QED BY <1>1, <2>1, <3>1
    <2>3. PICK a \in Candidates(FreeFds) : \E w \in Candidates(FreeFds \ {a}) :
            \E r \in Candidates(FreeFds \ {a, w}) : Started(e, c, via, r, w)
      BY <1>3 DEF StartScript
    <2>4. PICK w \in Candidates(FreeFds \ {a}) :
            \E r \in Candidates(FreeFds \ {a, w}) : Started(e, c, via, r, w)
      BY <2>3
    <2>5. PICK r \in Candidates(FreeFds \ {a, w}) : Started(e, c, via, r, w)
      BY <2>4
    <2>6. r \in Fds /\ w \in Fds /\ r # w /\ desc[r] = Free /\ desc[w] = Free
      BY CandidatesFree
    <2> QED BY <2>2, <2>5, <2>6, StartedCore
  <1> QED BY <1>2, <1>3

\* CGI::send closes the write end once the body is out.
LEMMA SendBodyCore ==
  ASSUME CoreOK, NEW e, e.fd \in Fds, NEW c \in Conns, NEW via,
         client[c].fd # NoFd, SendBody(e, c, via)
  PROVE  CoreOK' /\ CulpritsKept /\ tickets' = tickets
  <1> DEFINE cl == client[c]
  <1>1. /\ cl \in ClientRecords /\ peer[c] \in PeerRecords /\ cl.state = "CGI_Write"
        /\ HoldsOwn(c, cl, desc)
        /\ tickets \in Nat /\ IsTable(pollfds, tickets) /\ activePipes \in SUBSET Fds
        /\ desc \in [Fds -> Objects]
    BY CoreRecords DEF SendBody, CoreOK
  <1> HIDE DEF cl
  <1>2. CASE Stop("aborted")
    BY <1>2, StopCore
  <1>3. CASE /\ cl.body > 1
             /\ Return(e, c, via, [cl EXCEPT !.body = cl.body - 1, !.bodyBegun = TRUE],
                       peer[c], "CGI_Write")
    <2> DEFINE next == [cl EXCEPT !.body = cl.body - 1, !.bodyBegun = TRUE]
    <2>1. cl.body - 1 \in Nat
      BY <1>1, <1>3 DEF ClientRecords
    <2>2. next \in ClientRecords /\ next.fd = client[c].fd
      BY <1>1, <2>1 DEF ClientRecords, cl
    <2>3. HoldsOwn(c, next, desc)
      BY <1>1 DEF HoldsOwn, ClientRecords
    <2>4. Return(e, c, via, next, peer[c], "CGI_Write")
      BY <1>3
    <2> HIDE DEF next
    <2> QED BY <1>1, <2>2, <2>3, <2>4, ReturnCore, SamePeerSelf
  <1>4. CASE /\ ReturnWith(e, c, via,
                           [cl EXCEPT !.body = 0, !.bodySent = TRUE, !.state = "CGI_Read"],
                           peer[c], "CGI_Read", pollfds, activePipes,
                           [desc EXCEPT ![cl.wr] = Free])
             /\ UNCHANGED <<tickets, child>>
    <2> DEFINE next == [cl EXCEPT !.body = 0, !.bodySent = TRUE, !.state = "CGI_Read"]
               objs == [desc EXCEPT ![cl.wr] = Free]
    <2>1. /\ next \in ClientRecords /\ next.fd = client[c].fd
          /\ next.state = "CGI_Read" /\ next.rd = cl.rd
      BY <1>1 DEF ClientRecords, ClientStates, cl
    <2>2. desc[cl.wr] = Wr(c) /\ desc[cl.rd] = Rd(c) /\ cl.rd \in Fds
          /\ desc[cl.fd] = Sock(c) /\ cl.fd \in Fds /\ cl.fd = client[c].fd
      BY <1>1 DEF HoldsOwn, ClientRecords, cl
    <2>3. /\ objs \in [Fds -> Objects]
          /\ \A g \in Fds : objs[g] # desc[g] =>
               desc[g] \in {Free, Rd(c), Wr(c)} /\ objs[g] \in {Free, Rd(c), Wr(c)}
      BY <1>1, <2>2 DEF Objects
    <2>4. objs[cl.rd] = Rd(c)
      BY <1>1, <2>2 DEF Rd, Wr
    <2>5. ReturnWith(e, c, via, next, peer[c], "CGI_Read", pollfds, activePipes, objs)
          /\ tickets' = tickets /\ child' = child
      BY <1>4
    <2> HIDE DEF next, objs
    <2>6. /\ \A d \in Conns \ {c} : HoldsOwn(d, client[d], objs)
          /\ \A g \in Fds, d \in Conns : objs[g] = Sock(d) => client[d].fd = g
          /\ \A g \in Fds : desc[g] = Sock(c) => objs[g] = Sock(c)
      BY <2>3, PipesOfOne
    <2>7. HoldsOwn(c, next, objs)
      BY <2>1, <2>2, <2>4, <2>6 DEF HoldsOwn
    <2>8. /\ server' = server
          /\ IsTable(pollfds', tickets)
          /\ activePipes' \subseteq Fds
          /\ client' \in [Conns -> ClientRecords]
          /\ desc' \in [Fds -> Objects]
          /\ peer' \in [Conns -> PeerRecords]
          /\ OwnDescriptors' /\ Accepted' /\ CulpritsKept
      BY <1>1, <2>1, <2>3, <2>5, <2>6, <2>7, ReturnWithCore, SamePeerSelf
    <2> QED BY <2>5, <2>8 DEF CoreOK
  <1>5. \/ Stop("aborted")
        \/ cl.body > 1
           /\ Return(e, c, via, [cl EXCEPT !.body = cl.body - 1, !.bodyBegun = TRUE],
                       peer[c], "CGI_Write")
        \/ /\ ReturnWith(e, c, via,
                         [cl EXCEPT !.body = 0, !.bodySent = TRUE, !.state = "CGI_Read"],
                         peer[c], "CGI_Read", pollfds, activePipes,
                         [desc EXCEPT ![cl.wr] = Free])
           /\ UNCHANGED <<tickets, child>>
    BY ZenonT(30) DEF SendBody, cl
  <1> QED BY <1>2, <1>3, <1>4, <1>5

\* CGI::receive reads until a short read, then closes the read end.
LEMMA ReceiveOutputCore ==
  ASSUME CoreOK, NEW e, e.fd \in Fds, NEW c \in Conns, NEW via,
         client[c].fd # NoFd, ReceiveOutput(e, c, via)
  PROVE  CoreOK' /\ CulpritsKept /\ tickets' = tickets
  <1> DEFINE cl == client[c]
             left == child[c].made - child[c].taken
  <1>1. /\ cl \in ClientRecords /\ peer[c] \in PeerRecords /\ cl.state = "CGI_Read"
        /\ HoldsOwn(c, cl, desc) /\ child[c] \in ChildRecords
        /\ tickets \in Nat /\ IsTable(pollfds, tickets) /\ activePipes \in SUBSET Fds
        /\ desc \in [Fds -> Objects] /\ child \in [Conns -> ChildRecords]
        /\ server \in {"running", "failed", "aborted", "killed"}
    BY CoreRecords DEF ReceiveOutput, CoreOK
  <1>2. CASE Fail(e, c, via, cl, peer[c])
    BY <1>1, <1>2, FailCore, SamePeerSelf
  <1>3. ASSUME NEW k \in Nat, NEW full \in BOOLEAN, NEW intact \in Appended(child[c], full),
               child' = [child EXCEPT ![c].status = Waited(child[c].status), ![c].taken = k,
                                      ![c].intact = intact]
        PROVE  child' \in [Conns -> ChildRecords]
    <2> DEFINE next == [child[c] EXCEPT !.status = Waited(child[c].status), !.taken = k,
                                        !.intact = intact]
    <2>0. intact \in BOOLEAN
      BY <1>1 DEF Appended, ChildRecords
    <2>1. next \in ChildRecords
      BY <1>1, <2>0 DEF ChildRecords, Waited
    <2>2. child' = [child EXCEPT ![c] = next]
      BY <1>1, <1>3
    <2> QED BY <1>1, <2>1, <2>2
  <1>4. child[c].made \in Nat /\ child[c].taken + ReadSize \in Nat
    BY <1>1, BoundsAssumption DEF ChildRecords
  <1>5. CASE /\ ReturnWith(e, c, via, cl, peer[c], "CGI_Read", pollfds, activePipes, desc)
             /\ tickets' = tickets /\ child' \in [Conns -> ChildRecords]
    <2>1. /\ \A d \in Conns \ {c} : HoldsOwn(d, client[d], desc)
          /\ \A g \in Fds, d \in Conns : desc[g] = Sock(d) => client[d].fd = g
      BY DEF CoreOK, OwnDescriptors
    <2>2. /\ server' = server
          /\ IsTable(pollfds', tickets)
          /\ activePipes' \subseteq Fds
          /\ client' \in [Conns -> ClientRecords]
          /\ desc' \in [Fds -> Objects]
          /\ peer' \in [Conns -> PeerRecords]
          /\ OwnDescriptors' /\ Accepted' /\ CulpritsKept
      BY <1>1, <1>5, <2>1, ReturnWithCore, SamePeerSelf
    <2> QED BY <1>1, <1>5, <2>2 DEF CoreOK
  <1>6. ASSUME NEW n \in Chunks,
               ReturnWith(e, c, via, OutputTaken(cl, n), peer[c], "Sending", pollfds,
                          activePipes, [desc EXCEPT ![cl.rd] = Free]),
               tickets' = tickets, child' \in [Conns -> ChildRecords]
        PROVE  CoreOK' /\ CulpritsKept /\ tickets' = tickets
    <2> DEFINE next == OutputTaken(cl, n)
               objs == [desc EXCEPT ![cl.rd] = Free]
    <2>1. next \in ClientRecords /\ next.fd = client[c].fd /\ next.state = "Sending"
      BY <1>1, ChunksNat DEF OutputTaken, ClientRecords, ClientStates
    <2>2. desc[cl.rd] = Rd(c) /\ desc[cl.fd] = Sock(c) /\ cl.fd \in Fds
      BY <1>1 DEF HoldsOwn, ClientRecords
    <2>3. /\ objs \in [Fds -> Objects]
          /\ \A g \in Fds : objs[g] # desc[g] =>
               desc[g] \in {Free, Rd(c), Wr(c)} /\ objs[g] \in {Free, Rd(c), Wr(c)}
      BY <1>1, <2>2 DEF Objects
    <2>4. ReturnWith(e, c, via, next, peer[c], "Sending", pollfds, activePipes, objs)
      BY <1>6
    <2> HIDE DEF next, objs
    <2>5. /\ \A d \in Conns \ {c} : HoldsOwn(d, client[d], objs)
          /\ \A g \in Fds, d \in Conns : objs[g] = Sock(d) => client[d].fd = g
          /\ \A g \in Fds : desc[g] = Sock(c) => objs[g] = Sock(c)
      BY <2>3, PipesOfOne
    <2>6. HoldsOwn(c, next, objs)
      BY <2>1, <2>2, <2>5 DEF HoldsOwn
    <2>7. /\ server' = server
          /\ IsTable(pollfds', tickets)
          /\ activePipes' \subseteq Fds
          /\ client' \in [Conns -> ClientRecords]
          /\ desc' \in [Fds -> Objects]
          /\ peer' \in [Conns -> PeerRecords]
          /\ OwnDescriptors' /\ Accepted' /\ CulpritsKept
      BY <1>1, <2>1, <2>3, <2>4, <2>5, <2>6, ReturnWithCore, SamePeerSelf
    <2> QED BY <1>1, <1>6, <2>7 DEF CoreOK
  <1>7. \/ Fail(e, c, via, cl, peer[c])
        \/ /\ ReturnWith(e, c, via, cl, peer[c], "CGI_Read", pollfds, activePipes, desc)
           /\ tickets' = tickets
           /\ \E intact \in Appended(child[c], TRUE) :
                child' = [child EXCEPT ![c].status = Waited(child[c].status),
                                       ![c].taken = child[c].taken + ReadSize,
                                       ![c].intact = intact]
        \/ /\ \E n \in Chunks :
                ReturnWith(e, c, via, OutputTaken(cl, n), peer[c], "Sending", pollfds,
                           activePipes, [desc EXCEPT ![cl.rd] = Free])
           /\ tickets' = tickets
           /\ \E intact \in Appended(child[c], FALSE) :
                child' = [child EXCEPT ![c].status = Waited(child[c].status),
                                       ![c].taken = child[c].made,
                                       ![c].intact = intact]
    BY ZenonT(30) DEF ReceiveOutput
  <1> HIDE DEF cl
  <1> QED BY <1>2, <1>3, <1>4, <1>5, <1>6, <1>7

\* Whatever the branch, handleConnection for a client that lives keeps the types
\* and the ownership of descriptors, and takes back no ticket.
LEMMA HandleConnectionCore ==
  ASSUME CoreOK, NEW e, e.fd \in Fds, NEW c \in Conns, NEW via,
         client[c].fd # NoFd, HandleConnection(e, c, via)
  PROVE  CoreOK' /\ CulpritsKept /\ tickets <= tickets'
  <1>1. /\ client[c] \in ClientRecords /\ peer[c] \in PeerRecords /\ tickets \in Nat
        /\ IsTable(pollfds, tickets) /\ activePipes \in SUBSET Fds
    BY CoreRecords DEF CoreOK
  <1>2. tickets <= tickets
    BY <1>1
  <1>3. CASE Receive(e, c, via)
    BY <1>2, <1>3, ReceiveCore
  <1>4. CASE Load(e, c, via)
    BY <1>2, <1>4, LoadCore
  <1>5. CASE LoadErrorPage(e, c, via)
    BY <1>2, <1>5, LoadErrorPageCore
  <1>6. CASE SendResponse(e, c, via, client[c], pollfds, activePipes)
    BY <1>1, <1>2, <1>6, SendResponseCore
  <1>7. CASE StartScript(e, c, via)
    BY <1>7, StartScriptCore
  <1>8. CASE SendBody(e, c, via)
    BY <1>2, <1>8, SendBodyCore
  <1>9. CASE ReceiveOutput(e, c, via)
    BY <1>2, <1>9, ReceiveOutputCore
  <1>10. CASE BadRequest(e, c, via)
    BY <1>1, <1>2, <1>10, FailCore, SamePeerSelf DEF BadRequest
  <1> QED
    BY <1>3, <1>4, <1>5, <1>6, <1>7, <1>8, <1>9, <1>10 DEF HandleConnection

-----------------------------------------------------------------------------
(* One step of the loop. *)

\* A snapshot stays one as tickets are handed out and entries are visited.
LEMMA SnapshotLater ==
  ASSUME NEW entries, NEW n \in Nat, NEW m \in Nat, n <= m, IsSnapshot(entries, n),
         NEW S \in SUBSET DOMAIN entries
  PROVE  IsSnapshot([t \in S |-> entries[t]], m)
  BY DEF IsSnapshot

\* The pipe of a CGI client hangs up.
LEMMA ScriptHangUpCore ==
  ASSUME CoreOK, IsSnapshot(todo, tickets), NEW t, VisitScriptHangUp(t)
  PROVE  CoreOK' /\ CulpritsKept /\ tickets <= tickets'
  <1>1. t \in DOMAIN todo /\ todo[t].fd \in Fds
    BY DEF VisitScriptHangUp, Visiting, IsSnapshot
  <1>2. PICK c \in PipeOwners(todo[t].fd) :
          LET e  == todo[t]
              cl == [client[c] EXCEPT !.state = "Sending", !.ko = TRUE,
                                      !.left = IF client[c].begun THEN client[c].left ELSE 1]
              table == SetEvents(Without(pollfds, e.fd), cl.fd, "OUT")
          IN  IF e.events = "OUT"
              THEN SendResponse(e, c, "client", cl, table, activePipes \ {e.fd})
              ELSE Fail(e, c, "client", cl, peer[c])
    BY DEF VisitScriptHangUp
  <1> DEFINE e  == todo[t]
             cl == [client[c] EXCEPT !.state = "Sending", !.ko = TRUE,
                                     !.left = IF client[c].begun THEN client[c].left ELSE 1]
             table == SetEvents(Without(pollfds, e.fd), cl.fd, "OUT")
             pipes == activePipes \ {e.fd}
  <1>3. c \in Conns
    BY DEF PipeOwners
  <1>4. /\ client[c] \in ClientRecords /\ peer[c] \in PeerRecords /\ tickets \in Nat
        /\ IsTable(pollfds, tickets) /\ activePipes \subseteq Fds
    BY <1>3, CoreRecords DEF CoreOK
  <1>5. cl \in ClientRecords /\ cl.fd = client[c].fd
    <2>1. (IF client[c].begun THEN client[c].left ELSE 1) \in Nat
      BY <1>4 DEF ClientRecords
    <2> QED BY <1>4, <2>1 DEF ClientRecords, ClientStates
  <1>6. IsTable(table, tickets) /\ pipes \in SUBSET Fds /\ tickets <= tickets
    <2>1. IsTable(Without(pollfds, e.fd), tickets) /\ "OUT" \in Events
      BY <1>4, WithoutType DEF Events
    <2>2. IsTable(table, tickets)
      BY <1>4, <2>1, SetEventsType
    <2> QED BY <1>4, <2>2
  <1>7. \/ SendResponse(e, c, "client", cl, table, pipes)
        \/ Fail(e, c, "client", cl, peer[c])
    BY <1>2
  <1>8. e.fd \in Fds
    BY <1>1
  <1> HIDE DEF e, cl, table, pipes
  <1>9. CASE SendResponse(e, c, "client", cl, table, pipes)
    BY <1>3, <1>5, <1>6, <1>8, <1>9, SendResponseCore
  <1>10. CASE Fail(e, c, "client", cl, peer[c])
    BY <1>3, <1>4, <1>5, <1>6, <1>8, <1>10, FailCore, SamePeerSelf
  <1> QED BY <1>7, <1>9, <1>10

\* A PollException removes an entry and perhaps a client.
LEMMA BrokenCore ==
  ASSUME CoreOK, IsSnapshot(todo, tickets), NEW t, VisitBroken(t)
  PROVE  CoreOK' /\ CulpritsKept /\ tickets <= tickets'
  <1>1. todo[t].fd \in Fds
    BY DEF VisitBroken, Visiting, IsSnapshot
  <1>2. /\ pollfds' = Without(pollfds, todo[t].fd)
        /\ Erase(todo[t].fd, client, peer, desc)
        /\ UNCHANGED <<server, tickets, activePipes, child>>
    BY DEF VisitBroken
  <1>3. /\ client \in [Conns -> ClientRecords] /\ peer \in [Conns -> PeerRecords]
        /\ desc \in [Fds -> Objects] /\ tickets \in Nat /\ IsTable(pollfds, tickets)
        /\ \A c \in Conns : HoldsOwn(c, client[c], desc)
        /\ \A g \in Fds, c \in Conns : desc[g] = Sock(c) => client[c].fd = g
        /\ \A c \in Conns : client[c].fd # NoFd => peer[c].phase = "open"
    BY DEF CoreOK, OwnDescriptors, Accepted
  <1>4. /\ client' \in [Conns -> ClientRecords]
        /\ peer' \in [Conns -> PeerRecords]
        /\ desc' \in [Fds -> Objects]
    BY <1>1, <1>2, <1>3, EraseType, NoClientType
  <1>5. OwnDescriptors'
    BY <1>1, <1>2, <1>3, EraseOwn
  <1>6. Accepted' /\ CulpritsKept
    BY <1>2, <1>3, EraseAccepted, SamePeerSelf
  <1>7. IsTable(pollfds', tickets)
    BY <1>2, <1>3, WithoutType
  <1> QED BY <1>2, <1>3, <1>4, <1>5, <1>6, <1>7 DEF CoreOK

\* A connection that waits for accept() has no client yet.
LEMMA ListenerCore ==
  ASSUME CoreOK, IsSnapshot(todo, tickets), NEW t, VisitListener(t)
  PROVE  CoreOK' /\ CulpritsKept /\ tickets <= tickets'
  <1>1. CASE Stop("failed")
    BY <1>1, StopCore DEF CoreOK
  <1>2. ASSUME NEW c \in Conns, NEW f \in Candidates(FreeFds),
               NEW r \in Residue \cup {NoFd}, NEW w \in Residue \cup {NoFd},
               peer[c].phase = "pending",
               client' = [client EXCEPT ![c] = NewClient(f, r, w)],
               desc' = [desc EXCEPT ![f] = Sock(c)],
               peer' = [peer EXCEPT ![c].phase = "open"],
               pollfds' = Add(pollfds, tickets, f, "IN"),
               tickets' = tickets + 1,
               UNCHANGED <<server, activePipes, child>>
        PROVE  CoreOK' /\ CulpritsKept /\ tickets <= tickets'
    <2>1. f \in Fds /\ desc[f] = Free
      <3>1. FreeFds \in SUBSET Fds
        BY DEF FreeFds
      <3> QED BY <3>1, CandidatesAssumption DEF FreeFds
    <2>2. /\ client \in [Conns -> ClientRecords] /\ peer \in [Conns -> PeerRecords]
          /\ desc \in [Fds -> Objects] /\ tickets \in Nat /\ IsTable(pollfds, tickets)
          /\ \A d \in Conns : HoldsOwn(d, client[d], desc)
          /\ \A g \in Fds, d \in Conns : desc[g] = Sock(d) => client[d].fd = g
          /\ \A d \in Conns : client[d].fd # NoFd => peer[d].phase = "open"
      BY DEF CoreOK, OwnDescriptors, Accepted
    <2>3. client[c].fd = NoFd
      BY <1>2, <2>2
    <2> DEFINE new == NewClient(f, r, w)
    <2>4. new \in ClientRecords /\ new.fd = f /\ new.state = "Receiving"
      BY <2>1, FdsAssumption DEF NewClient, NoClient, ClientRecords, ClientStates
    <2>5. client' = [client EXCEPT ![c] = new]
      BY <1>2
    <2> HIDE DEF new
    <2>6. client' \in [Conns -> ClientRecords]
      BY <2>2, <2>4, <2>5
    <2>7. peer' \in [Conns -> PeerRecords]
      <3>1. [peer[c] EXCEPT !.phase = "open"] \in PeerRecords
        BY <2>2 DEF PeerRecords
      <3> QED BY <1>2, <2>2, <3>1
    <2>8. desc' \in [Fds -> Objects]
      BY <1>2, <2>2 DEF Objects
    <2>9. IsTable(pollfds', tickets + 1)
      BY <1>2, <2>1, <2>2, AddType DEF Events
    <2>10. Accepted'
      BY <1>2, <2>2, <2>5 DEF Accepted, PeerRecords
    <2>11. ASSUME NEW d \in Conns PROVE HoldsOwn(d, client'[d], desc')
      <3>1. CASE d = c
        BY <1>2, <2>1, <2>2, <2>4, <2>5, <3>1 DEF HoldsOwn
      <3>2. CASE d # c
        <4>1. client'[d] = client[d] /\ client[d] \in ClientRecords
              /\ HoldsOwn(d, client[d], desc)
          BY <2>2, <2>5, <3>2
        <4>2. \A g \in Fds : desc[g] # Free => desc'[g] = desc[g]
          BY <1>2, <2>1, <2>2
        <4> QED BY <4>1, <4>2, ObjectsDistinct DEF HoldsOwn, ClientRecords
      <3> QED BY <3>1, <3>2
    <2>12. ASSUME NEW g \in Fds, NEW d \in Conns, desc'[g] = Sock(d)
           PROVE  client'[d].fd = g
      <3>1. CASE g = f
        <4>1. d = c
          BY <1>2, <2>1, <2>2, <2>12, <3>1, ObjectsDistinct
        <4> QED BY <2>2, <2>4, <2>5, <3>1, <4>1
      <3>2. CASE g # f
        <4>1. client[d].fd = g
          BY <1>2, <2>2, <2>12, <3>2
        <4>2. d # c
          BY <2>3, <4>1, FdsAssumption
        <4> QED BY <2>2, <2>5, <4>1, <4>2
      <3> QED BY <3>1, <3>2
    <2>13. OwnDescriptors'
      BY <2>11, <2>12 DEF OwnDescriptors
    <2>14. tickets + 1 \in Nat /\ tickets <= tickets + 1
      BY <2>2
    <2>15. CulpritsKept
      BY <1>2, <2>2 DEF CulpritsKept, Culprit, PeerRecords
    <2> QED
      BY <1>2, <2>6, <2>7, <2>8, <2>9, <2>10, <2>13, <2>14, <2>15 DEF CoreOK
  <1> QED BY <1>1, <1>2 DEF VisitListener

\* One visited entry.
LEMMA VisitCore ==
  ASSUME CoreOK, IsSnapshot(todo, tickets), Visit
  PROVE  CoreOK' /\ CulpritsKept /\ IsSnapshot(todo', tickets')
  <1>1. PICK t \in DOMAIN todo :
          \/ VisitUnownedHangUp(t) \/ VisitScriptHangUp(t) \/ VisitBroken(t)
          \/ VisitListener(t) \/ VisitClient(t) \/ VisitPipe(t) \/ VisitUnknown(t)
    BY DEF Visit
  <1>2. Visiting(t)
    BY <1>1 DEF VisitUnownedHangUp, VisitScriptHangUp, VisitBroken, VisitListener,
                VisitClient, VisitPipe, VisitUnknown
  <1>3. todo[t].fd \in Fds /\ tickets \in Nat
    BY <1>1 DEF IsSnapshot, CoreOK
  <1>4. tickets <= tickets
    BY <1>3
  <1>5. CoreOK' /\ CulpritsKept /\ tickets <= tickets'
    <2>1. CASE Stop("failed")
      BY <1>4, <2>1, StopCore
    <2>2. ASSUME NEW c \in Conns, NEW via, client[c].fd # NoFd,
                 HandleConnection(todo[t], c, via)
          PROVE  CoreOK' /\ CulpritsKept /\ tickets <= tickets'
      BY <1>3, <2>2, HandleConnectionCore
    <2>3. CASE VisitClient(t)
      <3>1. PICK c \in Conns : client[c].fd = todo[t].fd
                               /\ HandleConnection(todo[t], c, "client")
        BY <2>3 DEF VisitClient
      <3>2. client[c].fd # NoFd
        BY <1>3, <3>1, FdsAssumption
      <3> QED BY <2>2, <3>1, <3>2
    <2>4. CASE VisitPipe(t)
      <3>1. \/ Stop("failed")
            \/ \E c \in PipeOwners(todo[t].fd) : HandleConnection(todo[t], c, "pipe")
        BY <2>4 DEF VisitPipe
      <3>2. \A c \in PipeOwners(todo[t].fd) : c \in Conns /\ client[c].fd # NoFd
        BY DEF PipeOwners, Live
      <3> QED BY <2>1, <2>2, <3>1, <3>2
    <2>5. VisitUnownedHangUp(t) \/ VisitUnknown(t) => Stop("failed")
      BY DEF VisitUnownedHangUp, VisitUnknown
    <2> QED BY <1>1, <2>1, <2>3, <2>4, <2>5, ScriptHangUpCore, BrokenCore, ListenerCore
  <1>6. todo' = [u \in DOMAIN todo \ {t} |-> todo[u]] /\ tickets' \in Nat
    BY <1>2, <1>5 DEF Visiting, CoreOK
  <1>7. IsSnapshot(todo', tickets')
    BY <1>3, <1>5, <1>6, SnapshotLater
  <1> QED BY <1>5, <1>7

\* What poll() reports is a set of events.
LEMMA ReventsType ==
  ASSUME CoreOK, NEW p, p.fd \in Fds, NEW W
  PROVE  Revents(p, W) \in Reports
  <1>1. desc[p.fd] \in Objects
    BY DEF CoreOK
  <1>2. desc[p.fd].type \in {"free", "listen", "sock", "rd", "wr"}
    <2>1. \/ desc[p.fd] = Free \/ desc[p.fd] = Listen
          \/ \E c \in Conns : desc[p.fd] \in {Sock(c), Rd(c), Wr(c)}
      BY <1>1 DEF Objects
    <2>2. /\ Free.type = "free" /\ Listen.type = "listen"
          /\ \A c : Sock(c).type = "sock" /\ Rd(c).type = "rd" /\ Wr(c).type = "wr"
      BY DEF Free, Listen, Sock, Rd, Wr
    <2> QED BY <2>1, <2>2
  <1>3. CASE desc[p.fd].type = "free"
    BY <1>3 DEF Revents, Reports
  <1>4. CASE desc[p.fd].type = "listen"
    BY <1>4 DEF Revents, Reports
  <1>5. CASE desc[p.fd].type = "sock"
    BY <1>5 DEF Revents, Reports
  <1>6. CASE desc[p.fd].type = "rd"
    BY <1>6 DEF Revents, Reports
  <1>7. CASE desc[p.fd].type = "wr"
    BY <1>7 DEF Revents, Reports
  <1> QED BY <1>2, <1>3, <1>4, <1>5, <1>6, <1>7

\* poll() returns a snapshot of the table.
LEMMA PollCore ==
  ASSUME CoreOK, IsSnapshot(todo, tickets), NEW W, Poll(W)
  PROVE  CoreOK' /\ CulpritsKept /\ IsSnapshot(todo', tickets')
  <1>1. /\ IsTable(pollfds, tickets) /\ tickets' = tickets /\ Ready(W) \subseteq DOMAIN pollfds
        /\ todo' = [t \in Ready(W) |->
                      [fd |-> pollfds[t].fd, events |-> pollfds[t].events,
                       revents |-> Revents(pollfds[t], W)]]
    BY DEF CoreOK, Poll, Ready
  <1>2. \A t \in DOMAIN pollfds : Revents(pollfds[t], W) \in Reports
    BY <1>1, ReventsType DEF IsTable
  <1>3. IsSnapshot(todo', tickets')
    BY <1>1, <1>2 DEF IsSnapshot, IsTable
  <1>4. CoreOK'
    BY DEF Poll, CoreOK, OwnDescriptors, HoldsOwn, Accepted
  <1>5. CulpritsKept
    BY DEF Poll, CulpritsKept, Culprit
  <1> QED BY <1>3, <1>4, <1>5

\* The timeout moves every client to Sending, a state without pipes.
LEMMA TimeoutCore ==
  ASSUME CoreOK, IsSnapshot(todo, tickets), Timeout
  PROVE  CoreOK' /\ CulpritsKept /\ IsSnapshot(todo', tickets')
  <1>1. /\ pollfds' = TimedOut
        /\ client' = [c \in Conns |->
             IF Live(c) THEN [client[c] EXCEPT !.state = "Sending", !.left = 1, !.begun = FALSE]
             ELSE client[c]]
        /\ UNCHANGED <<server, todo, tickets, activePipes, desc, peer, child>>
    BY DEF Timeout
  <1>2. ASSUME NEW c \in Conns
        PROVE  LET next == [client[c] EXCEPT !.state = "Sending", !.left = 1, !.begun = FALSE]
               IN  /\ next \in ClientRecords /\ next.fd = client[c].fd
                   /\ next.state = "Sending"
    BY CoreRecords DEF ClientRecords, ClientStates
  <1>3. client' \in [Conns -> ClientRecords]
    BY <1>1, <1>2, CoreRecords
  <1>4. \A c \in Conns : /\ client'[c].fd = client[c].fd
                         /\ HoldsOwn(c, client'[c], desc')
    <2> TAKE c \in Conns
    <2>1. client'[c] = client[c] \/ (client'[c].fd = client[c].fd
                                     /\ client'[c].state = "Sending")
      BY <1>1, <1>2
    <2> QED BY <1>1, <2>1, CoreRecords, HoldsWithoutPipes
  <1>5. OwnDescriptors' /\ Accepted' /\ CulpritsKept
    BY <1>1, <1>4 DEF OwnDescriptors, Accepted, CoreOK, CulpritsKept, Culprit
  <1>6. IsTable(pollfds', tickets')
    BY <1>1 DEF TimedOut, IsTable, CoreOK, Events
  <1> QED BY <1>1, <1>3, <1>5, <1>6 DEF CoreOK

\* What a peer does touches its own record, and closes or opens nothing.
LEMMA PeerCore ==
  ASSUME CoreOK, IsSnapshot(todo, tickets), NEW c \in Conns,
         NEW p \in PeerRecords, PeerStep(c, p),
         p.phase = peer[c].phase \/ peer[c].phase = "idle",
         p.kind = peer[c].kind, peer[c].hung => p.hung
  PROVE  CoreOK' /\ CulpritsKept /\ IsSnapshot(todo', tickets')
  <1>1. peer' = [peer EXCEPT ![c] = p] /\ UNCHANGED <<loop, child>>
    BY DEF PeerStep
  <1>2. Accepted'
    BY <1>1 DEF Accepted, loop, CoreOK
  <1>3. CulpritsKept
    BY <1>1 DEF CulpritsKept, Culprit, CoreOK
  <1> QED BY <1>1, <1>2, <1>3 DEF CoreOK, OwnDescriptors, HoldsOwn, loop

\* What a script does touches its own record.
LEMMA ScriptCore ==
  ASSUME CoreOK, IsSnapshot(todo, tickets), NEW c \in Conns,
         NEW ch \in ChildRecords, ScriptStep(c, ch)
  PROVE  CoreOK' /\ CulpritsKept /\ IsSnapshot(todo', tickets')
  BY DEF ScriptStep, CoreOK, OwnDescriptors, HoldsOwn, Accepted, loop, CulpritsKept, Culprit

\* The environment keeps what the loop keeps.
LEMMA EnvironmentCore ==
  ASSUME CoreOK, IsSnapshot(todo, tickets), NEW c \in Conns,
         \/ Connect(c) \/ SendSegment(c) \/ Lengthen(c) \/ HalfClose(c) \/ HangUp(c)
         \/ ScriptWrites(c) \/ ScriptExits(c)
  PROVE  CoreOK' /\ CulpritsKept /\ IsSnapshot(todo', tickets')
  <1>1. peer[c] \in PeerRecords /\ child[c] \in ChildRecords
    BY CoreRecords
  <1>2. CASE Connect(c)
    <2> DEFINE p == [peer[c] EXCEPT !.phase = "pending"]
    <2>1. p \in PeerRecords /\ peer[c].phase = "idle" /\ p.kind = peer[c].kind
          /\ (peer[c].hung => p.hung)
      BY <1>1, <1>2 DEF PeerRecords, Connect
    <2>2. PeerStep(c, p)
      BY <1>2 DEF Connect
    <2> HIDE DEF p
    <2> QED BY <2>1, <2>2, PeerCore
  <1>3. CASE SendSegment(c)
    <2> DEFINE p == [peer[c] EXCEPT !.unsent = peer[c].unsent - 1,
                                    !.inbox = peer[c].inbox + 1]
    <2>1. p \in PeerRecords /\ p.phase = peer[c].phase /\ p.kind = peer[c].kind
          /\ (peer[c].hung => p.hung)
      <3>1. peer[c].unsent - 1 \in Nat /\ peer[c].inbox + 1 \in Nat
        BY <1>1, <1>3 DEF PeerRecords, SendSegment
      <3> QED BY <1>1, <3>1 DEF PeerRecords
    <2>2. PeerStep(c, p)
      BY <1>3 DEF SendSegment
    <2> HIDE DEF p
    <2> QED BY <2>1, <2>2, PeerCore
  <1>4. CASE HalfClose(c)
    <2> DEFINE p == [peer[c] EXCEPT !.eof = TRUE]
    <2>1. p \in PeerRecords /\ p.phase = peer[c].phase /\ p.kind = peer[c].kind
          /\ (peer[c].hung => p.hung)
      BY <1>1 DEF PeerRecords
    <2> QED BY <1>4, <2>1, PeerCore DEF HalfClose
  <1>5. CASE HangUp(c)
    <2> DEFINE p == [peer[c] EXCEPT !.hung = TRUE]
    <2>1. p \in PeerRecords /\ p.phase = peer[c].phase /\ p.kind = peer[c].kind
          /\ (peer[c].hung => p.hung)
      BY <1>1 DEF PeerRecords
    <2> QED BY <1>5, <2>1, PeerCore DEF HangUp
  <1>6. CASE ScriptWrites(c)
    <2>1. PICK binary \in {child[c].binary, TRUE} :
            ScriptStep(c, [child[c] EXCEPT !.made = child[c].made + 1, !.binary = binary])
      BY <1>6 DEF ScriptWrites
    <2>2. [child[c] EXCEPT !.made = child[c].made + 1, !.binary = binary] \in ChildRecords
      <3>1. child[c].made \in Nat /\ child[c].binary \in BOOLEAN
        BY <1>1 DEF ChildRecords
      <3>2. child[c].made + 1 \in Nat
        BY <3>1
      <3>3. binary \in BOOLEAN
        BY <3>1, Zenon
      <3> QED BY <1>1, <3>2, <3>3 DEF ChildRecords
    <2> QED BY <2>1, <2>2, ScriptCore
  <1>7. CASE ScriptExits(c)
    <2>1. [child[c] EXCEPT !.status = "exited"] \in ChildRecords
      BY <1>1 DEF ChildRecords
    <2> QED BY <1>7, <2>1, ScriptCore DEF ScriptExits
  <1>8. CASE Lengthen(c)
    <2> DEFINE p == [peer[c] EXCEPT !.need = peer[c].need + 1,
                                    !.unsent = peer[c].unsent + 1]
    <2>1. p \in PeerRecords /\ p.phase = peer[c].phase /\ p.kind = peer[c].kind
          /\ (peer[c].hung => p.hung)
      <3>1. peer[c].need + 1 \in Nat /\ peer[c].unsent + 1 \in Nat
        BY <1>1 DEF PeerRecords
      <3> QED BY <1>1, <3>1 DEF PeerRecords
    <2>2. PeerStep(c, p)
      BY <1>8 DEF Lengthen
    <2> HIDE DEF p
    <2> QED BY <2>1, <2>2, PeerCore
  <1> QED BY <1>2, <1>3, <1>4, <1>5, <1>6, <1>7, <1>8

-----------------------------------------------------------------------------
(* The theorems. *)

\* The inductive invariant: types, ownership and accepted clients together.
Consistent == CoreOK /\ IsSnapshot(todo, tickets)

\* A server that has just begun to listen is consistent.
LEMMA InitConsistent == Init => Consistent
  <1> SUFFICES ASSUME Init PROVE Consistent
    OBVIOUS
  <1>1. /\ server = "running" /\ tickets = 1 /\ activePipes = {}
        /\ client = [c \in Conns |-> NoClient]
        /\ desc = [f \in Fds |-> IF f = ListenFd THEN Listen ELSE Free]
        /\ child = [c \in Conns |-> [status |-> "none", made |-> 0, taken |-> 0,
                                     binary |-> FALSE, intact |-> TRUE]]
    BY DEF Init
  <1>2. IsTable(pollfds, tickets) /\ IsSnapshot(todo, tickets)
    BY FdsAssumption DEF Init, IsTable, IsSnapshot, Events
  <1>3. peer \in [Conns -> PeerRecords]
    <2>1. PICK kind \in [Conns -> Kinds], need \in [Conns -> 1 .. MaxSegs],
               extra \in [Conns -> 0 .. MaxExtra] :
            peer = [c \in Conns |->
                      [kind |-> kind[c], phase |-> "idle", need |-> need[c],
                       unsent |-> need[c] + extra[c], inbox |-> 0,
                       eof |-> FALSE, hung |-> FALSE, got |-> "nothing"]]
      BY DEF Init
    <2>2. \A c \in Conns : kind[c] \in Kinds /\ need[c] \in Nat /\ need[c] + extra[c] \in Nat
      BY BoundsAssumption
    <2> QED BY <2>1, <2>2 DEF PeerRecords
  <1>4. client \in [Conns -> ClientRecords] /\ \A c \in Conns : client[c].fd = NoFd
    BY <1>1, NoClientType DEF NoClient
  <1>5. desc \in [Fds -> Objects]
    BY <1>1 DEF Objects
  <1>6. child \in [Conns -> ChildRecords]
    BY <1>1 DEF ChildRecords
  <1>7. OwnDescriptors
    <2>1. \A f \in Fds, c \in Conns : desc[f] # Sock(c)
      BY <1>1, ObjectsDistinct
    <2> QED BY <1>4, <2>1 DEF OwnDescriptors, HoldsOwn
  <1> QED BY <1>1, <1>2, <1>3, <1>4, <1>5, <1>6, <1>7 DEF Consistent, CoreOK, Accepted

\* Every step keeps it, and forgets no culprit.
LEMMA NextConsistent == Consistent /\ [Next]_vars => Consistent' /\ CulpritsKept
  <1> SUFFICES ASSUME Consistent, [Next]_vars PROVE Consistent' /\ CulpritsKept
    OBVIOUS
  <1> USE DEF Consistent
  <1>1. CASE UNCHANGED vars
    BY <1>1 DEF vars, CoreOK, OwnDescriptors, HoldsOwn, Accepted, CulpritsKept, Culprit
  <1>2. ASSUME NEW W, Poll(W) PROVE Consistent' /\ CulpritsKept
    BY <1>2, PollCore
  <1>3. CASE Timeout
    BY <1>3, TimeoutCore
  <1>4. CASE Visit
    BY <1>4, VisitCore
  <1>5. ASSUME NEW c \in Conns,
               \/ Connect(c) \/ SendSegment(c) \/ Lengthen(c) \/ HalfClose(c) \/ HangUp(c)
               \/ ScriptWrites(c) \/ ScriptExits(c)
        PROVE  Consistent' /\ CulpritsKept
    BY <1>5, EnvironmentCore
  <1> QED BY <1>1, <1>2, <1>3, <1>4, <1>5 DEF Next

\* Every reachable state is consistent.
THEOREM Consistency == Spec => []Consistent
  BY InitConsistent, NextConsistent, PTL DEF Spec

\* The loop keeps its types whatever the peers and the scripts do: the poll table
\* only ever holds entries that addPollFD appended, for descriptors of the process.
THEOREM TypeCorrect == Spec => []TypeOK
  <1>1. Consistent => TypeOK
    BY DEF Consistent, CoreOK, TypeOK
  <1> QED BY <1>1, Consistency, PTL

\* Every descriptor the server reads, writes or closes for a client is that
\* client's own, and no socket outlives its client: for any number of clients and
\* descriptors, any residue in the uninitialised pipe fields, any choice of the
\* kernel's, and with peers and scripts that stop whenever they like.
THEOREM Ownership == Spec => []OwnDescriptors
  <1>1. Consistent => OwnDescriptors
    BY DEF Consistent, CoreOK
  <1> QED BY <1>1, Consistency, PTL
=============================================================================
