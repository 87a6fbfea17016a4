------------------------------ MODULE EventLoop ------------------------------
(***************************************************************************)
(* The event loop of the server: HTTPServer::handleActivePollFDs with the  *)
(* poll table, the maps of clients and of pipes, the state machine of a    *)
(* Client, the CGI pipes it opens, and the kernel underneath (descriptor   *)
(* numbers, readiness, child processes).  The peers, the scripts and the   *)
(* kernel are the environment; everything the server does between two      *)
(* calls of poll() is one thread, so each visited descriptor is one step.  *)
(*                                                                         *)
(* What a request asks for is fixed by a constant class (its kind); sizes  *)
(* are counted in reads or writes of one buffer.                           *)
(***************************************************************************)
EXTENDS Naturals, FiniteSets

CONSTANTS
  Conns,       \* the connections peers may open, each used once
  Fds,         \* descriptor numbers the process may hold
  ListenFd,    \* the listening socket
  NoFd,        \* "no descriptor"; also a pipe number no descriptor has
  Residue,     \* numbers the uninitialised pipe fields of a Client may hold
  Candidates(_), \* the numbers the kernel may hand out of a set of free ones
  Kinds,       \* the classes of requests the peers of this instance send
  MayHalfClose, MayHangUp, MayLengthen, \* peers that shut down one way, that
               \* reset, that add to a request that is not all sent yet
  MaxSegs,     \* reads a request takes to arrive, at most
  MaxExtra,    \* segments a peer may send after its request, at most
  MaxChunks,   \* visits that load or send one file or response, at most
  MaxBody,     \* writes a request body takes to reach a script, at most
  MaxOut,      \* units of output a script writes, at most
  ReadSize     \* units CGI::receive reads at once

\* A request served without a script: a file read or written, a file deleted, a
\* redirection, refused while received (405, 413) or while loaded (404), longer
\* than its Content-Length, or naming a file that opens but cannot be read.
StaticKinds == {"file", "delete", "redirect", "refused", "missing", "surplus",
                "unreadable"}

\* A GET or POST to a CGI location: a script that runs, one that is refused
\* while received (413) or not found, a body longer than its Content-Length, a
\* path after the script without a query, a target that names no .py file.
CgiKinds == {"script", "script refused", "script missing", "script surplus",
             "script path", "not a script"}

\* A request that ends the process, although no script is involved.  "malformed":
\* a header line without a value or a length that is no number, or any request to
\* a block without a limit; "unrouted": a target no location of the chosen block
\* prefixes, or no Host; "unservable": a listing of a directory that cannot be
\* opened (it is missing, or no descriptor is left), a path exists() throws on.
FatalKinds == {"malformed", "unrouted", "unservable"}

AllKinds == StaticKinds \cup CgiKinds \cup FatalKinds

ASSUME FdsAssumption ==
  /\ ListenFd \in Fds
  /\ NoFd \notin Fds
  /\ Residue \subseteq Fds

\* POSIX promises the lowest; nothing below relies on which one it is.
ASSUME CandidatesAssumption ==
  \A S \in SUBSET Fds : /\ Candidates(S) \subseteq S
                        /\ S # {} => Candidates(S) # {}

ASSUME KindsAssumption == Kinds \subseteq AllKinds

ASSUME PowersAssumption ==
  MayHalfClose \in BOOLEAN /\ MayHangUp \in BOOLEAN /\ MayLengthen \in BOOLEAN

ASSUME BoundsAssumption ==
  /\ MaxSegs \in Nat \ {0} /\ MaxChunks \in Nat \ {0} /\ ReadSize \in Nat \ {0}
  /\ MaxExtra \in Nat /\ MaxBody \in Nat /\ MaxOut \in Nat

VARIABLES
  server,      \* "running", or how the process ended
  pollfds,     \* _poll_fds: ticket (order of addPollFD) -> entry
  todo,        \* the entries of the last poll() still to be visited
  tickets,     \* addPollFD calls so far
  activePipes, \* _active_pipes
  client,      \* _active_clients, by connection
  desc,        \* the kernel's descriptor table of the process
  peer,        \* what each peer sent and received
  child        \* the script of each connection

loop == <<server, pollfds, todo, tickets, activePipes, client, desc>>
vars == <<server, pollfds, todo, tickets, activePipes, client, desc, peer, child>>

-----------------------------------------------------------------------------
\* The states of a Client.
ClientStates == {"Receiving", "CGI_Start", "CGI_Write", "CGI_Read", "Loading",
                 "Sending", "Done", "Error"}

\* What a descriptor number stands for.
Free    == [type |-> "free", conn |-> NoFd]
Listen  == [type |-> "listen", conn |-> NoFd]
Sock(c) == [type |-> "sock", conn |-> c]
Rd(c)   == [type |-> "rd", conn |-> c]   \* parent's end of _cgiToServerFd
Wr(c)   == [type |-> "wr", conn |-> c]   \* parent's end of _serverToCgiFd

Objects == {Free, Listen} \cup {Sock(c) : c \in Conns}
             \cup {Rd(c) : c \in Conns} \cup {Wr(c) : c \in Conns}

FreeFds == {f \in Fds : desc[f] = Free}

Live(c) == client[c].fd # NoFd

NoClient ==
  [fd |-> NoFd, state |-> "Done", cgi |-> FALSE, open |-> FALSE,
   bodyBegun |-> FALSE, bodySent |-> FALSE, hasRead |-> FALSE, ko |-> FALSE,
   begun |-> FALSE, rd |-> NoFd, wr |-> NoFd, left |-> 0, body |-> 0]

NewClientUnset(f, r, w) ==
  [NoClient EXCEPT !.fd = f, !.state = "Unknown", !.rd = r, !.wr = w]

\* Client::Client: the flags are set, the pipe numbers are not.
NewClient(f, r, w) ==
  [NoClient EXCEPT !.fd = f, !.state = "Receiving", !.rd = r, !.wr = w]

Chunks == 1 .. MaxChunks

\* getClientByPipeFd: any client whose pipe fields hold this number.
PipeOwners(f) == {c \in Conns : Live(c) /\ f \in {client[c].rd, client[c].wr}}

-----------------------------------------------------------------------------
\* The poll table.  Tickets stand for positions: entries are only appended.
Add(table, ticket, f, events) ==
  [t \in DOMAIN table \cup {ticket} |->
     IF t = ticket THEN [fd |-> f, events |-> events] ELSE table[t]]

\* setEvents changes the first entry of that number.
SetEvents(table, f, events) ==
  [t \in DOMAIN table |->
     IF /\ table[t].fd = f
        /\ \A u \in DOMAIN table : table[u].fd = f => t <= u
     THEN [fd |-> f, events |-> events]
     ELSE table[t]]

WithoutNone(table, f) == table

\* removeFD drops every entry of that number.
Without(table, f) ==
  [t \in {u \in DOMAIN table : table[u].fd # f} |-> table[t]]

\* A socket or a pipe nothing was written to has room, another may be full; the
\* full ones that have room again are those of W.
HasRoom(o, W) ==
  \/ o \in W
  \/ o.type = "sock" /\ peer[o.conn].got = "nothing"
  \/ o.type = "wr" /\ ~client[o.conn].bodyBegun

\* What poll() reports for an entry.
Revents(p, W) ==
  LET o == desc[p.fd]
      c == o.conn
  IN  CASE o.type = "free"   -> {"NVAL"}
        [] o.type = "listen" ->
             IF \E d \in Conns : peer[d].phase = "pending" THEN {"IN"} ELSE {}
        [] o.type = "sock"   ->
             (IF p.events = "IN" /\ (peer[c].inbox > 0 \/ peer[c].eof \/ peer[c].hung)
              THEN {"IN"} ELSE {})
             \cup (IF p.events = "OUT" /\ (HasRoom(o, W) \/ peer[c].hung) THEN {"OUT"} ELSE {})
             \cup (IF peer[c].hung THEN {"ERR", "HUP"} ELSE {})
        [] o.type = "rd"     ->
             (IF p.events = "IN" /\ child[c].made > child[c].taken THEN {"IN"} ELSE {})
             \cup (IF child[c].status # "running" THEN {"HUP"} ELSE {})
        [] o.type = "wr"     ->
             (IF p.events = "OUT" /\ HasRoom(o, W) THEN {"OUT"} ELSE {})
             \cup (IF child[c].status # "running" THEN {"ERR"} ELSE {})

\* What the server asks poll() for room in, and what of it may be full.
Outlets == {desc[pollfds[t].fd] : t \in {u \in DOMAIN pollfds : pollfds[u].events = "OUT"}}
Fillable == {o \in Outlets : o.type \in {"sock", "wr"} /\ ~HasRoom(o, {})}

Ready(W) == {t \in DOMAIN pollfds : Revents(pollfds[t], W) # {}}

-----------------------------------------------------------------------------
\* The process ends; how is one of "failed" (run() caught a runtime_error and
\* returned), "aborted" (an exception nobody catches, a signal) and "killed"
\* (a handler called _exit).
Stop(how) ==
  /\ server' = how
  /\ UNCHANGED <<pollfds, tickets, activePipes, client, desc, peer, child>>

MaskSendingIn(state) ==
  IF state \in {"Receiving", "CGI_Read", "Sending"} THEN "IN" ELSE "OUT"

\* The events a state waits for (the switch of handleExistingConnection).
Mask(state) == IF state \in {"Receiving", "CGI_Read"} THEN "IN" ELSE "OUT"

EraseUnclosed(f, cs, ps, objs) ==
  /\ client' = [c \in Conns |-> IF cs[c].fd = f THEN NoClient ELSE cs[c]]
  /\ peer' = [c \in Conns |-> IF cs[c].fd = f
                              THEN [ps[c] EXCEPT !.phase = "closed"] ELSE ps[c]]
  /\ desc' = objs

\* _active_clients.erase(f), after the records cs, ps and the descriptors objs:
\* the destructor closes the socket of the client registered under f.
Erase(f, cs, ps, objs) ==
  /\ client' = [c \in Conns |-> IF cs[c].fd = f THEN NoClient ELSE cs[c]]
  /\ peer' = [c \in Conns |-> IF cs[c].fd = f
                              THEN [ps[c] EXCEPT !.phase = "closed"] ELSE ps[c]]
  /\ desc' = [g \in Fds |-> IF g = f /\ \E c \in Conns : cs[c].fd = f
                            THEN Free ELSE objs[g]]

AfterClientKept(e, cs, ps, ret, table, pipes, objs) ==
  /\ activePipes' = pipes
  /\ pollfds' = SetEvents(table, e.fd, Mask(ret))
  /\ client' = cs /\ peer' = ps /\ desc' = objs

\* What handleExistingConnection does with the state a handler returned.
AfterClient(e, cs, ps, ret, table, pipes, objs) ==
  /\ activePipes' = pipes
  /\ IF ret = "Done"
     THEN /\ pollfds' = Without(table, e.fd)
          /\ Erase(e.fd, cs, ps, objs)
     ELSE /\ pollfds' = SetEvents(table, e.fd, Mask(ret))
          /\ client' = cs /\ peer' = ps /\ desc' = objs

\* What handlePipeConnection does after the handler of client c.
AfterPipe(e, c, cs, ps, table, pipes, objs) ==
  LET cl   == cs[c]
      sent == IF cl.bodySent
              THEN SetEvents(Without(table, e.fd), cl.fd, "IN") ELSE table
      read == IF cl.hasRead
              THEN SetEvents(Without(sent, e.fd), cl.fd, "OUT") ELSE sent
  IN  /\ pollfds' = read
      /\ activePipes' = IF cl.bodySent \/ cl.hasRead THEN pipes \ {e.fd} ELSE pipes
      /\ client' = cs /\ peer' = ps /\ desc' = objs

\* A handler of client c returns; via says which of the two called it.
ReturnWith(e, c, via, cl, pr, ret, table, pipes, objs) ==
  LET cs == [client EXCEPT ![c] = cl]
      ps == [peer EXCEPT ![c] = pr]
  IN  /\ server' = server
      /\ IF via = "client" THEN AfterClient(e, cs, ps, ret, table, pipes, objs)
                           ELSE AfterPipe(e, c, cs, ps, table, pipes, objs)

\* The same, for a handler that opens and closes nothing.
Return(e, c, via, cl, pr, ret) ==
  /\ ReturnWith(e, c, via, cl, pr, ret, pollfds, activePipes, desc)
  /\ UNCHANGED <<tickets, child>>

FatalAlways(cl) == TRUE

\* Whether a ClientException ends the process.
Fatal(cl) == cl.cgi

\* catch (ClientException &e): a CGI request ends the process, any other gets
\* an error page or, when there is none, a bare status line and text.  Opening
\* the page through a stream that is open already leaves a stream that is
\* neither closed nor readable: its end is never seen (left = 0).
Fail(e, c, via, cl, pr) ==
  IF Fatal(cl) THEN Stop("killed")
  ELSE \/ /\ ~cl.open
          /\ \E n \in Chunks, s \in {"Error", "Sending"} :
               Return(e, c, via,
                      [cl EXCEPT !.state = s, !.left = n, !.begun = FALSE,
                                 !.open = (s = "Error")], pr, s)
       \/ /\ cl.open
          /\ Return(e, c, via,
                    [cl EXCEPT !.state = "Error", !.left = 0, !.begun = FALSE], pr, "Error")

-----------------------------------------------------------------------------
\* Client::handleConnection, one operator per branch.  e is the entry visited,
\* whose mask (not what poll reported) selects the branch.

\* The whole request has been read: resolveServerSetting to the end of the
\* first branch.  A body longer than its Content-Length was not recognised as
\* complete by receive(), so _state stays Receiving under a Loading return.
Complete(e, c, via, pr) ==
  LET cl == [client[c] EXCEPT !.cgi = pr.kind \in CgiKinds]
  IN  CASE pr.kind \in {"malformed", "unrouted"} -> Stop("aborted")
        [] pr.kind \in {"refused", "script refused"} -> Fail(e, c, via, cl, pr)
        [] pr.kind \in {"surplus", "script surplus"} /\ peer[c].need > 0 ->
             Return(e, c, via, cl, pr, "Loading")
        [] OTHER -> \E n \in Chunks :
             Return(e, c, via, [cl EXCEPT !.state = "Loading", !.left = n], pr, "Loading")

\* One read; with the headers in, the location is seen to be for scripts or not,
\* and stoull, stoi, substr and resolveLocation may throw what nobody catches.
Receive(e, c, via) ==
  /\ e.events = "IN" /\ client[c].state = "Receiving"
  /\ LET p == peer[c]
         r == [p EXCEPT !.inbox = p.inbox - 1,
                        !.need = IF p.need = 0 THEN 0 ELSE p.need - 1]
     IN  \* read() returned -1, and std::string(buffer, -1) throws
         \/ /\ p.hung \/ (p.inbox = 0 /\ ~p.eof)
            /\ Stop("aborted")
         \* read() returned 0
         \/ /\ ~p.hung /\ p.inbox = 0 /\ p.eof
            /\ Return(e, c, via, client[c], p, "Receiving")
         \/ /\ ~p.hung /\ p.inbox > 0
            /\ IF r.need > 0
               THEN \/ p.kind \in {"malformed", "unrouted"} /\ Stop("aborted")
                    \/ \E seen \in {client[c].cgi, p.kind \in CgiKinds} :
                         Return(e, c, via, [client[c] EXCEPT !.cgi = seen], r, "Receiving")
               ELSE Complete(e, c, via, r)

\* CGI::parseURIForCGI: the target names a script to run, or it does not.
FindScript(e, c, via) ==
  LET cl == client[c]
      p  == peer[c]
  IN  CASE p.kind = "script missing" -> Fail(e, c, via, cl, p)
        [] p.kind = "script path" -> Stop("aborted")
        [] p.kind = "not a script" ->
             Return(e, c, via, [cl EXCEPT !.state = "Error"], p, "Error")
        [] OTHER ->
             Return(e, c, via, [cl EXCEPT !.state = "CGI_Start"], p, "CGI_Start")

\* FileManager::manage: one chunk of the file is read or written, the first call
\* opens it.  readdir(NULL) is a crash, a filesystem_error is caught by run().
ManageFile(e, c, via) ==
  LET cl == client[c]
      p  == peer[c]
  IN  CASE p.kind \in {"redirect", "delete"} ->
             Return(e, c, via, [cl EXCEPT !.state = "Sending", !.left = 1,
                                          !.begun = FALSE], p, "Sending")
        [] p.kind = "missing" -> Fail(e, c, via, cl, p)
        [] p.kind = "unreadable" -> Fail(e, c, via, [cl EXCEPT !.open = TRUE], p)
        [] p.kind = "unservable" -> \E how \in {"failed", "aborted"} : Stop(how)
        [] OTHER ->
             IF cl.left > 1
             THEN Return(e, c, via, [cl EXCEPT !.left = cl.left - 1, !.open = TRUE],
                         p, "Loading")
             ELSE \E n \in Chunks :
                    Return(e, c, via, [cl EXCEPT !.state = "Sending", !.left = n,
                                                 !.open = TRUE], p, "Sending")

Load(e, c, via) ==
  /\ e.events = "OUT" /\ client[c].state = "Loading"
  /\ IF client[c].cgi THEN FindScript(e, c, via) ELSE ManageFile(e, c, via)

\* FileManager::loadErrorPage.  A stream never opened is at its end at once and
\* leaves an empty response.
LoadErrorPage(e, c, via) ==
  /\ e.events = "OUT" /\ client[c].state = "Error"
  /\ LET cl == client[c]
     IN  \/ /\ ~cl.open
            /\ Return(e, c, via, [cl EXCEPT !.state = "Sending", !.left = 0],
                      peer[c], "Sending")
         \/ /\ cl.open /\ cl.left = 1
            /\ \E n \in Chunks :
                 Return(e, c, via, [cl EXCEPT !.state = "Sending", !.left = n],
                        peer[c], "Sending")
         \/ /\ cl.open /\ cl.left # 1
            /\ Return(e, c, via,
                      [cl EXCEPT !.left = IF cl.left = 0 THEN 0 ELSE cl.left - 1],
                      peer[c], "Error")

\* What the peer has received once another chunk is written: a response whose
\* first bytes follow those of another one is spliced into it.
GotAfter(cl, p) ==
  IF p.got = "spliced" \/ (p.got # "nothing" /\ ~cl.begun) THEN "spliced"
  ELSE IF cl.left = 1 THEN "answer" ELSE "partial"

WrittenEarly(cl) == cl.left <= 2

\* The chunk being written is the last of the response.
Written(cl) == cl.left <= 1

\* HTTPResponse::send, for the client record cl over the given poll table and
\* pipes.  Writing to a socket the peer has reset throws or raises SIGPIPE.
SendResponse(e, c, via, cl, table, pipes) ==
  LET p == peer[c]
  IN  \/ /\ p.hung
         /\ \E how \in {"failed", "aborted"} : Stop(how)
      \/ /\ ~p.hung
         /\ LET ret == IF Written(cl) THEN "Done" ELSE "Sending"
                next == [cl EXCEPT !.state = ret, !.begun = (ret = "Sending"),
                                   !.left = IF cl.left = 0 THEN 0 ELSE cl.left - 1]
                got == IF cl.left = 0 THEN p.got ELSE GotAfter(cl, p)
            IN  ReturnWith(e, c, via, next, [p EXCEPT !.got = got], ret,
                           table, pipes, desc)
         /\ UNCHANGED <<tickets, child>>

\* The parent's ends r and w of the pipes are open, and the child runs.  The read
\* end is polled first; with a body of b writes, the write end after it.
Started(e, c, via, r, w) ==
  LET cl     == [client[c] EXCEPT !.rd = r, !.wr = w]
      polled == Add(pollfds, tickets, r, "IN")
  IN  \/ /\ ReturnWith(e, c, via, [cl EXCEPT !.state = "CGI_Read"], peer[c], "CGI_Read",
                       polled, activePipes \cup {r}, [desc EXCEPT ![r] = Rd(c)])
         /\ tickets' = tickets + 1
      \/ /\ \E b \in 1 .. MaxBody :
              ReturnWith(e, c, via, [cl EXCEPT !.state = "CGI_Write", !.body = b],
                         peer[c], "CGI_Write", Add(polled, tickets + 1, w, "OUT"),
                         activePipes \cup {r, w}, [desc EXCEPT ![r] = Rd(c), ![w] = Wr(c)])
         /\ tickets' = tickets + 2

\* CGI::start: two pipes, one child, the parent's copies of the child's ends
\* closed (the child's are a and a fourth number, free again when this returns).
StartScript(e, c, via) ==
  /\ e.events = "OUT" /\ client[c].state = "CGI_Start"
  /\ \/ /\ Cardinality(FreeFds) < 4
        /\ Fail(e, c, via, client[c], peer[c])
     \/ /\ Cardinality(FreeFds) >= 4
        /\ child' = [child EXCEPT ![c].status = "running"]
        /\ \E a \in Candidates(FreeFds) : \E w \in Candidates(FreeFds \ {a}) :
             \E r \in Candidates(FreeFds \ {a, w}) : Started(e, c, via, r, w)

\* CGI::send.  The pipe has room, or write() waits until the script reads; a
\* script that is gone turns the write into SIGPIPE.
SendBody(e, c, via) ==
  /\ e.events = "OUT" /\ client[c].state = "CGI_Write"
  /\ LET cl == client[c]
     IN  \/ /\ child[c].status # "running"
            /\ Stop("aborted")
         \/ /\ child[c].status = "running" /\ cl.body > 1
            /\ Return(e, c, via, [cl EXCEPT !.body = cl.body - 1, !.bodyBegun = TRUE],
                      peer[c], "CGI_Write")
         \/ /\ child[c].status = "running" /\ cl.body = 1
            /\ ReturnWith(e, c, via,
                          [cl EXCEPT !.body = 0, !.bodySent = TRUE, !.state = "CGI_Read"],
                          peer[c], "CGI_Read", pollfds, activePipes,
                          [desc EXCEPT ![cl.wr] = Free])
            /\ UNCHANGED <<tickets, child>>

EndedUnchecked(c) == TRUE

\* waitpid(_pid) returns.
Ended(c) == child[c].status # "running"

\* What waitpid leaves of a script: one that has ended is reaped.
Waited(status) == IF status = "running" THEN status ELSE "reaped"

OutputTakenStillReading(cl, n) ==
  [cl EXCEPT !.hasRead = TRUE, !.state = "CGI_Read", !.left = n]

\* The client whose script's output is in, a response of n chunks.
OutputTaken(cl, n) ==
  [cl EXCEPT !.hasRead = TRUE, !.state = "Sending", !.left = n]

\* body += buffer, a C string: of what was read it takes what precedes the first
\* NUL; a read that fills the buffer leaves no NUL at its end, and what follows in
\* memory may be taken too (undefined).
Appended(ch, full) == IF ch.binary \/ full THEN {ch.intact, FALSE} ELSE {ch.intact}

\* CGI::receive waits for the script to end before it reads; a second wait
\* fails and leaves status unread, which may look like an error.  A short read
\* ends the output, which becomes the response (FileManager::manageCgi).
ReceiveOutput(e, c, via) ==
  /\ e.events = "IN" /\ client[c].state = "CGI_Read"
  /\ Ended(c)
  /\ LET cl   == client[c]
         left == child[c].made - child[c].taken
     IN  \/ /\ child[c].status = "reaped"
            /\ Fail(e, c, via, cl, peer[c])
         \/ /\ left >= ReadSize
            /\ ReturnWith(e, c, via, cl, peer[c], "CGI_Read", pollfds, activePipes, desc)
            /\ tickets' = tickets
            /\ \E intact \in Appended(child[c], TRUE) :
                 child' = [child EXCEPT ![c].status = Waited(child[c].status),
                                        ![c].taken = child[c].taken + ReadSize,
                                        ![c].intact = intact]
         \/ /\ left < ReadSize
            /\ \E n \in Chunks :
                 ReturnWith(e, c, via, OutputTaken(cl, n), peer[c], "Sending", pollfds, activePipes,
                            [desc EXCEPT ![cl.rd] = Free])
            /\ tickets' = tickets
            /\ \E intact \in Appended(child[c], FALSE) :
                 child' = [child EXCEPT ![c].status = Waited(child[c].status),
                                        ![c].taken = child[c].made,
                                        ![c].intact = intact]

\* Any other pairing of events and state.
BadRequest(e, c, via) ==
  /\ ~ \/ e.events = "IN" /\ client[c].state \in {"Receiving", "CGI_Read"}
       \/ e.events = "OUT" /\ client[c].state \in
            {"CGI_Start", "CGI_Write", "Loading", "Error", "Sending"}
  /\ Fail(e, c, via, client[c], peer[c])

HandleConnection(e, c, via) ==
  \/ Receive(e, c, via)
  \/ Load(e, c, via)
  \/ LoadErrorPage(e, c, via)
  \/ /\ e.events = "OUT" /\ client[c].state = "Sending"
     /\ SendResponse(e, c, via, client[c], pollfds, activePipes)
  \/ StartScript(e, c, via)
  \/ SendBody(e, c, via)
  \/ ReceiveOutput(e, c, via)
  \/ BadRequest(e, c, via)

-----------------------------------------------------------------------------
\* One round of handleActivePollFDs.

\* poll() reports at least one descriptor; the loop visits a copy of the table.
Poll(W) ==
  /\ server = "running" /\ DOMAIN todo = {}
  /\ Ready(W) # {}
  /\ todo' = [t \in Ready(W) |->
                [fd |-> pollfds[t].fd, events |-> pollfds[t].events,
                 revents |-> Revents(pollfds[t], W)]]
  /\ UNCHANGED <<server, pollfds, tickets, activePipes, client, desc, peer, child>>

TimedOutUnwatched == pollfds

\* The table once setEvents has asked for room to write for every client.
TimedOut ==
  [t \in DOMAIN pollfds |->
     IF /\ \E c \in Conns : client[c].fd = pollfds[t].fd
        /\ \A u \in DOMAIN pollfds : pollfds[u].fd = pollfds[t].fd => t <= u
     THEN [fd |-> pollfds[t].fd, events |-> "OUT"] ELSE pollfds[t]]

\* poll() reports nothing for 2500 ms: every client is to be sent a 408.
Timeout ==
  /\ server = "running" /\ DOMAIN todo = {}
  /\ Ready({}) = {}
  /\ pollfds' = TimedOut
  /\ client' = [c \in Conns |->
       IF Live(c) THEN [client[c] EXCEPT !.state = "Sending", !.left = 1, !.begun = FALSE]
       ELSE client[c]]
  /\ UNCHANGED <<server, todo, tickets, activePipes, desc, peer, child>>

Visiting(t) ==
  /\ server = "running"
  /\ t \in DOMAIN todo /\ \A u \in DOMAIN todo : t <= u
  /\ todo' = [u \in DOMAIN todo \ {t} |-> todo[u]]

Broken(e) == e.revents \cap {"HUP", "NVAL", "ERR"} # {}

\* getClientByPipeFd throws for a descriptor that hung up and is no client's pipe.
VisitUnownedHangUp(t) ==
  /\ Visiting(t)
  /\ "HUP" \in todo[t].revents
  /\ PipeOwners(todo[t].fd) = {}
  /\ Stop("failed")

\* The pipe of a CGI client hung up: the client is to send 500 KO.
VisitScriptHangUp(t) ==
  /\ Visiting(t)
  /\ "HUP" \in todo[t].revents
  /\ \E c \in PipeOwners(todo[t].fd) :
       /\ client[c].cgi
       /\ LET e  == todo[t]
              cl == [client[c] EXCEPT !.state = "Sending", !.ko = TRUE,
                                      !.left = IF client[c].begun THEN client[c].left ELSE 1]
              table == SetEvents(Without(pollfds, e.fd), cl.fd, "OUT")
          IN  IF e.events = "OUT"
              THEN SendResponse(e, c, "client", cl, table, activePipes \ {e.fd})
              ELSE Fail(e, c, "client", cl, peer[c])

\* A PollException: the descriptor leaves the table, and the client registered
\* under that number, if any, is destroyed.
VisitBroken(t) ==
  /\ Visiting(t)
  /\ Broken(todo[t])
  /\ "HUP" \in todo[t].revents => \E c \in PipeOwners(todo[t].fd) : ~client[c].cgi
  /\ pollfds' = Without(pollfds, todo[t].fd)
  /\ Erase(todo[t].fd, client, peer, desc)
  /\ UNCHANGED <<server, tickets, activePipes, child>>

\* handleNewConnection: accept() takes any waiting connection and any free
\* number (files the server has open take numbers too); without one it throws.
VisitListener(t) ==
  /\ Visiting(t)
  /\ ~Broken(todo[t]) /\ todo[t].fd = ListenFd
  /\ \/ /\ FreeFds = {}
        /\ Stop("failed")
     \/ \E c \in Conns, f \in Candidates(FreeFds), r, w \in Residue \cup {NoFd} :
          /\ peer[c].phase = "pending"
          /\ client' = [client EXCEPT ![c] = NewClient(f, r, w)]
          /\ desc' = [desc EXCEPT ![f] = Sock(c)]
          /\ peer' = [peer EXCEPT ![c].phase = "open"]
          /\ pollfds' = Add(pollfds, tickets, f, "IN")
          /\ tickets' = tickets + 1
          /\ UNCHANGED <<server, activePipes, child>>

VisitClient(t) ==
  /\ Visiting(t)
  /\ ~Broken(todo[t]) /\ todo[t].fd # ListenFd
  /\ \E c \in Conns : /\ client[c].fd = todo[t].fd
                      /\ HandleConnection(todo[t], c, "client")

VisitPipe(t) ==
  /\ Visiting(t)
  /\ ~Broken(todo[t]) /\ todo[t].fd # ListenFd
  /\ \A c \in Conns : client[c].fd # todo[t].fd
  /\ todo[t].fd \in activePipes
  /\ \/ /\ PipeOwners(todo[t].fd) = {}
        /\ Stop("failed")
     \/ \E c \in PipeOwners(todo[t].fd) : HandleConnection(todo[t], c, "pipe")

VisitUnknown(t) ==
  /\ Visiting(t)
  /\ ~Broken(todo[t]) /\ todo[t].fd \notin activePipes \cup {ListenFd}
  /\ \A c \in Conns : client[c].fd # todo[t].fd
  /\ Stop("failed")

Visit ==
  \E t \in DOMAIN todo :
    \/ VisitUnownedHangUp(t) \/ VisitScriptHangUp(t) \/ VisitBroken(t)
    \/ VisitListener(t) \/ VisitClient(t) \/ VisitPipe(t) \/ VisitUnknown(t)

-----------------------------------------------------------------------------
\* The peers and the scripts.
PeerStep(c, p) ==
  /\ server = "running"
  /\ peer' = [peer EXCEPT ![c] = p]
  /\ UNCHANGED <<loop, child>>

Reachable(c) == peer[c].phase \in {"pending", "open"} /\ ~peer[c].hung

Connect(c) ==
  /\ peer[c].phase = "idle"
  /\ PeerStep(c, [peer[c] EXCEPT !.phase = "pending"])

SendSegment(c) ==
  /\ Reachable(c) /\ ~peer[c].eof /\ peer[c].unsent > 0
  /\ PeerStep(c, [peer[c] EXCEPT !.unsent = peer[c].unsent - 1,
                                 !.inbox = peer[c].inbox + 1])

\* A peer adds a header line or a part of the body before the last one is sent,
\* again and again if it likes: nothing bounds the text of a header.  How much it
\* has still to send at any moment is bounded by MaxSegs.
Lengthen(c) ==
  /\ MayLengthen /\ Reachable(c) /\ ~peer[c].eof
  /\ peer[c].inbox < peer[c].need /\ peer[c].need <= MaxSegs
  /\ PeerStep(c, [peer[c] EXCEPT !.need = peer[c].need + 1,
                                 !.unsent = peer[c].unsent + 1])

HalfClose(c) ==
  /\ MayHalfClose /\ Reachable(c) /\ ~peer[c].eof
  /\ PeerStep(c, [peer[c] EXCEPT !.eof = TRUE])

HangUp(c) ==
  /\ MayHangUp /\ Reachable(c)
  /\ PeerStep(c, [peer[c] EXCEPT !.hung = TRUE])

ScriptStep(c, ch) ==
  /\ server = "running" /\ child[c].status = "running"
  /\ child' = [child EXCEPT ![c] = ch]
  /\ UNCHANGED <<loop, peer>>

\* What a script writes may be text or hold a NUL.
ScriptWrites(c) ==
  /\ child[c].made < MaxOut
  /\ \E binary \in {child[c].binary, TRUE} :
       ScriptStep(c, [child[c] EXCEPT !.made = child[c].made + 1, !.binary = binary])

ScriptExits(c) == ScriptStep(c, [child[c] EXCEPT !.status = "exited"])

-----------------------------------------------------------------------------
Init ==
  /\ server = "running"
  /\ pollfds = [t \in {0} |-> [fd |-> ListenFd, events |-> "IN"]]
  /\ todo = [t \in {} |-> [fd |-> ListenFd, events |-> "IN", revents |-> {"IN"}]]
  /\ tickets = 1
  /\ activePipes = {}
  /\ client = [c \in Conns |-> NoClient]
  /\ desc = [f \in Fds |-> IF f = ListenFd THEN Listen ELSE Free]
  /\ \E kind \in [Conns -> Kinds], need \in [Conns -> 1 .. MaxSegs],
        extra \in [Conns -> 0 .. MaxExtra] :
       peer = [c \in Conns |->
                 [kind |-> kind[c], phase |-> "idle", need |-> need[c],
                  unsent |-> need[c] + extra[c], inbox |-> 0,
                  eof |-> FALSE, hung |-> FALSE, got |-> "nothing"]]
  /\ child = [c \in Conns |-> [status |-> "none", made |-> 0, taken |-> 0,
                               binary |-> FALSE, intact |-> TRUE]]

Next ==
  \/ \E W \in SUBSET Fillable : Poll(W)
  \/ Timeout
  \/ Visit
  \/ \E c \in Conns : \/ Connect(c) \/ SendSegment(c) \/ Lengthen(c) \/ HalfClose(c)
                      \/ HangUp(c) \/ ScriptWrites(c) \/ ScriptExits(c)

Spec == Init /\ [][Next]_vars

\* The process is scheduled; poll() reports in the end what stays or becomes
\* ready again and again (every peer goes on reading), and returns after 2500 ms
\* in which nothing is; a script ends.  Peers owe nothing else: one that goes on
\* sending keeps the table from ever falling silent.
Fairness ==
  /\ WF_vars(Visit)
  /\ SF_vars(Poll(Fillable))
  /\ WF_vars(Timeout)
  /\ \A c \in Conns : WF_vars(ScriptExits(c))

FairSpec == Spec /\ Fairness

-----------------------------------------------------------------------------
ClientRecords ==
  [fd : Fds \cup {NoFd}, state : ClientStates, cgi : BOOLEAN, open : BOOLEAN,
   bodyBegun : BOOLEAN, bodySent : BOOLEAN, hasRead : BOOLEAN, ko : BOOLEAN,
   begun : BOOLEAN, rd : Fds \cup {NoFd}, wr : Fds \cup {NoFd}, left : Nat, body : Nat]

PeerRecords ==
  [kind : Kinds, phase : {"idle", "pending", "open", "closed"}, need : Nat,
   unsent : Nat, inbox : Nat, eof : BOOLEAN, hung : BOOLEAN,
   got : {"nothing", "partial", "answer", "spliced"}]

\* binary: the script wrote a NUL; intact: the text read for the response is what
\* it wrote.
ChildRecords ==
  [status : {"none", "running", "exited", "reaped"}, made : Nat, taken : Nat,
   binary : BOOLEAN, intact : BOOLEAN]

Events == {"IN", "OUT"}

Reports == SUBSET {"IN", "OUT", "HUP", "ERR", "NVAL"}

\* A poll table, and a snapshot of one, with the tickets below n.
IsTable(table, n) ==
  /\ DOMAIN table \subseteq 0 .. n - 1
  /\ table \in [DOMAIN table -> [fd : Fds, events : Events]]

IsSnapshot(entries, n) ==
  /\ DOMAIN entries \subseteq 0 .. n - 1
  /\ entries \in [DOMAIN entries -> [fd : Fds, events : Events, revents : Reports]]

\* Every variable keeps its type: in particular the poll table and the snapshot
\* are functions of tickets that have been handed out.
TypeOK ==
  /\ server \in {"running", "failed", "aborted", "killed"}
  /\ tickets \in Nat
  /\ IsTable(pollfds, tickets)
  /\ IsSnapshot(todo, tickets)
  /\ activePipes \subseteq Fds
  /\ client \in [Conns -> ClientRecords]
  /\ desc \in [Fds -> Objects]
  /\ peer \in [Conns -> PeerRecords]
  /\ child \in [Conns -> ChildRecords]

-----------------------------------------------------------------------------
\* The descriptors client c holds in the record cl are what it takes them for.
HoldsOwn(c, cl, objs) ==
  cl.fd # NoFd =>
    /\ objs[cl.fd] = Sock(c)
    /\ cl.state = "CGI_Write" => cl.wr \in Fds /\ objs[cl.wr] = Wr(c)
    /\ cl.state \in {"CGI_Write", "CGI_Read"} => cl.rd \in Fds /\ objs[cl.rd] = Rd(c)

\* Every descriptor a client is about to read, write or close is its own: its
\* socket as long as it lives (so the assert in ~Socket cannot fail), the write
\* end of its pipe while it sends a body, the read end until the output is in.
\* And no socket stays open once its client is gone.
OwnDescriptors ==
  /\ \A c \in Conns : HoldsOwn(c, client[c], desc)
  /\ \A f \in Fds, c \in Conns : desc[f] = Sock(c) => client[c].fd = f

\* Requests that are served, refused or fail with an error page cannot end the
\* server together where none does alone: however their visits, timeouts and
\* half-closes interleave, it runs until it has accepted a request of a CGI
\* location or of one of the FatalKinds (all of which do end it), a peer has reset
\* its connection, or there was no number for accept().
Culprit(c) ==
  /\ peer[c].phase \in {"open", "closed"}
  /\ peer[c].kind \in CgiKinds \cup FatalKinds \/ peer[c].hung

StoppedByCulprit ==
  server # "running" => FreeFds = {} \/ \E c \in Conns : Culprit(c)

\* A connection the server closes has been sent a response to its end.
ClosedAfterAnswer ==
  \A c \in Conns : peer[c].phase = "closed" /\ ~peer[c].hung
                   => peer[c].got \in {"answer", "spliced"}

\* A 408 that follows part of a file counts as an answer here: it is whole when
\* it is sent.
SentOf(got) == CASE got = "nothing" -> "nothing"
                 [] got = "partial" -> "part"
                 [] got \in {"answer", "spliced"} -> "whole"

Promised == INSTANCE Delivery WITH
  phase <- [c \in Conns |-> peer[c].phase],
  sent <- [c \in Conns |-> SentOf(peer[c].got)]

\* The event loop implements Delivery for static requests: whatever the order of
\* visits and timeouts, a connection is closed by the step that completes its
\* answer, by no other, and nothing is sent over it afterwards.  (A script's
\* response written on a visit to its pipe does not end the client: the Done it
\* returns is dropped by handlePipeConnection.)
Delivers == Promised!Spec

\* No wake-up is lost: a client has exactly one entry in the poll table, for the
\* events its state waits for.  (Under a surplus body the entry waits for room to
\* write while the state is still Receiving; the next visit answers 400.)
Watched ==
  \A c \in Conns : Live(c) =>
    \E t \in DOMAIN pollfds :
      /\ pollfds[t].fd = client[c].fd
      /\ \A u \in DOMAIN pollfds : pollfds[u].fd = client[c].fd => u = t
      /\ \/ pollfds[t].events = Mask(client[c].state)
         \/ peer[c].kind = "surplus" /\ client[c].state = "Receiving"

\* The snapshot does not age: an entry not visited yet is still in the table,
\* unchanged, and what poll() reported of it is still true.
SnapshotCurrent ==
  \A t \in DOMAIN todo :
    /\ t \in DOMAIN pollfds
    /\ pollfds[t] = [fd |-> todo[t].fd, events |-> todo[t].events]
    /\ todo[t].revents \subseteq Revents(todo[t], Fillable)

\* The server stops reading a script's output only after the script has ended and
\* its pipe is drained, and output that is text and shorter than the buffer is
\* then in the response as it was written.  (Of longer output, or of output with a
\* NUL, CGI.cpp:99 may keep less or more; and a process that ends loses it all.)
OutputComplete ==
  \A c \in Conns :
    /\ client[c].hasRead => child[c].status = "reaped" /\ child[c].taken = child[c].made
    /\ ~child[c].binary /\ child[c].made < ReadSize => child[c].intact

\* A peer receives the bytes of one response, its status line first.
OneResponse == \A c \in Conns : peer[c].got # "spliced"

\* All of its request has been sent, so that the peer owes nothing more.
Sent(c) == peer[c].phase \in {"pending", "open"} /\ peer[c].inbox >= peer[c].need

Settled(c) == peer[c].phase = "closed" \/ server # "running"

\* From some moment on no peer connects or sends, and none has shut down before
\* its request was all sent: only then does poll() fall silent for 2500 ms.
Silence ==
  /\ <>[][~ \E c \in Conns : Connect(c) \/ SendSegment(c)]_vars
  /\ <>[](\A c \in Conns : peer[c].phase = "open" /\ peer[c].eof => Sent(c))

\* As long as the server runs, a request that has been sent is answered and its
\* connection closed, however long other peers go on sending or leave theirs
\* unfinished.  One that is never finished is answered too, with a 408, but only
\* if the others fall silent: the timeout is one for all descriptors.
Served ==
  /\ \A c \in Conns : Sent(c) ~> Settled(c)
  /\ Silence => \A c \in Conns : peer[c].phase = "pending" ~> Settled(c)
=============================================================================
