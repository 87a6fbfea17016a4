--------------------------- MODULE EventLoopOutput ---------------------------
(***************************************************************************)
(* The output of a script is read to its end, and text that fits one read  *)
(* gets into the response unchanged: OutputComplete of EventLoop, for any  *)
(* mixture of requests, with peers that reset and scripts that stop        *)
(* whenever they like.                                                     *)
(***************************************************************************)
EXTENDS EventLoopProofs

CgiStates == {"CGI_Start", "CGI_Write", "CGI_Read"}

\* A client is in a state of a script only for a request to a CGI location, and
\* once the output is in it has left those states for good: it is answered from
\* what was read, with the script reaped and nothing of its output left.
Taken(cl, ch) ==
  /\ cl.state \in CgiStates => cl.cgi
  /\ cl.hasRead => /\ cl.cgi /\ cl.state \in {"Sending", "Done"}
                   /\ ch.status = "reaped" /\ ch.taken = ch.made

\* Text that one read takes whole has not been changed on its way.
Unchanged(ch) == ~ch.binary /\ ch.made < ReadSize => ch.intact

Outputs == \A c \in Conns : Taken(client[c], child[c]) /\ Unchanged(child[c])

\* Nothing is claimed of a connection without client.
LEMMA TakenNobody == \A ch : Taken(NoClient, ch)
  BY DEF Taken, NoClient, CgiStates

-----------------------------------------------------------------------------
(* What follows a handler. *)

\* Whatever called the handler, the records it leaves are those it returned, or
\* that of a client that was erased.
LEMMA ReturnWithTaken ==
  ASSUME CoreOK, Outputs,
         NEW e, NEW c \in Conns, NEW via, NEW cl, NEW pr, NEW ret,
         NEW table, NEW pipes, NEW objs,
         ReturnWith(e, c, via, cl, pr, ret, table, pipes, objs),
         Taken(cl, child'[c]), Unchanged(child'[c]),
         \A d \in Conns \ {c} : child'[d] = child[d]
  PROVE  Outputs'
  <1> DEFINE cs == [client EXCEPT ![c] = cl]
  <1>1. \A d \in Conns : cs[d] = IF d = c THEN cl ELSE client[d]
    BY DEF CoreOK
  <1>2. \A d \in Conns : Taken(cs[d], child'[d]) /\ Unchanged(child'[d])
    BY <1>1 DEF Outputs
  <1>3. \A d \in Conns : client'[d] \in {NoClient, cs[d]}
    BY <1>1 DEF ReturnWith, AfterClient, AfterPipe, Erase
  <1> HIDE DEF cs
  <1> QED BY <1>2, <1>3, TakenNobody DEF Outputs

\* A handler that opens, closes and starts nothing.
LEMMA ReturnTaken ==
  ASSUME CoreOK, Outputs,
         NEW e, NEW c \in Conns, NEW via, NEW cl, NEW pr, NEW ret,
         Return(e, c, via, cl, pr, ret), Taken(cl, child[c])
  PROVE  Outputs'
  BY ReturnWithTaken DEF Return, Outputs

\* The end of the process leaves clients and scripts as they are.
LEMMA StopTaken ==
  ASSUME Outputs, NEW how, Stop(how)
  PROVE  Outputs'
  BY DEF Stop, Outputs

\* An error page is only ever put in the place of the response of a client
\* without a script.
LEMMA FailTaken ==
  ASSUME CoreOK, Outputs,
         NEW e, NEW c \in Conns, NEW via, NEW cl \in ClientRecords, NEW pr,
         cl.hasRead => cl.cgi, Fail(e, c, via, cl, pr)
  PROVE  Outputs'
  <1>1. CASE Stop("killed")
    BY <1>1, StopTaken
  <1>2. ASSUME ~cl.cgi, NEW s \in {"Error", "Sending"}, NEW n, NEW o,
               Return(e, c, via, [cl EXCEPT !.state = s, !.left = n, !.begun = FALSE,
                                            !.open = o], pr, s)
        PROVE  Outputs'
    <2> DEFINE next == [cl EXCEPT !.state = s, !.left = n, !.begun = FALSE, !.open = o]
    <2>1. next.state = s /\ next.hasRead = cl.hasRead
      BY DEF ClientRecords
    <2>2. Return(e, c, via, next, pr, s)
      BY <1>2
    <2> HIDE DEF next
    <2>3. Taken(next, child[c])
      BY <1>2, <2>1 DEF Taken, CgiStates
    <2> QED BY <2>2, <2>3, ReturnTaken
  <1>3. ASSUME ~cl.cgi, cl.open,
               Return(e, c, via, [cl EXCEPT !.state = "Error", !.left = 0, !.begun = FALSE],
                      pr, "Error")
        PROVE  Outputs'
    <2>1. [cl EXCEPT !.state = "Error", !.left = 0, !.begun = FALSE]
            = [cl EXCEPT !.state = "Error", !.left = 0, !.begun = FALSE, !.open = TRUE]
      BY <1>3 DEF ClientRecords
    <2> QED BY <1>2, <1>3, <2>1
  <1>4. \/ Stop("killed")
        \/ ~cl.cgi /\ cl.open
           /\ Return(e, c, via, [cl EXCEPT !.state = "Error", !.left = 0, !.begun = FALSE],
                     pr, "Error")
        \/ ~cl.cgi /\ \E n \in Chunks, s \in {"Error", "Sending"} :
             Return(e, c, via, [cl EXCEPT !.state = s, !.left = n, !.begun = FALSE,
                                          !.open = (s = "Error")], pr, s)
    BY ZenonT(30) DEF Fail, Fatal
  <1> QED BY <1>1, <1>2, <1>3, <1>4

-----------------------------------------------------------------------------
(* The branches of handleConnection. *)

\* The record of one client, and what is known of it.
LEMMA TakenRecords ==
  ASSUME CoreOK, Outputs, NEW c \in Conns
  PROVE  /\ client[c] \in ClientRecords /\ child[c] \in ChildRecords
         /\ Taken(client[c], child[c]) /\ Unchanged(child[c])
         /\ client[c].hasRead => client[c].cgi
         /\ client[c].state \notin {"Sending", "Done"} => ~client[c].hasRead
  BY CoreRecords DEF Outputs, Taken

\* A client without output moves to a state without a script, or to one with it
\* on a request to a CGI location.
LEMMA TakenBefore ==
  ASSUME NEW cl, NEW ch, ~cl.hasRead, cl.state \in CgiStates => cl.cgi
  PROVE  Taken(cl, ch)
  BY DEF Taken

\* A request that is complete has read no output yet.
LEMMA CompleteTaken ==
  ASSUME CoreOK, Outputs, NEW e, NEW c \in Conns, NEW via, NEW pr,
         client[c].state = "Receiving", Complete(e, c, via, pr)
  PROVE  Outputs'
  <1> DEFINE cl == [client[c] EXCEPT !.cgi = pr.kind \in CgiKinds]
  <1>1. cl \in ClientRecords /\ ~cl.hasRead /\ cl.state = "Receiving"
    <2>1. ASSUME NEW b \in BOOLEAN
          PROVE  LET next == [client[c] EXCEPT !.cgi = b]
                 IN  next \in ClientRecords /\ ~next.hasRead /\ next.state = "Receiving"
      BY TakenRecords DEF ClientRecords
    <2>2. (pr.kind \in CgiKinds) \in BOOLEAN
      OBVIOUS
    <2> QED BY <2>1, <2>2, Zenon
  <1> HIDE DEF cl
  <1>2. \/ Stop("aborted")
        \/ Fail(e, c, via, cl, pr)
        \/ Return(e, c, via, cl, pr, "Loading")
        \/ \E n \in Chunks : Return(e, c, via, [cl EXCEPT !.state = "Loading", !.left = n],
                                    pr, "Loading")
    BY DEF Complete, cl
  <1>3. Taken(cl, child[c])
    BY <1>1, TakenBefore DEF CgiStates
  <1>4. ASSUME NEW n \in Chunks,
               Return(e, c, via, [cl EXCEPT !.state = "Loading", !.left = n], pr, "Loading")
        PROVE  Outputs'
    <2> DEFINE next == [cl EXCEPT !.state = "Loading", !.left = n]
    <2>1. ~next.hasRead /\ next.state = "Loading"
      BY <1>1 DEF ClientRecords
    <2>2. Return(e, c, via, next, pr, "Loading")
      BY <1>4
    <2> HIDE DEF next
    <2>3. Taken(next, child[c])
      BY <2>1, TakenBefore DEF CgiStates
    <2> QED BY <2>2, <2>3, ReturnTaken
  <1> QED BY <1>1, <1>2, <1>3, <1>4, StopTaken, FailTaken, ReturnTaken

\* The Receiving branch keeps what is said of outputs.
LEMMA ReceiveTaken ==
  ASSUME CoreOK, Outputs, NEW e, NEW c \in Conns, NEW via, Receive(e, c, via)
  PROVE  Outputs'
  <1> DEFINE p == peer[c]
             r == [p EXCEPT !.inbox = p.inbox - 1,
                            !.need = IF p.need = 0 THEN 0 ELSE p.need - 1]
  <1> HIDE DEF r
  <1>1. client[c].state = "Receiving"
    BY DEF Receive
  <1>2. \/ Stop("aborted")
        \/ Return(e, c, via, client[c], p, "Receiving")
        \/ \E seen \in BOOLEAN :
             Return(e, c, via, [client[c] EXCEPT !.cgi = seen], r, "Receiving")
        \/ Complete(e, c, via, r)
    <2>1. \/ Stop("aborted")
          \/ Return(e, c, via, client[c], p, "Receiving")
          \/ \E seen \in {client[c].cgi, p.kind \in CgiKinds} :
               Return(e, c, via, [client[c] EXCEPT !.cgi = seen], r, "Receiving")
          \/ Complete(e, c, via, r)
      BY DEF Receive, r
    <2>2. client[c].cgi \in BOOLEAN /\ (p.kind \in CgiKinds) \in BOOLEAN
      BY TakenRecords DEF ClientRecords
    <2> QED BY <2>1, <2>2
  <1>3. ASSUME NEW seen \in BOOLEAN,
               Return(e, c, via, [client[c] EXCEPT !.cgi = seen], r, "Receiving")
        PROVE  Outputs'
    <2> DEFINE next == [client[c] EXCEPT !.cgi = seen]
    <2>1. ~next.hasRead /\ next.state = "Receiving"
      BY <1>1, TakenRecords DEF ClientRecords
    <2>2. Return(e, c, via, next, r, "Receiving")
      BY <1>3
    <2> HIDE DEF next
    <2>3. Taken(next, child[c])
      BY <2>1, TakenBefore DEF CgiStates
    <2> QED BY <2>2, <2>3, ReturnTaken
  <1> QED BY <1>1, <1>2, <1>3, StopTaken, ReturnTaken, CompleteTaken, TakenRecords

\* A handler that only moves a client whose output is not in.
LEMMA MoveTaken ==
  ASSUME CoreOK, Outputs, NEW e, NEW c \in Conns, NEW via,
         ~client[c].hasRead, NEW s, s \in CgiStates => client[c].cgi,
         NEW k, NEW o, NEW b, NEW pr, NEW ret,
         NEW next, next = [client[c] EXCEPT !.state = s, !.left = k, !.open = o,
                                            !.begun = b],
         Return(e, c, via, next, pr, ret)
  PROVE  Outputs'
  <1>1. ~next.hasRead /\ next.state = s /\ next.cgi = client[c].cgi
    BY CoreRecords DEF ClientRecords
  <1>2. Taken(next, child[c])
    BY <1>1, TakenBefore
  <1> QED BY <1>2, ReturnTaken

\* Only a request to a CGI location goes on to start a script.
LEMMA LoadTaken ==
  ASSUME CoreOK, Outputs, NEW e, NEW c \in Conns, NEW via, Load(e, c, via)
  PROVE  Outputs'
  <1> DEFINE cl == client[c]
             p  == peer[c]
  <1>1. cl \in ClientRecords /\ cl.state = "Loading" /\ ~cl.hasRead
    BY TakenRecords DEF Load
  <1>2. CASE Fail(e, c, via, cl, p)
    BY <1>1, <1>2, FailTaken
  <1>3. CASE Fail(e, c, via, [cl EXCEPT !.open = TRUE], p)
    <2>1. [cl EXCEPT !.open = TRUE] \in ClientRecords /\ ~[cl EXCEPT !.open = TRUE].hasRead
      BY <1>1 DEF ClientRecords
    <2> QED BY <1>3, <2>1, FailTaken
  <1>4. \/ Fail(e, c, via, cl, p)
        \/ Fail(e, c, via, [cl EXCEPT !.open = TRUE], p)
        \/ \E how : Stop(how)
        \/ Return(e, c, via, [cl EXCEPT !.state = "Error"], p, "Error")
        \/ cl.cgi /\ Return(e, c, via, [cl EXCEPT !.state = "CGI_Start"], p, "CGI_Start")
        \/ Return(e, c, via, [cl EXCEPT !.state = "Sending", !.left = 1, !.begun = FALSE],
                  p, "Sending")
        \/ \E k : Return(e, c, via, [cl EXCEPT !.left = k, !.open = TRUE], p, "Loading")
        \/ \E n : Return(e, c, via, [cl EXCEPT !.state = "Sending", !.left = n, !.open = TRUE],
                         p, "Sending")
    BY ZenonT(30) DEF Load, FindScript, ManageFile
  <1>5. "Error" \notin CgiStates /\ "Sending" \notin CgiStates /\ "Loading" \notin CgiStates
    BY DEF CgiStates
  <1>6. CASE Return(e, c, via, [cl EXCEPT !.state = "Error"], p, "Error")
    <2> DEFINE next == [cl EXCEPT !.state = "Error"]
    <2>1. next = [cl EXCEPT !.state = "Error", !.left = cl.left, !.open = cl.open,
                            !.begun = cl.begun]
      BY <1>1 DEF ClientRecords
    <2>2. Return(e, c, via, next, p, "Error")
      BY <1>6
    <2> HIDE DEF next
    <2> QED BY <1>1, <1>5, <2>1, <2>2, MoveTaken
  <1>7. CASE cl.cgi /\ Return(e, c, via, [cl EXCEPT !.state = "CGI_Start"], p, "CGI_Start")
    <2> DEFINE next == [cl EXCEPT !.state = "CGI_Start"]
    <2>1. next = [cl EXCEPT !.state = "CGI_Start", !.left = cl.left, !.open = cl.open,
                            !.begun = cl.begun]
      BY <1>1 DEF ClientRecords
    <2>2. Return(e, c, via, next, p, "CGI_Start") /\ cl.cgi
      BY <1>7
    <2> HIDE DEF next
    <2> QED BY <1>1, <2>1, <2>2, MoveTaken
  <1>8. CASE Return(e, c, via, [cl EXCEPT !.state = "Sending", !.left = 1, !.begun = FALSE],
                    p, "Sending")
    <2> DEFINE next == [cl EXCEPT !.state = "Sending", !.left = 1, !.begun = FALSE]
    <2>1. next = [cl EXCEPT !.state = "Sending", !.left = 1, !.open = cl.open,
                            !.begun = FALSE]
      BY <1>1 DEF ClientRecords
    <2>2. Return(e, c, via, next, p, "Sending")
      BY <1>8
    <2> HIDE DEF next
    <2> QED BY <1>1, <1>5, <2>1, <2>2, MoveTaken
  <1>9. ASSUME NEW k, Return(e, c, via, [cl EXCEPT !.left = k, !.open = TRUE], p, "Loading")
         PROVE  Outputs'
    <2> DEFINE next == [cl EXCEPT !.left = k, !.open = TRUE]
    <2>1. next = [cl EXCEPT !.state = "Loading", !.left = k, !.open = TRUE,
                            !.begun = cl.begun]
      BY <1>1 DEF ClientRecords
    <2>2. Return(e, c, via, next, p, "Loading")
      BY <1>9
    <2> HIDE DEF next
    <2> QED BY <1>1, <1>5, <2>1, <2>2, MoveTaken
  <1>10. ASSUME NEW n,
                Return(e, c, via, [cl EXCEPT !.state = "Sending", !.left = n, !.open = TRUE],
                       p, "Sending")
         PROVE  Outputs'
    <2> DEFINE next == [cl EXCEPT !.state = "Sending", !.left = n, !.open = TRUE]
    <2>1. next = [cl EXCEPT !.state = "Sending", !.left = n, !.open = TRUE,
                            !.begun = cl.begun]
      BY <1>1 DEF ClientRecords
    <2>2. Return(e, c, via, next, p, "Sending")
      BY <1>10
    <2> HIDE DEF next
    <2> QED BY <1>1, <1>5, <2>1, <2>2, MoveTaken
  <1> HIDE DEF cl
  <1> QED BY <1>2, <1>3, <1>4, <1>6, <1>7, <1>8, <1>9, <1>10, StopTaken

\* So does the branch that loads an error page.
LEMMA LoadErrorPageTaken ==
  ASSUME CoreOK, Outputs, NEW e, NEW c \in Conns, NEW via, LoadErrorPage(e, c, via)
  PROVE  Outputs'
  <1> DEFINE cl == client[c]
  <1>1. cl \in ClientRecords /\ cl.state = "Error" /\ ~cl.hasRead
    BY TakenRecords DEF LoadErrorPage
  <1>2. ASSUME NEW k, NEW s \in {"Error", "Sending"},
               Return(e, c, via, [cl EXCEPT !.state = s, !.left = k], peer[c], s)
        PROVE  Outputs'
    <2> DEFINE next == [cl EXCEPT !.state = s, !.left = k]
    <2>1. next = [cl EXCEPT !.state = s, !.left = k, !.open = cl.open, !.begun = cl.begun]
      BY <1>1 DEF ClientRecords
    <2>2. s \notin CgiStates
      BY DEF CgiStates
    <2>3. Return(e, c, via, next, peer[c], s)
      BY <1>2
    <2> HIDE DEF next
    <2> QED BY <1>1, <2>1, <2>2, <2>3, MoveTaken
  <1>3. \A k : [cl EXCEPT !.left = k] = [cl EXCEPT !.state = "Error", !.left = k]
    BY <1>1 DEF ClientRecords
  <1>4. \/ \E n : Return(e, c, via, [cl EXCEPT !.state = "Sending", !.left = n],
                         peer[c], "Sending")
        \/ \E n : Return(e, c, via, [cl EXCEPT !.left = n], peer[c], "Error")
    BY ZenonT(30) DEF LoadErrorPage
  <1> HIDE DEF cl
  <1> QED BY <1>2, <1>3, <1>4

\* A response is sent by a client that stays what it is.
LEMMA SendResponseTaken ==
  ASSUME CoreOK, Outputs, NEW e, NEW c \in Conns, NEW via,
         NEW cl \in ClientRecords, Taken(cl, child[c]), cl.state = "Sending",
         NEW table, NEW pipes, SendResponse(e, c, via, cl, table, pipes)
  PROVE  Outputs'
  <1> DEFINE ret  == IF Written(cl) THEN "Done" ELSE "Sending"
             next == [cl EXCEPT !.state = ret, !.begun = (ret = "Sending"),
                                !.left = IF cl.left = 0 THEN 0 ELSE cl.left - 1]
  <1>1. CASE \E how \in {"failed", "aborted"} : Stop(how)
    BY <1>1, StopTaken
  <1>2. ASSUME NEW pr, ReturnWith(e, c, via, next, pr, ret, table, pipes, desc),
               child' = child
        PROVE  Outputs'
    <2>1. next.state = ret /\ next.hasRead = cl.hasRead /\ next.cgi = cl.cgi
      BY DEF ClientRecords
    <2>2. ret \in {"Done", "Sending"}
      OBVIOUS
    <2> HIDE DEF next, ret
    <2>3. Taken(next, child[c])
      BY <2>1, <2>2 DEF Taken, CgiStates
    <2> QED BY <1>2, <2>3, ReturnWithTaken DEF Outputs
  <1> QED BY <1>1, <1>2 DEF SendResponse

\* The script of a request whose output is in is never started again.
LEMMA StartScriptTaken ==
  ASSUME CoreOK, Outputs, NEW e, NEW c \in Conns, NEW via, StartScript(e, c, via)
  PROVE  Outputs'
  <1>1. /\ client[c] \in ClientRecords /\ client[c].state = "CGI_Start"
        /\ client[c].cgi /\ ~client[c].hasRead
    BY TakenRecords DEF StartScript, Taken, CgiStates
  <1>2. CASE Fail(e, c, via, client[c], peer[c])
    BY <1>1, <1>2, FailTaken
  <1>3. ASSUME child' = [child EXCEPT ![c].status = "running"],
               NEW r, NEW w, Started(e, c, via, r, w)
        PROVE  Outputs'
    <2> DEFINE cl == [client[c] EXCEPT !.rd = r, !.wr = w]
    <2>1. (\A d \in Conns \ {c} : child'[d] = child[d]) /\ Unchanged(child'[c])
      <3>1. child'[c] = [child[c] EXCEPT !.status = "running"]
        BY <1>3 DEF CoreOK
      <3>2. child[c] \in ChildRecords /\ Unchanged(child[c])
        BY TakenRecords
      <3>3. \A d \in Conns \ {c} : child'[d] = child[d]
        BY <1>3 DEF CoreOK
      <3> QED BY <3>1, <3>2, <3>3 DEF Unchanged, ChildRecords
    <2>2. ASSUME NEW next, ~next.hasRead, next.cgi,
                 NEW table, NEW pipes, NEW objs, NEW ret,
                 ReturnWith(e, c, via, next, peer[c], ret, table, pipes, objs)
          PROVE  Outputs'
      BY <2>1, <2>2, TakenBefore, ReturnWithTaken
    <2>3. LET next == [cl EXCEPT !.state = "CGI_Read"] IN ~next.hasRead /\ next.cgi
      BY <1>1 DEF ClientRecords
    <2>4. ASSUME NEW b
          PROVE  LET next == [cl EXCEPT !.state = "CGI_Write", !.body = b]
                 IN  ~next.hasRead /\ next.cgi
      BY <1>1 DEF ClientRecords
    <2>5. \/ \E table, pipes, objs :
               ReturnWith(e, c, via, [cl EXCEPT !.state = "CGI_Read"], peer[c], "CGI_Read",
                          table, pipes, objs)
          \/ \E b, table, pipes, objs :
               ReturnWith(e, c, via, [cl EXCEPT !.state = "CGI_Write", !.body = b],
                          peer[c], "CGI_Write", table, pipes, objs)
      BY <1>3, ZenonT(30) DEF Started
    <2> HIDE DEF cl
    <2> QED BY <2>2, <2>3, <2>4, <2>5
  <1> QED BY <1>2, <1>3 DEF StartScript

\* So does CGI::send.
LEMMA SendBodyTaken ==
  ASSUME CoreOK, Outputs, NEW e, NEW c \in Conns, NEW via, SendBody(e, c, via)
  PROVE  Outputs'
  <1> DEFINE cl == client[c]
  <1>1. cl \in ClientRecords /\ cl.state = "CGI_Write" /\ cl.cgi /\ ~cl.hasRead
    BY TakenRecords DEF SendBody, Taken, CgiStates
  <1>2. CASE Stop("aborted")
    BY <1>2, StopTaken
  <1>3. ASSUME NEW next, ~next.hasRead, next.cgi, NEW objs, NEW ret, child' = child,
               ReturnWith(e, c, via, next, peer[c], ret, pollfds, activePipes, objs)
        PROVE  Outputs'
    BY <1>3, TakenBefore, ReturnWithTaken DEF Outputs
  <1>4. ASSUME NEW b
        PROVE  LET next == [cl EXCEPT !.body = b, !.bodyBegun = TRUE]
               IN  ~next.hasRead /\ next.cgi
    BY <1>1 DEF ClientRecords
  <1>5. LET next == [cl EXCEPT !.body = 0, !.bodySent = TRUE, !.state = "CGI_Read"]
        IN  ~next.hasRead /\ next.cgi
    BY <1>1 DEF ClientRecords
  <1>6. \/ Stop("aborted")
        \/ /\ child' = child
           /\ \E b : ReturnWith(e, c, via, [cl EXCEPT !.body = b, !.bodyBegun = TRUE],
                                peer[c], "CGI_Write", pollfds, activePipes, desc)
        \/ /\ child' = child
           /\ \E objs : ReturnWith(e, c, via,
                          [cl EXCEPT !.body = 0, !.bodySent = TRUE, !.state = "CGI_Read"],
                          peer[c], "CGI_Read", pollfds, activePipes, objs)
    BY ZenonT(30) DEF SendBody, Return
  <1> HIDE DEF cl
  <1> QED BY <1>2, <1>3, <1>4, <1>5, <1>6

\* The wait before each read is what makes the output whole: the script that is
\* read from has ended and been reaped, so a short read takes all it ever wrote.
LEMMA ReceiveOutputTaken ==
  ASSUME CoreOK, Outputs, NEW e, NEW c \in Conns, NEW via, ReceiveOutput(e, c, via)
  PROVE  Outputs'
  <1> DEFINE cl == client[c]
  <1>1. /\ cl \in ClientRecords /\ cl.state = "CGI_Read" /\ cl.cgi /\ ~cl.hasRead
        /\ child \in [Conns -> ChildRecords] /\ Ended(c)
    BY TakenRecords DEF ReceiveOutput, Taken, CgiStates, CoreOK
  <1>2. CASE Fail(e, c, via, cl, peer[c])
    BY <1>1, <1>2, FailTaken
  <1>3. ASSUME child[c].made - child[c].taken >= ReadSize,
               NEW intact \in Appended(child[c], TRUE),
               ReturnWith(e, c, via, cl, peer[c], "CGI_Read", pollfds, activePipes, desc),
               child' = [child EXCEPT ![c].status = Waited(child[c].status),
                                      ![c].taken = child[c].taken + ReadSize,
                                      ![c].intact = intact]
        PROVE  Outputs'
    <2>1. (\A d \in Conns \ {c} : child'[d] = child[d]) /\ Unchanged(child'[c])
      <3>1. child[c].made >= ReadSize
        BY <1>1, <1>3, BoundsAssumption DEF ChildRecords
      <3>2. child'[c].made = child[c].made
        BY <1>1, <1>3 DEF ChildRecords
      <3>3. ~(child'[c].made < ReadSize)
        BY <1>1, <3>1, <3>2, BoundsAssumption DEF ChildRecords
      <3>4. \A d \in Conns \ {c} : child'[d] = child[d]
        BY <1>1, <1>3
      <3> QED BY <3>3, <3>4 DEF Unchanged
    <2>2. Taken(cl, child'[c])
      BY <1>1, TakenBefore
    <2> QED BY <1>3, <2>1, <2>2, ReturnWithTaken
  <1>4. ASSUME NEW n,
               ReturnWith(e, c, via, OutputTaken(cl, n), peer[c], "Sending", pollfds,
                          activePipes, [desc EXCEPT ![cl.rd] = Free]),
               NEW intact \in Appended(child[c], FALSE),
               child' = [child EXCEPT ![c].status = Waited(child[c].status),
                                      ![c].taken = child[c].made,
                                      ![c].intact = intact]
        PROVE  Outputs'
    <2>1. (\A d \in Conns \ {c} : child'[d] = child[d]) /\ Unchanged(child'[c])
      <3>1. /\ child'[c].made = child[c].made /\ child'[c].binary = child[c].binary
            /\ child'[c].intact = intact
        BY <1>1, <1>4 DEF ChildRecords
      <3>2. Unchanged(child[c]) /\ (~child[c].binary => intact = child[c].intact)
        BY <1>4, TakenRecords DEF Appended
      <3>3. \A d \in Conns \ {c} : child'[d] = child[d]
        BY <1>1, <1>4
      <3> QED BY <3>1, <3>2, <3>3 DEF Unchanged
    <2>2. child'[c].status = "reaped" /\ child'[c].taken = child'[c].made
      BY <1>1, <1>4 DEF Ended, Waited, ChildRecords
    <2> DEFINE next == OutputTaken(cl, n)
    <2>3. next.state = "Sending" /\ next.cgi
      BY <1>1 DEF OutputTaken, ClientRecords
    <2>4. ReturnWith(e, c, via, next, peer[c], "Sending", pollfds, activePipes,
                     [desc EXCEPT ![cl.rd] = Free])
      BY <1>4
    <2> HIDE DEF next
    <2>5. Taken(next, child'[c])
      BY <2>2, <2>3 DEF Taken, CgiStates
    <2> QED BY <2>1, <2>4, <2>5, ReturnWithTaken
  <1>5. \/ Fail(e, c, via, cl, peer[c])
        \/ /\ child[c].made - child[c].taken >= ReadSize
           /\ ReturnWith(e, c, via, cl, peer[c], "CGI_Read", pollfds, activePipes, desc)
           /\ \E intact \in Appended(child[c], TRUE) :
                child' = [child EXCEPT ![c].status = Waited(child[c].status),
                                       ![c].taken = child[c].taken + ReadSize,
                                       ![c].intact = intact]
        \/ /\ \E n \in Chunks :
                ReturnWith(e, c, via, OutputTaken(cl, n), peer[c], "Sending", pollfds,
                           activePipes, [desc EXCEPT ![cl.rd] = Free])
           /\ \E intact \in Appended(child[c], FALSE) :
                child' = [child EXCEPT ![c].status = Waited(child[c].status),
                                       ![c].taken = child[c].made,
                                       ![c].intact = intact]
    BY ZenonT(30) DEF ReceiveOutput
  <1> HIDE DEF cl
  <1> QED BY <1>2, <1>3, <1>4, <1>5

\* So does handleConnection as a whole.
LEMMA HandleConnectionTaken ==
  ASSUME CoreOK, Outputs, NEW e, NEW c \in Conns, NEW via, HandleConnection(e, c, via)
  PROVE  Outputs'
  <1>1. CASE /\ client[c].state = "Sending"
             /\ SendResponse(e, c, via, client[c], pollfds, activePipes)
    BY <1>1, TakenRecords, SendResponseTaken
  <1>2. CASE BadRequest(e, c, via)
    BY <1>2, TakenRecords, FailTaken DEF BadRequest
  <1> QED BY <1>1, <1>2, ReceiveTaken, LoadTaken, LoadErrorPageTaken, StartScriptTaken,
             SendBodyTaken, ReceiveOutputTaken DEF HandleConnection

-----------------------------------------------------------------------------
(* One step of the loop. *)

\* The 500 a hang-up asks for is put on top of an output that is in or not.
LEMMA ScriptHangUpTaken ==
  ASSUME CoreOK, Outputs, NEW t, VisitScriptHangUp(t)
  PROVE  Outputs'
  <1>1. PICK c \in PipeOwners(todo[t].fd) :
          /\ client[c].cgi
          /\ LET e  == todo[t]
                 cl == [client[c] EXCEPT !.state = "Sending", !.ko = TRUE,
                                         !.left = IF client[c].begun THEN client[c].left ELSE 1]
                 table == SetEvents(Without(pollfds, e.fd), cl.fd, "OUT")
             IN  IF e.events = "OUT"
                 THEN SendResponse(e, c, "client", cl, table, activePipes \ {e.fd})
                 ELSE Fail(e, c, "client", cl, peer[c])
    BY DEF VisitScriptHangUp
  <1> DEFINE e  == todo[t]
             cl == [client[c] EXCEPT !.state = "Sending", !.ko = TRUE,
                                     !.left = IF client[c].begun THEN client[c].left ELSE 1]
             table == SetEvents(Without(pollfds, e.fd), cl.fd, "OUT")
  <1>2. c \in Conns
    BY DEF PipeOwners
  <1>3. /\ cl \in ClientRecords /\ cl.state = "Sending" /\ cl.cgi
        /\ cl.hasRead = client[c].hasRead
    <2>1. client[c] \in ClientRecords
      BY <1>2, TakenRecords
    <2>2. (IF client[c].begun THEN client[c].left ELSE 1) \in Nat
      BY <2>1 DEF ClientRecords
    <2> QED BY <1>1, <2>1, <2>2 DEF ClientRecords, ClientStates
  <1>4. \/ SendResponse(e, c, "client", cl, table, activePipes \ {e.fd})
        \/ Fail(e, c, "client", cl, peer[c])
    BY <1>1
  <1> HIDE DEF e, cl, table
  <1>5. Taken(client[c], child[c])
    BY <1>2, TakenRecords
  <1>6. Taken(cl, child[c])
    BY <1>3, <1>5 DEF Taken, CgiStates
  <1> QED BY <1>2, <1>3, <1>4, <1>6, SendResponseTaken, FailTaken

\* So does a PollException, which destroys a client.
LEMMA BrokenTaken ==
  ASSUME CoreOK, Outputs, NEW t, VisitBroken(t)
  PROVE  Outputs'
  <1>1. child' = child /\ \A c \in Conns : client'[c] \in {NoClient, client[c]}
    BY DEF VisitBroken, Erase
  <1> QED BY <1>1, TakenNobody DEF Outputs

\* A new client has read nothing from anybody.
LEMMA ListenerTaken ==
  ASSUME CoreOK, Outputs, NEW t, VisitListener(t)
  PROVE  Outputs'
  <1>1. CASE Stop("failed")
    BY <1>1, StopTaken
  <1>2. ASSUME NEW c \in Conns, NEW f, NEW r, NEW w,
               client' = [client EXCEPT ![c] = NewClient(f, r, w)], child' = child
        PROVE  Outputs'
    <2>1. ~NewClient(f, r, w).hasRead /\ NewClient(f, r, w).state = "Receiving"
      BY DEF NewClient, NoClient
    <2>2. Taken(NewClient(f, r, w), child[c])
      BY <2>1, TakenBefore DEF CgiStates
    <2>3. \A d \in Conns : client'[d] = IF d = c THEN NewClient(f, r, w) ELSE client[d]
      BY <1>2 DEF CoreOK
    <2> QED BY <1>2, <2>2, <2>3 DEF Outputs
  <1> QED BY <1>1, <1>2 DEF VisitListener

\* So does every visit.
LEMMA VisitTaken ==
  ASSUME CoreOK, Outputs, Visit
  PROVE  Outputs'
  <1>1. PICK t \in DOMAIN todo :
          \/ VisitUnownedHangUp(t) \/ VisitScriptHangUp(t) \/ VisitBroken(t)
          \/ VisitListener(t) \/ VisitClient(t) \/ VisitPipe(t) \/ VisitUnknown(t)
    BY DEF Visit
  <1>2. VisitClient(t) => Outputs'
    BY HandleConnectionTaken DEF VisitClient
  <1>3. VisitPipe(t) => Outputs'
    BY StopTaken, HandleConnectionTaken DEF VisitPipe, PipeOwners
  <1>4. VisitUnownedHangUp(t) \/ VisitUnknown(t) => Outputs'
    BY StopTaken DEF VisitUnownedHangUp, VisitUnknown
  <1> QED BY <1>1, <1>2, <1>3, <1>4, ScriptHangUpTaken, BrokenTaken, ListenerTaken

\* The timeout moves every client to Sending, those of scripts too.
LEMMA TimeoutTaken ==
  ASSUME CoreOK, Outputs, Timeout
  PROVE  Outputs'
  <1> SUFFICES ASSUME NEW c \in Conns
               PROVE  Taken(client'[c], child'[c]) /\ Unchanged(child'[c])
    BY DEF Outputs
  <1> DEFINE next == [client[c] EXCEPT !.state = "Sending", !.left = 1, !.begun = FALSE]
  <1>1. client'[c] \in {client[c], next} /\ child' = child
    BY DEF Timeout
  <1>2. Taken(client[c], child[c]) /\ Unchanged(child[c]) /\ client[c] \in ClientRecords
    BY TakenRecords
  <1>3. /\ next.state = "Sending" /\ next.cgi = client[c].cgi
        /\ next.hasRead = client[c].hasRead
    BY <1>2 DEF ClientRecords
  <1> HIDE DEF next
  <1>4. Taken(next, child[c])
    BY <1>2, <1>3 DEF Taken, CgiStates
  <1> QED BY <1>1, <1>2, <1>4

\* A script that still writes is not one whose output was taken.
LEMMA ScriptTaken ==
  ASSUME CoreOK, Outputs, NEW c \in Conns, NEW ch, ScriptStep(c, ch), Unchanged(ch)
  PROVE  Outputs'
  <1>1. /\ client' = client /\ child[c].status = "running"
        /\ \A d \in Conns \ {c} : child'[d] = child[d]
        /\ child'[c] = ch
    BY DEF ScriptStep, CoreOK, loop
  <1>2. ~client[c].hasRead
    BY <1>1 DEF Outputs, Taken
  <1>3. Taken(client[c], child'[c])
    BY <1>2, TakenRecords, TakenBefore DEF Taken
  <1> QED BY <1>1, <1>3 DEF Outputs

-----------------------------------------------------------------------------
(* The theorem. *)

\* Nothing has been taken before the first connection.
LEMMA InitTaken == Init => Outputs
  BY TakenNobody DEF Init, Outputs, Unchanged

\* Every step keeps what is said of outputs.
LEMMA NextTaken == CoreOK /\ Outputs /\ [Next]_vars => Outputs'
  <1> SUFFICES ASSUME CoreOK, Outputs, [Next]_vars PROVE Outputs'
    OBVIOUS
  <1>1. CASE UNCHANGED vars
    BY <1>1 DEF vars, Outputs
  <1>2. ASSUME NEW W, Poll(W) PROVE Outputs'
    BY <1>2 DEF Poll, Outputs
  <1>3. ASSUME NEW c \in Conns, Connect(c) \/ SendSegment(c) \/ Lengthen(c)
                                  \/ HalfClose(c) \/ HangUp(c)
        PROVE  Outputs'
    BY <1>3 DEF Connect, SendSegment, Lengthen, HalfClose, HangUp, PeerStep, loop, Outputs
  <1>4. ASSUME NEW c \in Conns, ScriptWrites(c) \/ ScriptExits(c)
        PROVE  Outputs'
    <2>1. child[c] \in ChildRecords /\ Unchanged(child[c])
      BY TakenRecords
    <2>2. CASE ScriptExits(c)
      <3>1. Unchanged([child[c] EXCEPT !.status = "exited"])
        BY <2>1 DEF Unchanged, ChildRecords
      <3> QED BY <2>2, <3>1, ScriptTaken DEF ScriptExits
    <2>3. CASE ScriptWrites(c)
      <3>1. PICK binary \in {child[c].binary, TRUE} :
              ScriptStep(c, [child[c] EXCEPT !.made = child[c].made + 1, !.binary = binary])
        BY <2>3 DEF ScriptWrites
      <3> DEFINE ch == [child[c] EXCEPT !.made = child[c].made + 1, !.binary = binary]
      <3>2. /\ ch.made = child[c].made + 1 /\ ch.binary = binary
            /\ ch.intact = child[c].intact
        BY <2>1 DEF ChildRecords
      <3>3. ScriptStep(c, ch)
        BY <3>1
      <3> HIDE DEF ch
      <3>4. ch.made < ReadSize => child[c].made < ReadSize
        BY <2>1, <3>2, BoundsAssumption DEF ChildRecords
      <3>5. ~ch.binary => ~child[c].binary
        BY <3>1, <3>2
      <3>6. Unchanged(ch)
        BY <2>1, <3>2, <3>4, <3>5 DEF Unchanged
      <3> QED BY <3>3, <3>6, ScriptTaken
    <2> QED BY <1>4, <2>2, <2>3
  <1> QED BY <1>1, <1>2, <1>3, <1>4, TimeoutTaken, VisitTaken DEF Next

\* When the server stops reading a script's output (CGI::receive saw a short read
\* and closed its end), the script has been waited for and everything it ever
\* wrote has been taken from the pipe, and stays so; and text shorter than the
\* buffer is appended to the response as it was written.  Whatever the order of
\* visits, timeouts, hang-ups and resets.
THEOREM OutputWhole == Spec => []OutputComplete
  <1>1. Consistent => CoreOK
    BY DEF Consistent
  <1>2. Outputs => OutputComplete
    BY DEF Outputs, OutputComplete, Taken, Unchanged
  <1>3. Init => Outputs
    BY InitTaken
  <1>4. Consistent /\ Outputs /\ [Next]_vars => Outputs'
    BY <1>1, NextTaken
  <1> QED BY <1>2, <1>3, <1>4, Consistency, PTL DEF Spec
=============================================================================
