------------------------------ MODULE CgiPipes ------------------------------
(***************************************************************************)
(* The pipes between the server and its scripts: CGI::start, send and      *)
(* receive against the kernel.  The server is one thread that waits inside *)
(* write() and waitpid(); a pipe holds so much and no more; fork() hands   *)
(* the child every descriptor the server has, and none is closed on exec.  *)
(*                                                                         *)
(* When the event loop visits which client is EventLoop's matter: here any *)
(* visit its state allows may come at any time, and a timeout whenever     *)
(* poll() may have nothing to report.  Bodies are made of the parts one    *)
(* write takes, outputs are counted in writes.                             *)
(***************************************************************************)
EXTENDS Integers, Sequences

CONSTANTS
  Clients,   \* clients that may ask for a script, each once
  Server,    \* the server's process; a script's process goes by its client
  Programs,  \* what scripts do: "read" their input to its end, "write" once
  Capacity,  \* writes a pipe holds
  MaxBody    \* writes a body takes, at most

ASSUME ServerAssumption == Server \notin Clients
ASSUME PipeAssumption == Capacity \in Nat \ {0} /\ MaxBody \in Nat
ASSUME ProgramsAssumption == Programs \subseteq Seq({"read", "write"})

VARIABLES
  server,   \* "running" or "down"
  inside,   \* the call the server is in: <<>>, or <<its name, the client>>
  phase,    \* the state of each client
  unsent,   \* writes of the body still to be made
  input,    \* the parts of a body _serverToCgiFd holds
  output,   \* writes _cgiToServerFd holds
  holds,    \* the ends of pipes and connections each process has open
  script    \* the process that runs each script

pipes == <<input, output>>
vars == <<server, inside, phase, unsent, pipes, holds, script>>

Processes == Clients \cup {Server}

-----------------------------------------------------------------------------
End(c, name) == [of |-> c, name |-> name]
Sock(c)    == End(c, "socket")
InRead(c)  == End(c, "input, read end")
InWrite(c) == End(c, "input, write end")
OutRead(c) == End(c, "output, read end")
OutWrite(c) == End(c, "output, write end")
Pipes(c)   == {InRead(c), InWrite(c), OutRead(c), OutWrite(c)}
Ends       == UNION {{Sock(c)} \cup Pipes(c) : c \in Clients}

\* Some process, or some other process than q, has that end open.
Open(end) == \E p \in Processes : end \in holds[p]
OpenBeside(end, q) == \E p \in Processes \ {q} : end \in holds[p]

\* The process ends, and the kernel closes what it held.
Down ==
  /\ server' = "down" /\ inside' = <<>>
  /\ holds' = [holds EXCEPT ![Server] = {}]
  /\ UNCHANGED <<phase, unsent, pipes, script>>

Turn == server = "running" /\ inside = <<>>

\* A connection is accepted.
Accept(c) ==
  /\ Turn /\ phase[c] = "idle"
  /\ phase' = [phase EXCEPT ![c] = "Receiving"]
  /\ holds' = [holds EXCEPT ![Server] = @ \cup {Sock(c)}]
  /\ UNCHANGED <<server, inside, unsent, pipes, script>>

\* The request is in, and names a script that may be run.
Ask(c) ==
  /\ Turn /\ phase[c] = "Receiving"
  /\ phase' = [phase EXCEPT ![c] = "CGI_Start"]
  /\ UNCHANGED <<server, inside, unsent, pipes, holds, script>>

-----------------------------------------------------------------------------
KeptAlways(c) == {OutRead(c), InWrite(c)}

\* What start() leaves open in the server: without a body, not even the input.
KeptByServer(c) == IF unsent[c] = 0 THEN {OutRead(c)} ELSE {OutRead(c), InWrite(c)}

\* CGI::start up to its return in the server.  The child starts with a copy of
\* all the server has open at the fork.
Start(c) ==
  /\ Turn /\ phase[c] = "CGI_Start"
  /\ holds' = [holds EXCEPT ![Server] = @ \cup KeptByServer(c),
                            ![c] = holds[Server] \cup Pipes(c)]
  /\ script' = [script EXCEPT ![c].status = "forked"]
  /\ phase' = [phase EXCEPT ![c] = IF unsent[c] = 0 THEN "CGI_Read" ELSE "CGI_Write"]
  /\ UNCHANGED <<server, inside, unsent, pipes>>

\* The child's part of start(), to execve.
Execute(c) ==
  /\ script[c].status = "forked"
  /\ holds' = [holds EXCEPT ![c] = @ \ {InWrite(c), OutRead(c)}]
  /\ script' = [script EXCEPT ![c].status = "running"]
  /\ UNCHANGED <<server, inside, phase, unsent, pipes>>

\* CGI::send calls write(): the visit may come through the client's socket, so
\* there need not be room.
Send(c) ==
  /\ Turn /\ phase[c] = "CGI_Write"
  /\ inside' = <<"write", c>>
  /\ UNCHANGED <<server, phase, unsent, pipes, holds, script>>

BodyIsSentLate(c) == unsent[c] = 0

\* This write is the last of the body.
BodyIsSent(c) == unsent[c] = 1

ClosedNever(c) == {}

ClosedEarly(c) == IF unsent[c] <= 2 THEN {InWrite(c)} ELSE {}

\* The end send() closes once the body is written.
ClosedAfter(c) == IF BodyIsSent(c) THEN {InWrite(c)} ELSE {}

\* write() is given body.c_str() wherever in the body the write stands: the first
\* part, again and again.
Part == 1

\* write() returns once there is room; with no reader left a signal ends the
\* server.
Written(c) ==
  /\ inside = <<"write", c>>
  /\ \/ ~Open(InRead(c)) /\ Down
     \/ /\ Open(InRead(c)) /\ Len(input[c]) < Capacity
        /\ input' = [input EXCEPT ![c] = Append(@, Part)]
        /\ unsent' = [unsent EXCEPT ![c] = @ - 1]
        /\ holds' = [holds EXCEPT ![Server] = @ \ ClosedAfter(c)]
        /\ phase' = [phase EXCEPT ![c] = IF BodyIsSent(c) THEN "CGI_Read" ELSE "CGI_Write"]
        /\ inside' = <<>>
        /\ UNCHANGED <<server, output, script>>

\* CGI::receive calls waitpid(): there is output to read, or the peer sent more
\* than its request and its socket was reported.
Receive(c) ==
  /\ Turn /\ phase[c] = "CGI_Read"
  /\ inside' = <<"waitpid", c>>
  /\ UNCHANGED <<server, phase, unsent, pipes, holds, script>>

\* The script has ended, and its output is read.  (One that fills the buffer of
\* receive() is read in two calls; see EventLoop.)
Received(c) ==
  /\ inside = <<"waitpid", c>> /\ script[c].status = "ended"
  /\ script' = [script EXCEPT ![c].status = "reaped", ![c].answered = output[c]]
  /\ output' = [output EXCEPT ![c] = 0]
  /\ holds' = [holds EXCEPT ![Server] = @ \ {OutRead(c)}]
  /\ phase' = [phase EXCEPT ![c] = "Sending"]
  /\ inside' = <<>>
  /\ UNCHANGED <<server, unsent, input>>

\* poll() has output or the end of it to report.
Reported(c) == OutRead(c) \in holds[Server] /\ (output[c] > 0 \/ ~Open(OutWrite(c)))

\* The visits that end the server: the output is reported before the body is
\* sent, the input after it is, the pipe hangs up because its script ended, or the
\* client of a pipe that has something to report was timed out (it waits to send,
\* or getClientByPipeFd finds it no more).
Mismatched(c) ==
  /\ Turn
  /\ \/ phase[c] = "CGI_Write" /\ output[c] > 0
     \/ phase[c] = "CGI_Read" /\ script[c].body > 0
     \/ phase[c] \in {"CGI_Write", "CGI_Read"} /\ ~Open(OutWrite(c))
     \/ phase[c] \in {"Sending", "Done"} /\ Reported(c)
  /\ Down

LateOnes == {c \in Clients : phase[c] \in {"Receiving", "CGI_Read"}}

\* poll() reports nothing for 2500 ms: what clients were receiving or waiting to
\* read is given up for a 408, and no pipe is closed.  (A client that is to start a
\* script or to write to one is reported at once: its socket has room.)
Timeout ==
  /\ Turn
  /\ \A c \in Clients : phase[c] \notin {"CGI_Start", "CGI_Write"} /\ ~Reported(c)
  /\ phase' = [c \in Clients |-> IF c \in LateOnes THEN "Sending" ELSE phase[c]]
  /\ UNCHANGED <<server, inside, unsent, pipes, holds, script>>

LeftOpen(c) == {}

\* The descriptors the destructor of a client closes.
Destroyed(c) == {Sock(c)}

\* The response is sent and the client destroyed.
Finish(c) ==
  /\ Turn /\ phase[c] = "Sending"
  /\ phase' = [phase EXCEPT ![c] = "Done"]
  /\ holds' = [holds EXCEPT ![Server] = @ \ Destroyed(c)]
  /\ UNCHANGED <<server, inside, unsent, pipes, script>>

\* What peers bring about, or their silence.
Asked == Timeout \/ \E c \in Clients : Accept(c) \/ Ask(c)

Serve == \E c \in Clients :
  \/ Start(c) \/ Send(c) \/ Written(c) \/ Receive(c) \/ Received(c)
  \/ Mismatched(c) \/ Finish(c)

-----------------------------------------------------------------------------
\* What a script does next, if it is not at its end, and when it can.
About(c, what) ==
  script[c].status = "running" /\ script[c].todo # <<>> /\ Head(script[c].todo) = what

MayRead(c)   == About(c, "read") /\ input[c] # <<>>
MaySeeEnd(c) == About(c, "read") /\ input[c] = <<>> /\ ~Open(InWrite(c))
MayWrite(c)  == About(c, "write") /\ Open(OutRead(c)) /\ output[c] < Capacity
MayExit(c) ==
  /\ script[c].status = "running"
  /\ script[c].todo = <<>> \/ (About(c, "write") /\ ~Open(OutRead(c)))

Reads(c) ==
  /\ MayRead(c)
  /\ input' = [input EXCEPT ![c] = Tail(@)]
  /\ script' = [script EXCEPT ![c].got = Append(@, Head(input[c]))]
  /\ UNCHANGED <<server, inside, phase, unsent, output, holds>>

\* The end of the input is seen once nobody can write to it.
SeesEnd(c) ==
  /\ MaySeeEnd(c)
  /\ script' = [script EXCEPT ![c].todo = Tail(@), ![c].sawEnd = TRUE]
  /\ UNCHANGED <<server, inside, phase, unsent, pipes, holds>>

Writes(c) ==
  /\ MayWrite(c)
  /\ output' = [output EXCEPT ![c] = @ + 1]
  /\ script' = [script EXCEPT ![c].todo = Tail(@), ![c].made = @ + 1]
  /\ UNCHANGED <<server, inside, phase, unsent, input, holds>>

\* At its end, or by the signal that nobody reads its output.
Exits(c) ==
  /\ MayExit(c)
  /\ script' = [script EXCEPT ![c].status = "ended"]
  /\ holds' = [holds EXCEPT ![c] = {}]
  /\ UNCHANGED <<server, inside, phase, unsent, pipes>>

\* The script, or the child that is to become it, does not have to wait.
CanRun(c) ==
  script[c].status = "forked" \/ MayRead(c) \/ MaySeeEnd(c) \/ MayWrite(c) \/ MayExit(c)

Run(c) == Execute(c) \/ Reads(c) \/ SeesEnd(c) \/ Writes(c) \/ Exits(c)

-----------------------------------------------------------------------------
Init ==
  /\ server = "running" /\ inside = <<>>
  /\ phase = [c \in Clients |-> "idle"]
  /\ unsent \in [Clients -> 0 .. MaxBody]
  /\ input = [c \in Clients |-> <<>>] /\ output = [c \in Clients |-> 0]
  /\ holds = [p \in Processes |-> {}]
  /\ \E program \in [Clients -> Programs] :
       script = [c \in Clients |->
                   [status |-> "none", body |-> unsent[c], todo |-> program[c],
                    got |-> <<>>, sawEnd |-> FALSE, made |-> 0, answered |-> 0]]

Next == Asked \/ Serve \/ \E c \in Clients : Run(c)

Spec == Init /\ [][Next]_vars

\* The kernel schedules the server and every script; nobody need connect, and a
\* connection need not ask for anything.
Fairness == WF_vars(Serve) /\ \A c \in Clients : WF_vars(Run(c))

FairSpec == Spec /\ Fairness

-----------------------------------------------------------------------------
Phases == {"idle", "Receiving", "CGI_Start", "CGI_Write", "CGI_Read", "Sending", "Done"}

\* Every variable has its type; pipes hold no more than they can.
TypeOK ==
  /\ server \in {"running", "down"}
  /\ inside \in {<<>>} \cup ({"write", "waitpid"} \X Clients)
  /\ phase \in [Clients -> Phases]
  /\ unsent \in [Clients -> 0 .. MaxBody]
  /\ input \in [Clients -> Seq(1 .. MaxBody)] /\ output \in [Clients -> 0 .. Capacity]
  /\ \A c \in Clients : Len(input[c]) <= Capacity
  /\ holds \in [Processes -> SUBSET Ends]

\* A script that sees the end of its input has been given as much as the body is
\* long, and a body that one write takes as it was received: whatever other scripts
\* hold open, and however full the pipe was.  (Of a longer body it has the beginning
\* in the place of every later part: CGI.cpp:64.)
BodyGiven ==
  \A c \in Clients : script[c].sawEnd /\ server = "running" =>
    /\ Len(script[c].got) = script[c].body
    /\ script[c].body <= 1 => \A i \in 1 .. script[c].body : script[c].got[i] = i

\* A script's output is too much for its pipe, or its input is kept from ending
\* by another script, which was forked while the body was still being sent.
Overflows(c) == output[c] = Capacity /\ About(c, "write")
KeptOpen(c)  == \E d \in Clients \ {c} : InWrite(c) \in holds[d]
Culprit(c)   == Overflows(c) \/ KeptOpen(c)

\* The server never waits for a script that waits for the server: in waitpid(),
\* whatever keeps the script from going on is the script's own output or an
\* end that another script holds.
NoMutualWait ==
  \A c \in Clients : inside = <<"waitpid", c>> =>
    \/ script[c].status = "ended"
    \/ Culprit(c)
    \/ CanRun(c)

\* The server gets out of write() and waitpid() again, unless some script
\* overflows its pipe, or is kept waiting by one that inherited its input, for
\* good.
Freed ==
  ([]<>(\A c \in Clients : ~Culprit(c))) => (inside # <<>> ~> inside = <<>>)

\* A peer sees the end of its response, which nothing else marks: every copy of
\* its connection is closed in the end, also the ones scripts of other clients
\* inherited.
EndSeen ==
  ([]<>(\A c \in Clients : ~Culprit(c))) =>
    \A c \in Clients : phase[c] = "Done" ~> ~Open(Sock(c))

\* The server keeps no end of a client it is done with, but for the output of a
\* script it never waited for: that of a client it timed out.
OnlyTimeoutsLeak ==
  \A c \in Clients : phase[c] = "Done" =>
    \A end \in holds[Server] : end.of = c =>
      end = OutRead(c) /\ script[c].status \in {"forked", "running", "ended"}
=============================================================================
