--------------------------- MODULE CgiPipesProofs ---------------------------
(***************************************************************************)
(* What holds of the pipes between the server and its scripts for every    *)
(* number of clients, every program, every capacity and every body.        *)
(***************************************************************************)
EXTENDS CgiPipes, TLAPS

Names == {"socket", "input, read end", "input, write end", "output, read end",
          "output, write end"}

Calls == {"read", "write"}

\* All a pipe to a script ever holds: the first part of a body.
Parts == {Part}

\* What is known of each script, and what it is about to do.
Script ==
  [status : {"none", "forked", "running", "ended", "reaped"}, body : 0 .. MaxBody,
   todo : Seq(Calls), got : Seq(Parts), sawEnd : BOOLEAN, made : Nat, answered : Nat]

Types == /\ TypeOK /\ input \in [Clients -> Seq(Parts)] /\ script \in [Clients -> Script]

\* The server is in a call only while it runs, and in the one its client's state
\* stands for.
CallFits ==
  /\ server = "down" => inside = <<>>
  /\ \A c \in Clients :
       /\ inside = <<"write", c>> => phase[c] = "CGI_Write"
       /\ inside = <<"waitpid", c>> => phase[c] = "CGI_Read"

Alive == {"forked", "running", "ended"}

\* A body is being written as long as there is some of it left, to a script that
\* was started and not waited for yet; a client that timed out before has none.
BodyFits(c) ==
  /\ phase[c] = "CGI_Write" => unsent[c] > 0
  /\ phase[c] = "CGI_Read" => unsent[c] = 0
  /\ phase[c] \in {"Sending", "Done"} => unsent[c] = 0 \/ script[c].status = "none"
  /\ phase[c] \in {"idle", "Receiving", "CGI_Start"} => script[c].status = "none"
  /\ phase[c] \in {"CGI_Write", "CGI_Read"} => script[c].status \in Alive

\* The ends of a client the server has open, by the state the client is in.
Keeps(c, name) ==
  \/ name = "socket" /\ phase[c] \notin {"idle", "Done"}
  \/ name = "input, write end" /\ phase[c] = "CGI_Write"
  \/ name = "output, read end" /\ phase[c] \in {"CGI_Write", "CGI_Read"}

\* What a timeout leaves it: the output of a script nobody waited for.
Left(c, name) ==
  name = "output, read end" /\ phase[c] \in {"Sending", "Done"} /\ script[c].status \in Alive

HeldFits(c) ==
  server = "running" => \A name \in Names :
    /\ Keeps(c, name) => End(c, name) \in holds[Server]
    /\ End(c, name) \in holds[Server] => Keeps(c, name) \/ Left(c, name)

\* Nothing of a body is lost: it is read, in the pipe, or still to be written.
NothingLost(c) == Len(script[c].got) + Len(input[c]) + unsent[c] = script[c].body

\* An end of the input is not seen before its time.
EndFits(c) ==
  script[c].sawEnd /\ server = "running" => unsent[c] = 0 /\ input[c] = <<>>

Fits(c) == BodyFits(c) /\ HeldFits(c) /\ NothingLost(c) /\ EndFits(c)

\* The invariant all of this rests on.
Inv ==
  /\ Types /\ CallFits
  /\ server = "down" => holds[Server] = {}
  /\ \A c \in Clients : Fits(c)

-----------------------------------------------------------------------------
\* Ends of pipes and connections are told apart by their client and their name.
LEMMA EndsApart ==
  ASSUME NEW c, NEW d, NEW m, NEW n, End(c, m) = End(d, n)
  PROVE  c = d /\ m = n
<1>1. End(c, m).of = c /\ End(d, n).of = d  BY DEF End
<1>2. End(c, m).name = m /\ End(d, n).name = n  BY DEF End
<1> QED BY <1>1, <1>2

\* An end is one of a client and has one of the five names, and the other way round.
LEMMA EndsNamed ==
  /\ \A c \in Clients, name \in Names : End(c, name) \in Ends
  /\ \A end \in Ends : \E c \in Clients, name \in Names : end = End(c, name)
<1>1. \A c \in Clients, name \in Names : End(c, name) \in {Sock(c)} \cup Pipes(c)
      BY DEF Names, Pipes, Sock, InRead, InWrite, OutRead, OutWrite
<1>2. \A c \in Clients : \A end \in {Sock(c)} \cup Pipes(c) :
        \E name \in Names : end = End(c, name)
      BY DEF Names, Pipes, Sock, InRead, InWrite, OutRead, OutWrite
<1> QED BY <1>1, <1>2 DEF Ends

\* The invariant holds at the start.
LEMMA InitInv == Init => Inv
<1> SUFFICES ASSUME Init PROVE Inv
    OBVIOUS
<1> USE ServerAssumption, PipeAssumption, ProgramsAssumption
<1>1. PICK program \in [Clients -> Programs] :
        script = [c \in Clients |->
                    [status |-> "none", body |-> unsent[c], todo |-> program[c],
                     got |-> <<>>, sawEnd |-> FALSE, made |-> 0, answered |-> 0]]
      BY DEF Init
<1>2. TypeOK /\ input \in [Clients -> Seq(Parts)]
  <2>1. holds \in [Processes -> SUBSET Ends]  BY DEF Init
  <2>2. phase \in [Clients -> Phases]  BY DEF Init, Phases
  <2>3. /\ input \in [Clients -> Seq(1 .. MaxBody)] /\ input \in [Clients -> Seq(Parts)]
        /\ \A c \in Clients : Len(input[c]) <= Capacity
        BY DEF Init
  <2> QED BY <2>1, <2>2, <2>3 DEF Init, TypeOK
<1>3. \A c \in Clients : program[c] \in Seq(Calls)  BY <1>1 DEF Calls
<1>4. script \in [Clients -> Script]
  <2>1. unsent \in [Clients -> 0 .. MaxBody] /\ <<>> \in Seq(Parts)  BY DEF Init
  <2> QED BY <1>1, <1>3, <2>1 DEF Script
<1>5. CallFits /\ server = "running"  BY DEF Init, CallFits
<1>6. ASSUME NEW c \in Clients PROVE Fits(c)
  <2>1. /\ phase[c] = "idle" /\ input[c] = <<>> /\ holds[Server] = {}
        /\ unsent[c] \in 0 .. MaxBody
        BY DEF Init, Processes
  <2>2. /\ script[c].status = "none" /\ script[c].got = <<>> /\ script[c].sawEnd = FALSE
        /\ script[c].body = unsent[c]
        BY <1>1
  <2>3. BodyFits(c) /\ EndFits(c)  BY <2>1, <2>2 DEF BodyFits, EndFits
  <2>4. HeldFits(c)  BY <2>1 DEF HeldFits, Keeps
  <2>5. NothingLost(c)  BY <2>1, <2>2 DEF NothingLost
  <2> QED BY <2>3, <2>4, <2>5 DEF Fits
<1> QED BY <1>2, <1>4, <1>5, <1>6 DEF Inv, Types

-----------------------------------------------------------------------------
\* A step leaves client d, its script and the ends the server has for it alone.
LeftAlone(d) ==
  /\ phase'[d] = phase[d] /\ unsent'[d] = unsent[d] /\ input'[d] = input[d]
  /\ script'[d] = script[d]
  /\ \A name \in Names : End(d, name) \in holds'[Server] <=> End(d, name) \in holds[Server]

\* A step that leaves all clients but one alone needs to be looked at for that one.
LEMMA OneClient ==
  ASSUME Inv, NEW c \in Clients, server' = server, Types', CallFits', Fits(c)',
         server = "down" => holds'[Server] = {},
         \A d \in Clients \ {c} : LeftAlone(d)
  PROVE  Inv'
<1>1. ASSUME NEW d \in Clients, d # c PROVE Fits(d)'
  <2>1. LeftAlone(d) /\ Fits(d)  BY <1>1 DEF Inv
  <2>2. BodyFits(d)' /\ NothingLost(d)' /\ EndFits(d)'
        BY <2>1 DEF LeftAlone, Fits, BodyFits, NothingLost, EndFits
  <2>3. HeldFits(d)'
    <3>1. ASSUME NEW name \in Names
          PROVE  (Keeps(d, name)' <=> Keeps(d, name)) /\ (Left(d, name)' <=> Left(d, name))
          BY <2>1 DEF LeftAlone, Keeps, Left
    <3> QED BY <2>1, <3>1 DEF LeftAlone, Fits, HeldFits
  <2> QED BY <2>2, <2>3 DEF Fits
<1> QED BY <1>1 DEF Inv

\* The process may end at any time: the invariant says little of it then.
LEMMA DownInv == ASSUME Inv, Down PROVE Inv'
<1> USE DEF Down
<1>1. Types'
      BY ServerAssumption DEF Inv, Types, TypeOK, pipes, Processes
<1>2. CallFits'  BY DEF CallFits
<1>3. ASSUME NEW c \in Clients PROVE Fits(c)'
      BY DEF Inv, Fits, BodyFits, HeldFits, NothingLost, EndFits, pipes
<1>4. holds'[Server] = {}  BY DEF Inv, Types, TypeOK, Processes
<1> QED BY <1>1, <1>2, <1>3, <1>4 DEF Inv

\* A client comes.
LEMMA AcceptInv == ASSUME Inv, NEW c \in Clients, Accept(c) PROVE Inv'
<1> USE DEF Accept, Turn
<1>0. /\ server = "running" /\ server' = "running" /\ phase[c] = "idle"
      /\ phase'[c] = "Receiving" /\ Server \in Processes
      /\ unsent' = unsent /\ input' = input /\ script' = script
      /\ holds'[Server] = holds[Server] \cup {Sock(c)}
      BY DEF Inv, Types, TypeOK, Processes, pipes
<1>1. Types'
  <2>1. Sock(c) \in Ends  BY EndsNamed DEF Sock, Names
  <2>2. holds' \in [Processes -> SUBSET Ends]
    <3>1. holds[Server] \cup {Sock(c)} \in SUBSET Ends  BY <1>0, <2>1 DEF Inv, Types, TypeOK
    <3> QED BY <3>1 DEF Inv, Types, TypeOK
  <2>3. phase' \in [Clients -> Phases]  BY DEF Inv, Types, TypeOK, Phases
  <2> QED BY <2>2, <2>3 DEF Inv, Types, TypeOK, pipes
<1>2. CallFits'  BY DEF Inv, CallFits
<1>3. \A d \in Clients, name \in Names :
        End(d, name) = Sock(c) <=> d = c /\ name = "socket"
      BY EndsApart DEF Sock
<1>4. \A d \in Clients \ {c} : phase'[d] = phase[d]  BY DEF Inv, Types, TypeOK
<1> HIDE DEF Accept
<1>5. \A d \in Clients \ {c} : LeftAlone(d)  BY <1>0, <1>3, <1>4 DEF LeftAlone
<1>6. Fits(c)'
  <2>1. Fits(c)  BY DEF Inv
  <2>2. BodyFits(c)' /\ NothingLost(c)' /\ EndFits(c)'
        BY <1>0, <2>1 DEF Fits, BodyFits, NothingLost, EndFits
  <2>3. HeldFits(c)'
    <3> SUFFICES ASSUME NEW name \in Names
                 PROVE  /\ Keeps(c, name)' => End(c, name) \in holds'[Server]
                        /\ End(c, name) \in holds'[Server] => Keeps(c, name)'
        BY DEF HeldFits
    <3>1. End(c, name) \notin holds[Server]
          BY <1>0, <2>1 DEF Fits, HeldFits, Keeps, Left
    <3>2. Keeps(c, name)' <=> name = "socket"  BY <1>0 DEF Keeps
    <3> QED BY <1>0, <1>3, <3>1, <3>2
  <2> QED BY <2>2, <2>3 DEF Fits
<1>7. server' = server /\ server # "down"  BY <1>0
<1> QED BY <1>1, <1>2, <1>5, <1>6, <1>7, OneClient

\* A request for a script is in.
LEMMA AskInv == ASSUME Inv, NEW c \in Clients, Ask(c) PROVE Inv'
<1> USE DEF Ask, Turn
<1>0. /\ server = "running" /\ server' = "running" /\ phase[c] = "Receiving"
      /\ phase'[c] = "CGI_Start"
      /\ unsent' = unsent /\ input' = input /\ script' = script /\ holds' = holds
      BY DEF Inv, Types, TypeOK, pipes
<1>1. Types'
  <2>1. phase' \in [Clients -> Phases]  BY DEF Inv, Types, TypeOK, Phases
  <2> QED BY <2>1 DEF Inv, Types, TypeOK, pipes
<1>2. CallFits'  BY DEF Inv, CallFits
<1>3. \A d \in Clients \ {c} : phase'[d] = phase[d]  BY DEF Inv, Types, TypeOK
<1> HIDE DEF Ask
<1>4. \A d \in Clients \ {c} : LeftAlone(d)  BY <1>0, <1>3 DEF LeftAlone
<1>5. Fits(c)'
  <2>1. Fits(c)  BY DEF Inv
  <2>2. BodyFits(c)' /\ NothingLost(c)' /\ EndFits(c)'
        BY <1>0, <2>1 DEF Fits, BodyFits, NothingLost, EndFits
  <2>3. HeldFits(c)'  BY <1>0, <2>1 DEF Fits, HeldFits, Keeps, Left
  <2> QED BY <2>2, <2>3 DEF Fits
<1>6. server' = server /\ server # "down"  BY <1>0
<1> QED BY <1>1, <1>2, <1>4, <1>5, <1>6, OneClient

\* A timeout gives up clients that wait, and closes nothing.
LEMMA TimeoutInv == ASSUME Inv, Timeout PROVE Inv'
<1> USE DEF Timeout, Turn
<1>0. /\ server = "running" /\ server' = "running" /\ inside = <<>> /\ inside' = <<>>
      /\ unsent' = unsent /\ input' = input /\ script' = script /\ holds' = holds
      /\ output' = output
      BY DEF pipes
<1>1. \A c \in Clients :
        /\ phase[c] \in {"Receiving", "CGI_Read"} => phase'[c] = "Sending"
        /\ phase[c] \notin {"Receiving", "CGI_Read"} => phase'[c] = phase[c]
        /\ phase[c] \notin {"CGI_Start", "CGI_Write"} /\ phase[c] \in Phases
      BY DEF LateOnes, Inv, Types, TypeOK
<1>2. phase' \in [Clients -> Phases]
  <2>1. phase' = [c \in Clients |-> IF c \in LateOnes THEN "Sending" ELSE phase[c]]
        OBVIOUS
  <2>2. \A c \in Clients : (IF c \in LateOnes THEN "Sending" ELSE phase[c]) \in Phases
        BY <1>1 DEF Phases
  <2> QED BY <2>1, <2>2
<1> HIDE DEF Timeout
<1>3. Types'  BY <1>0, <1>2 DEF Inv, Types, TypeOK
<1>4. CallFits'  BY <1>0 DEF CallFits
<1>5. ASSUME NEW c \in Clients PROVE Fits(c)'
  <2>1. Fits(c)  BY DEF Inv
  <2>2. NothingLost(c)' /\ EndFits(c)'  BY <1>0, <2>1 DEF Fits, NothingLost, EndFits
  <2>3. BodyFits(c)' /\ HeldFits(c)'
    <3>1. CASE phase[c] \in {"Receiving", "CGI_Read"}
      <4>1. phase'[c] = "Sending"  BY <1>1, <3>1
      <4>2. BodyFits(c)'  BY <1>0, <2>1, <3>1, <4>1 DEF Fits, BodyFits
      <4>3. HeldFits(c)'
            BY <1>0, <2>1, <3>1, <4>1 DEF Fits, BodyFits, HeldFits, Keeps, Left, Alive
      <4> QED BY <4>2, <4>3
    <3>2. CASE phase[c] \notin {"Receiving", "CGI_Read"}
      <4>1. phase'[c] = phase[c]  BY <1>1, <3>2
      <4> QED BY <1>0, <2>1, <4>1 DEF Fits, BodyFits, HeldFits, Keeps, Left
    <3> QED BY <3>1, <3>2
  <2> QED BY <2>2, <2>3 DEF Fits
<1> QED BY <1>0, <1>3, <1>4, <1>5 DEF Inv

\* fork() and the rest of start().
LEMMA StartInv == ASSUME Inv, NEW c \in Clients, Start(c) PROVE Inv'
<1> USE ServerAssumption DEF Start, Turn
<1>0. /\ server = "running" /\ server' = "running" /\ phase[c] = "CGI_Start"
      /\ Server \in Processes /\ c \in Processes /\ c # Server /\ inside' = inside
      /\ unsent' = unsent /\ input' = input /\ output' = output
      BY DEF Inv, Processes, pipes
<1>1. /\ phase' = [phase EXCEPT ![c] = IF unsent[c] = 0 THEN "CGI_Read" ELSE "CGI_Write"]
      /\ script' = [script EXCEPT ![c].status = "forked"]
      /\ holds'[Server] = holds[Server] \cup KeptByServer(c)
      BY <1>0 DEF Inv, Types, TypeOK
<1>2. Types'
  <2>1. KeptByServer(c) \subseteq Ends /\ Pipes(c) \subseteq Ends
        BY EndsNamed DEF KeptByServer, Pipes, Names, InRead, InWrite, OutRead, OutWrite
  <2>2. holds' \in [Processes -> SUBSET Ends]  BY <1>0, <2>1 DEF Inv, Types, TypeOK
  <2>3. phase' \in [Clients -> Phases]  BY <1>1 DEF Inv, Types, TypeOK, Phases
  <2>4. script' \in [Clients -> Script]
    <3>1. script \in [Clients -> Script] /\ script' = [script EXCEPT ![c].status = "forked"]
          BY <1>1 DEF Inv, Types
    <3> HIDE DEF Start
    <3> QED BY <3>1 DEF Script
  <2> QED BY <1>0, <2>2, <2>3, <2>4 DEF Inv, Types, TypeOK
<1>3. CallFits'  BY DEF Inv, CallFits
<1>4. \A d \in Clients \ {c}, name \in Names : End(d, name) \notin KeptByServer(c)
      BY EndsApart DEF KeptByServer, OutRead, InWrite
<1>5. \A d \in Clients \ {c} : phase'[d] = phase[d] /\ script'[d] = script[d]
      BY <1>1 DEF Inv, Types, TypeOK
<1> HIDE DEF Start
<1>6. \A d \in Clients \ {c} : LeftAlone(d)  BY <1>0, <1>1, <1>4, <1>5 DEF LeftAlone
<1>7. Fits(c)'
  <2>1. Fits(c) /\ unsent[c] \in 0 .. MaxBody  BY DEF Inv, Types, TypeOK
  <2>2. /\ script'[c].status = "forked" /\ script'[c].got = script[c].got
        /\ script'[c].sawEnd = script[c].sawEnd /\ script'[c].body = script[c].body
        BY <1>1 DEF Inv, Types, Script
  <2>3. /\ unsent[c] = 0 => phase'[c] = "CGI_Read"
        /\ unsent[c] # 0 => phase'[c] = "CGI_Write"
        BY <1>1 DEF Inv, Types, TypeOK
  <2>4. BodyFits(c)'
    <3>1. unsent[c] # 0 => unsent[c] > 0  BY <2>1, PipeAssumption
    <3>2. CASE unsent[c] = 0  BY <1>0, <2>2, <2>3, <3>2 DEF BodyFits, Alive
    <3>3. CASE unsent[c] # 0  BY <1>0, <2>2, <2>3, <3>1, <3>3 DEF BodyFits, Alive
    <3> QED BY <3>2, <3>3
  <2>5. NothingLost(c)' /\ EndFits(c)'
        BY <1>0, <2>1, <2>2 DEF Fits, NothingLost, EndFits
  <2>6. HeldFits(c)'
    <3> SUFFICES ASSUME NEW name \in Names
                 PROVE  /\ Keeps(c, name)' => End(c, name) \in holds'[Server]
                        /\ End(c, name) \in holds'[Server] => Keeps(c, name)'
        BY DEF HeldFits
    <3>1. End(c, name) \in holds[Server] <=> name = "socket"
          BY <1>0, <2>1 DEF Fits, HeldFits, Keeps, Left
    <3>2. End(c, name) \in KeptByServer(c) <=>
            \/ name = "output, read end"
            \/ name = "input, write end" /\ unsent[c] # 0
          BY EndsApart DEF KeptByServer, OutRead, InWrite
    <3>3. Keeps(c, name)' <=>
            \/ name = "socket" \/ name = "output, read end"
            \/ name = "input, write end" /\ unsent[c] # 0
      <4>1. CASE unsent[c] = 0  BY <2>3, <4>1 DEF Keeps
      <4>2. CASE unsent[c] # 0  BY <2>3, <4>2 DEF Keeps
      <4> QED BY <4>1, <4>2
    <3> QED BY <1>1, <3>1, <3>2, <3>3
  <2> QED BY <2>4, <2>5, <2>6 DEF Fits
<1>8. server' = server /\ server # "down"  BY <1>0
<1> QED BY <1>2, <1>3, <1>6, <1>7, <1>8, OneClient

\* The calls themselves change nothing but where the server is.
LEMMA CallsInv == ASSUME Inv, NEW c \in Clients, Send(c) \/ Receive(c) PROVE Inv'
<1> USE DEF Send, Receive, Turn
<1>1. Types'  BY DEF Inv, Types, TypeOK, pipes
<1>2. CallFits'
  <2>1. CASE Send(c)  BY <2>1 DEF Inv, CallFits
  <2>2. CASE Receive(c)  BY <2>2 DEF Inv, CallFits
  <2> QED BY <2>1, <2>2
<1>3. /\ server' = server /\ phase' = phase /\ unsent' = unsent /\ input' = input
      /\ holds' = holds /\ script' = script
      BY DEF pipes
<1> HIDE DEF Send, Receive
<1>4. ASSUME NEW d \in Clients PROVE Fits(d)'
      BY <1>3 DEF Inv, Fits, BodyFits, HeldFits, Keeps, Left, NothingLost, EndFits
<1> QED BY <1>1, <1>2, <1>3, <1>4 DEF Inv

\* One write of the body reaches the pipe; with the last, the pipe is closed.
LEMMA WrittenInv == ASSUME Inv, NEW c \in Clients, Written(c) PROVE Inv'
<1>1. CASE Down  BY <1>1, DownInv
<1>2. CASE ~Down
  <2> USE ServerAssumption, PipeAssumption
  <2>0. /\ inside = <<"write", c>> /\ Len(input[c]) < Capacity
        /\ input' = [input EXCEPT ![c] = Append(@, Part)]
        /\ unsent' = [unsent EXCEPT ![c] = @ - 1]
        /\ holds' = [holds EXCEPT ![Server] = @ \ ClosedAfter(c)]
        /\ phase' = [phase EXCEPT ![c] = IF BodyIsSent(c) THEN "CGI_Read" ELSE "CGI_Write"]
        /\ inside' = <<>> /\ server' = server /\ output' = output /\ script' = script
        BY <1>2 DEF Written
  <2>1. /\ phase[c] = "CGI_Write" /\ server = "running" /\ unsent[c] \in 0 .. MaxBody
        /\ unsent[c] > 0 /\ input[c] \in Seq(Parts) /\ input[c] \in Seq(1 .. MaxBody)
        /\ Server \in Processes /\ Fits(c)
        /\ holds \in [Processes -> SUBSET Ends] /\ phase \in [Clients -> Phases]
        /\ unsent \in [Clients -> 0 .. MaxBody]
        BY <2>0 DEF Inv, Types, TypeOK, CallFits, Fits, BodyFits, Processes
  <2>2. /\ unsent'[c] = unsent[c] - 1 /\ input'[c] = Append(input[c], Part)
        /\ phase'[c] = IF unsent[c] = 1 THEN "CGI_Read" ELSE "CGI_Write"
        /\ holds'[Server] = holds[Server] \ ClosedAfter(c)
        BY <2>0, <2>1 DEF Inv, Types, TypeOK, BodyIsSent
  <2>3. Len(input'[c]) = Len(input[c]) + 1  BY <2>1, <2>2
  <2>4. Types'
    <3>1. holds' \in [Processes -> SUBSET Ends]
      <4>1. holds[Server] \ ClosedAfter(c) \in SUBSET Ends  BY <2>1
      <4> QED BY <2>0, <2>1, <4>1
    <3>2. unsent' \in [Clients -> 0 .. MaxBody]
      <4>1. unsent[c] - 1 \in 0 .. MaxBody  BY <2>1
      <4> QED BY <2>0, <2>1, <4>1
    <3>3. input' \in [Clients -> Seq(Parts)] /\ input' \in [Clients -> Seq(1 .. MaxBody)]
      <4>1. Part \in 1 .. MaxBody /\ Part \in Parts  BY <2>1 DEF Part, Parts
      <4>2. Append(input[c], Part) \in Seq(Parts)  BY <2>1, <4>1
      <4>3. Append(input[c], Part) \in Seq(1 .. MaxBody)  BY <2>1, <4>1
      <4>4. input \in [Clients -> Seq(Parts)] /\ input \in [Clients -> Seq(1 .. MaxBody)]
            BY DEF Inv, Types, TypeOK
      <4> QED BY <2>0, <4>2, <4>3, <4>4
    <3>4. \A d \in Clients : Len(input'[d]) <= Capacity
      <4> TAKE d \in Clients
      <4>1. CASE d = c
        <5>1. Len(input[c]) \in Nat  BY <2>1
        <5> QED BY <2>0, <2>3, <4>1, <5>1
      <4>2. CASE d # c
        <5>1. input'[d] = input[d]  BY <2>0, <4>2 DEF Inv, Types, TypeOK
        <5> QED BY <5>1 DEF Inv, Types, TypeOK
      <4> QED BY <4>1, <4>2
    <3>5. phase' \in [Clients -> Phases]  BY <2>0, <2>1 DEF Phases
    <3> QED BY <2>0, <3>1, <3>2, <3>3, <3>4, <3>5 DEF Inv, Types, TypeOK
  <2>5. CallFits'  BY <2>0, <2>1 DEF CallFits
  <2>6. \A d \in Clients, name \in Names :
          End(d, name) \in ClosedAfter(c) <=>
            d = c /\ name = "input, write end" /\ unsent[c] = 1
        BY EndsApart DEF ClosedAfter, BodyIsSent, InWrite
  <2>7. \A d \in Clients \ {c} : LeftAlone(d)
    <3> TAKE d \in Clients \ {c}
    <3>1. phase'[d] = phase[d] /\ unsent'[d] = unsent[d] /\ input'[d] = input[d]
          BY <2>0 DEF Inv, Types, TypeOK
    <3> QED BY <2>0, <2>2, <2>6, <3>1 DEF LeftAlone
  <2>8. Fits(c)'
    <3>1. BodyFits(c)'
      <4>1. CASE unsent[c] = 1  BY <2>0, <2>1, <2>2, <4>1 DEF Fits, BodyFits
      <4>2. CASE unsent[c] # 1
        <5>1. unsent[c] - 1 > 0  BY <2>1, <4>2
        <5> QED BY <2>0, <2>1, <2>2, <4>2, <5>1 DEF Fits, BodyFits
      <4> QED BY <4>1, <4>2
    <3>2. NothingLost(c)'
      <4> DEFINE g == Len(script[c].got)
      <4> DEFINE i == Len(input[c])
      <4>1. g \in Nat /\ i \in Nat  BY <2>1 DEF Inv, Types, Script
      <4>2. g + i + unsent[c] = script[c].body  BY <2>1 DEF Fits, NothingLost
      <4> HIDE DEF g, i
      <4>3. g + (i + 1) + (unsent[c] - 1) = script[c].body  BY <2>1, <4>1, <4>2
      <4> QED BY <2>0, <2>2, <2>3, <4>3 DEF NothingLost, g, i
    <3>3. EndFits(c)'
      <4>1. ~script[c].sawEnd  BY <2>1 DEF Fits, EndFits
      <4> QED BY <2>0, <4>1 DEF EndFits
    <3>4. HeldFits(c)'
      <4> SUFFICES ASSUME NEW name \in Names
                   PROVE  /\ Keeps(c, name)' => End(c, name) \in holds'[Server]
                          /\ End(c, name) \in holds'[Server] => Keeps(c, name)'
          BY DEF HeldFits
      <4>1. End(c, name) \in holds[Server] <=>
              name \in {"socket", "input, write end", "output, read end"}
            BY <2>1 DEF Fits, HeldFits, Keeps, Left
      <4>2. Keeps(c, name)' <=>
              \/ name \in {"socket", "output, read end"}
              \/ name = "input, write end" /\ unsent[c] # 1
            BY <2>2 DEF Keeps
      <4> QED BY <2>2, <2>6, <4>1, <4>2
    <3> QED BY <3>1, <3>2, <3>3, <3>4 DEF Fits
  <2>9. server' = server /\ server # "down"  BY <2>0, <2>1
  <2> QED BY <2>4, <2>5, <2>7, <2>8, <2>9, OneClient
<1> QED BY <1>1, <1>2

\* The script has ended and its output is read: its pipe is closed.
LEMMA ReceivedInv == ASSUME Inv, NEW c \in Clients, Received(c) PROVE Inv'
<1> USE ServerAssumption, PipeAssumption DEF Received
<1>0. /\ phase[c] = "CGI_Read" /\ server = "running" /\ server' = "running"
      /\ inside' = <<>> /\ Server \in Processes /\ phase'[c] = "Sending"
      /\ holds'[Server] = holds[Server] \ {OutRead(c)}
      /\ unsent' = unsent /\ input' = input
      BY DEF Inv, Types, TypeOK, CallFits, Processes
<1>1. \A d \in Clients \ {c} : phase'[d] = phase[d] /\ script'[d] = script[d]
      BY DEF Inv, Types, TypeOK
<1>2. /\ script'[c].status = "reaped" /\ script'[c].got = script[c].got
      /\ script'[c].sawEnd = script[c].sawEnd /\ script'[c].body = script[c].body
      BY DEF Inv, Types, Script
<1>3. Types'
  <2>1. holds' \in [Processes -> SUBSET Ends]
    <3>1. holds[Server] \ {OutRead(c)} \in SUBSET Ends  BY <1>0 DEF Inv, Types, TypeOK
    <3> QED BY <1>0, <3>1 DEF Inv, Types, TypeOK
  <2>2. phase' \in [Clients -> Phases]  BY DEF Inv, Types, TypeOK, Phases
  <2>3. output' \in [Clients -> 0 .. Capacity]
    <3>1. 0 \in 0 .. Capacity  OBVIOUS
    <3> QED BY <3>1 DEF Inv, Types, TypeOK
  <2>4. script' \in [Clients -> Script]
    <3>1. output[c] \in Nat  BY DEF Inv, Types, TypeOK
    <3> QED BY <3>1 DEF Inv, Types, Script
  <2> QED BY <1>0, <2>1, <2>2, <2>3, <2>4 DEF Inv, Types, TypeOK
<1>4. CallFits'  BY <1>0 DEF CallFits
<1> HIDE DEF Received
<1>5. \A d \in Clients, name \in Names :
        End(d, name) = OutRead(c) <=> d = c /\ name = "output, read end"
      BY EndsApart DEF OutRead
<1>6. \A d \in Clients \ {c} : LeftAlone(d)  BY <1>0, <1>1, <1>5 DEF LeftAlone
<1>7. Fits(c)'
  <2>1. Fits(c)  BY DEF Inv
  <2>2. BodyFits(c)' /\ NothingLost(c)' /\ EndFits(c)'
        BY <1>0, <1>2, <2>1 DEF Fits, BodyFits, NothingLost, EndFits
  <2>3. HeldFits(c)'
    <3> SUFFICES ASSUME NEW name \in Names
                 PROVE  /\ Keeps(c, name)' => End(c, name) \in holds'[Server]
                        /\ End(c, name) \in holds'[Server] => Keeps(c, name)'
        BY DEF HeldFits
    <3>1. End(c, name) \in holds[Server] <=> name \in {"socket", "output, read end"}
          BY <1>0, <2>1 DEF Fits, HeldFits, Keeps, Left
    <3>2. Keeps(c, name)' <=> name = "socket"  BY <1>0 DEF Keeps
    <3> QED BY <1>0, <1>5, <3>1, <3>2
  <2> QED BY <2>2, <2>3 DEF Fits
<1>8. server' = server /\ server # "down"  BY <1>0
<1> QED BY <1>3, <1>4, <1>6, <1>7, <1>8, OneClient

\* A client that is done with takes its connection along.
LEMMA FinishInv == ASSUME Inv, NEW c \in Clients, Finish(c) PROVE Inv'
<1> USE ServerAssumption DEF Finish, Turn
<1>0. /\ phase[c] = "Sending" /\ server = "running" /\ server' = "running"
      /\ inside = <<>> /\ inside' = <<>> /\ Server \in Processes /\ phase'[c] = "Done"
      /\ holds'[Server] = holds[Server] \ {Sock(c)}
      /\ unsent' = unsent /\ input' = input /\ script' = script
      BY DEF Inv, Types, TypeOK, Processes, Destroyed, pipes
<1>1. \A d \in Clients \ {c} : phase'[d] = phase[d]  BY DEF Inv, Types, TypeOK
<1>2. Types'
  <2>1. holds' \in [Processes -> SUBSET Ends]
    <3>1. holds[Server] \ {Sock(c)} \in SUBSET Ends  BY <1>0 DEF Inv, Types, TypeOK
    <3> QED BY <1>0, <3>1 DEF Inv, Types, TypeOK, Destroyed
  <2>2. phase' \in [Clients -> Phases]  BY DEF Inv, Types, TypeOK, Phases
  <2> QED BY <1>0, <2>1, <2>2 DEF Inv, Types, TypeOK, pipes
<1>3. CallFits'  BY <1>0 DEF CallFits
<1> HIDE DEF Finish
<1>4. \A d \in Clients, name \in Names :
        End(d, name) = Sock(c) <=> d = c /\ name = "socket"
      BY EndsApart DEF Sock
<1>5. \A d \in Clients \ {c} : LeftAlone(d)  BY <1>0, <1>1, <1>4 DEF LeftAlone
<1>6. Fits(c)'
  <2>1. Fits(c)  BY DEF Inv
  <2>2. BodyFits(c)' /\ NothingLost(c)' /\ EndFits(c)'
        BY <1>0, <2>1 DEF Fits, BodyFits, NothingLost, EndFits
  <2>3. HeldFits(c)'
    <3> SUFFICES ASSUME NEW name \in Names
                 PROVE  /\ Keeps(c, name)' => End(c, name) \in holds'[Server]
                        /\ End(c, name) \in holds'[Server] => Left(c, name)'
        BY DEF HeldFits
    <3>1. End(c, name) \in holds[Server] => name = "socket" \/ Left(c, name)
          BY <1>0, <2>1 DEF Fits, HeldFits, Keeps
    <3>2. ~Keeps(c, name)'  BY <1>0 DEF Keeps
    <3>3. Left(c, name) => Left(c, name)'  BY <1>0 DEF Left
    <3> QED BY <1>0, <1>4, <3>1, <3>2, <3>3
  <2> QED BY <2>2, <2>3 DEF Fits
<1>7. server' = server /\ server # "down"  BY <1>0
<1> QED BY <1>2, <1>3, <1>5, <1>6, <1>7, OneClient

-----------------------------------------------------------------------------
\* A step of a script leaves the server's part of a client alone.
ScriptsOwn(c) ==
  /\ server' = server /\ inside' = inside /\ phase' = phase /\ unsent' = unsent
  /\ holds'[Server] = holds[Server]
  /\ \A d \in Clients \ {c} : script'[d] = script[d] /\ input'[d] = input[d]
  /\ script'[c].body = script[c].body
  /\ script'[c].status \in Alive /\ script[c].status \in Alive

\* What it may do with the body is left to look at.
LEMMA ScriptsStep ==
  ASSUME Inv, NEW c \in Clients, ScriptsOwn(c), Types', NothingLost(c)', EndFits(c)'
  PROVE  Inv'
<1> USE DEF ScriptsOwn
<1>1. CallFits'  BY DEF Inv, CallFits
<1>2. \A d \in Clients \ {c} : LeftAlone(d)  BY DEF LeftAlone
<1>3. Fits(c)  BY DEF Inv
<1>4. BodyFits(c)'
      BY <1>3 DEF Fits, BodyFits, Alive
<1>5. HeldFits(c)'  BY <1>3 DEF Fits, HeldFits, Keeps, Left
<1>6. server' = server /\ (server = "down" => holds'[Server] = {})  BY DEF Inv
<1> QED BY <1>1, <1>2, <1>4, <1>5, <1>6, OneClient DEF Fits

\* A script that starts running gives up the ends that are the server's.
LEMMA ExecuteInv == ASSUME Inv, NEW c \in Clients, Execute(c) PROVE Inv'
<1> USE ServerAssumption DEF Execute
<1>1. holds' \in [Processes -> SUBSET Ends] /\ holds'[Server] = holds[Server]
      BY DEF Inv, Types, TypeOK, Processes
<1>2. script' \in [Clients -> Script]  BY DEF Inv, Types, Script
<1>3. Types'  BY <1>1, <1>2 DEF Inv, Types, TypeOK, pipes
<1>4. /\ script'[c].got = script[c].got /\ script'[c].body = script[c].body
      /\ script'[c].sawEnd = script[c].sawEnd /\ script'[c].status = "running"
      BY DEF Inv, Types, Script
<1>5. ScriptsOwn(c)
  <2>1. \A d \in Clients \ {c} : script'[d] = script[d]  BY DEF Inv, Types
  <2> QED BY <1>1, <1>4, <2>1 DEF ScriptsOwn, pipes, Alive
<1>6. NothingLost(c)' /\ EndFits(c)'
  <2>1. Fits(c) /\ server' = server /\ unsent' = unsent /\ input' = input
        BY DEF Inv, pipes
  <2> HIDE DEF Execute
  <2> QED BY <1>4, <2>1 DEF Fits, NothingLost, EndFits
<1> QED BY <1>3, <1>5, <1>6, ScriptsStep

\* Taking the first element of a sequence.
LEMMA Taken ==
  ASSUME NEW S, NEW s \in Seq(S), s # <<>>
  PROVE  /\ Tail(s) \in Seq(S) /\ Head(s) \in S /\ Len(s) \in Nat /\ Len(s) > 0
         /\ Len(Tail(s)) = Len(s) - 1
OBVIOUS

\* A script reads one write of its body.
LEMMA ReadsInv == ASSUME Inv, NEW c \in Clients, Reads(c) PROVE Inv'
<1> USE PipeAssumption DEF Reads, MayRead
<1>1. /\ input[c] \in Seq(Parts) /\ input[c] \in Seq(1 .. MaxBody) /\ input[c] # <<>>
      /\ Len(input[c]) <= Capacity /\ script[c] \in Script /\ Fits(c)
      /\ script[c].got \in Seq(Parts) /\ script[c].status = "running"
      BY DEF Inv, Types, TypeOK, Script, About
<1>2. /\ Tail(input[c]) \in Seq(Parts) /\ Tail(input[c]) \in Seq(1 .. MaxBody)
      /\ Head(input[c]) \in Parts /\ Len(input[c]) \in Nat /\ Len(input[c]) > 0
      /\ Len(Tail(input[c])) = Len(input[c]) - 1
  <2> HIDE DEF Reads, MayRead
  <2> QED BY <1>1, Taken
<1>3. /\ Append(script[c].got, Head(input[c])) \in Seq(Parts)
      /\ Len(Append(script[c].got, Head(input[c]))) = Len(script[c].got) + 1
      BY <1>1, <1>2
<1>4. /\ input' = [input EXCEPT ![c] = Tail(input[c])]
      /\ script' = [script EXCEPT ![c].got = Append(script[c].got, Head(input[c]))]
      /\ server' = server /\ inside' = inside /\ phase' = phase /\ unsent' = unsent
      /\ output' = output /\ holds' = holds
      OBVIOUS
<1> HIDE DEF Reads
<1>5. Types'
  <2>1. input' \in [Clients -> Seq(Parts)] /\ input' \in [Clients -> Seq(1 .. MaxBody)]
        BY <1>2, <1>4 DEF Inv, Types, TypeOK
  <2>2. script' \in [Clients -> Script]  BY <1>3, <1>4 DEF Inv, Types, Script
  <2>3. \A d \in Clients : Len(input'[d]) <= Capacity
    <3> TAKE d \in Clients
    <3>1. CASE d = c
      <4>1. Len(input[c]) - 1 <= Capacity  BY <1>1, <1>2
      <4> QED BY <1>2, <1>4, <3>1, <4>1 DEF Inv, Types, TypeOK
    <3>2. CASE d # c  BY <1>4, <3>2 DEF Inv, Types, TypeOK
    <3> QED BY <3>1, <3>2
  <2> QED BY <1>4, <2>1, <2>2, <2>3 DEF Inv, Types, TypeOK
<1>6. /\ script'[c].body = script[c].body /\ script'[c].sawEnd = script[c].sawEnd
      /\ script'[c].got = Append(script[c].got, Head(input[c]))
      /\ script'[c].status = script[c].status
      /\ input'[c] = Tail(input[c])
      BY <1>4 DEF Inv, Types, TypeOK, Script
<1>7. ScriptsOwn(c)
  <2>1. \A d \in Clients \ {c} : script'[d] = script[d] /\ input'[d] = input[d]
        BY <1>4 DEF Inv, Types, TypeOK
  <2> QED BY <1>1, <1>4, <1>6, <2>1 DEF ScriptsOwn, Alive
<1>8. NothingLost(c)'
  <2> DEFINE g == Len(script[c].got)
  <2> DEFINE i == Len(input[c])
  <2>1. g \in Nat /\ i \in Nat /\ unsent[c] \in Nat  BY <1>1 DEF Inv, Types, TypeOK
  <2>2. g + i + unsent[c] = script[c].body  BY <1>1 DEF Fits, NothingLost
  <2> HIDE DEF g, i
  <2>3. (g + 1) + (i - 1) + unsent[c] = script[c].body  BY <2>1, <2>2
  <2> QED BY <1>2, <1>3, <1>4, <1>6, <2>3 DEF NothingLost, g, i
<1>9. EndFits(c)'  BY <1>1, <1>4, <1>6 DEF Fits, EndFits
<1> QED BY <1>5, <1>7, <1>8, <1>9, ScriptsStep

\* A script sees the end of its input only after the server has closed it, and so
\* after all of the body was written.
LEMMA SeesEndInv == ASSUME Inv, NEW c \in Clients, SeesEnd(c) PROVE Inv'
<1> USE DEF SeesEnd, MaySeeEnd
<1>1. script' \in [Clients -> Script] /\ script[c].status = "running"
  <2>1. script[c] \in Script /\ script[c].todo # <<>> /\ script[c].status = "running"
        BY DEF Inv, Types, About
  <2>2. Tail(script[c].todo) \in Seq(Calls)  BY <2>1 DEF Script
  <2> QED BY <2>1, <2>2 DEF Inv, Types, Script
<1>2. Types'  BY <1>1 DEF Inv, Types, TypeOK, pipes
<1>3. /\ script'[c].status = script[c].status
      /\ script'[c].got = script[c].got /\ script'[c].body = script[c].body
      BY DEF Inv, Types, Script
<1>4. ScriptsOwn(c)
  <2>1. \A d \in Clients \ {c} : script'[d] = script[d]  BY DEF Inv, Types
  <2> QED BY <1>1, <1>3, <2>1 DEF ScriptsOwn, pipes, Alive
<1>5. NothingLost(c)'
  <2>1. Fits(c) /\ unsent' = unsent /\ input' = input  BY DEF Inv, pipes
  <2> HIDE DEF SeesEnd
  <2> QED BY <1>3, <2>1 DEF Fits, NothingLost
<1>6. EndFits(c)'
  <2>1. server = "running" => unsent[c] = 0
    <3> SUFFICES ASSUME server = "running" PROVE unsent[c] = 0
        OBVIOUS
    <3>1. InWrite(c) \notin holds[Server] /\ Fits(c) /\ phase[c] \in Phases
          BY DEF Inv, Types, TypeOK, Open, Processes
    <3>2. phase[c] # "CGI_Write"
          BY <3>1 DEF Fits, HeldFits, Keeps, InWrite, Names
    <3> QED BY <1>1, <3>1, <3>2 DEF Fits, BodyFits, Phases
  <2>2. input[c] = <<>>  OBVIOUS
  <2>3. server' = server /\ unsent' = unsent /\ input' = input  BY DEF pipes
  <2> HIDE DEF SeesEnd
  <2> QED BY <2>1, <2>2, <2>3 DEF EndFits
<1> QED BY <1>2, <1>4, <1>5, <1>6, ScriptsStep

\* A script writes.
LEMMA WritesInv == ASSUME Inv, NEW c \in Clients, Writes(c) PROVE Inv'
<1> USE PipeAssumption DEF Writes, MayWrite
<1>1. script' \in [Clients -> Script] /\ script[c].status = "running"
  <2>1. script[c] \in Script /\ script[c].todo # <<>> /\ script[c].status = "running"
        BY DEF Inv, Types, About
  <2>2. Tail(script[c].todo) \in Seq(Calls) /\ script[c].made + 1 \in Nat
        BY <2>1 DEF Script
  <2> QED BY <2>1, <2>2 DEF Inv, Types, Script
<1>2. Types'
  <2>1. output[c] + 1 \in 0 .. Capacity  BY DEF Inv, Types, TypeOK
  <2> QED BY <1>1, <2>1 DEF Inv, Types, TypeOK
<1>3. /\ script'[c].status = script[c].status /\ script'[c].sawEnd = script[c].sawEnd
      /\ script'[c].got = script[c].got /\ script'[c].body = script[c].body
      BY DEF Inv, Types, Script
<1>4. ScriptsOwn(c)
  <2>1. \A d \in Clients \ {c} : script'[d] = script[d]  BY DEF Inv, Types
  <2> QED BY <1>1, <1>3, <2>1 DEF ScriptsOwn, Alive
<1>5. NothingLost(c)' /\ EndFits(c)'
  <2>1. Fits(c) /\ server' = server /\ unsent' = unsent /\ input' = input  BY DEF Inv
  <2> HIDE DEF Writes
  <2> QED BY <1>3, <2>1 DEF Fits, NothingLost, EndFits
<1> QED BY <1>2, <1>4, <1>5, ScriptsStep

\* A script ends, and all it had open is closed; nothing the server has is.
LEMMA ExitsInv == ASSUME Inv, NEW c \in Clients, Exits(c) PROVE Inv'
<1> USE ServerAssumption DEF Exits, MayExit
<1>1. holds' \in [Processes -> SUBSET Ends] /\ holds'[Server] = holds[Server]
      BY DEF Inv, Types, TypeOK, Processes
<1>2. script' \in [Clients -> Script]  BY DEF Inv, Types, Script
<1>3. Types'  BY <1>1, <1>2 DEF Inv, Types, TypeOK, pipes
<1>4. /\ script'[c].got = script[c].got /\ script'[c].body = script[c].body
      /\ script'[c].sawEnd = script[c].sawEnd /\ script'[c].status = "ended"
      BY DEF Inv, Types, Script
<1>5. ScriptsOwn(c)
  <2>1. \A d \in Clients \ {c} : script'[d] = script[d]  BY DEF Inv, Types
  <2> QED BY <1>1, <1>4, <2>1 DEF ScriptsOwn, pipes, Alive, About
<1>6. NothingLost(c)' /\ EndFits(c)'
  <2>1. Fits(c) /\ server' = server /\ unsent' = unsent /\ input' = input
        BY DEF Inv, pipes
  <2> HIDE DEF Exits
  <2> QED BY <1>4, <2>1 DEF Fits, NothingLost, EndFits
<1> QED BY <1>3, <1>5, <1>6, ScriptsStep

-----------------------------------------------------------------------------
\* Every step keeps the invariant.
LEMMA NextInv == Inv /\ [Next]_vars => Inv'
<1> SUFFICES ASSUME Inv, [Next]_vars PROVE Inv'
    OBVIOUS
<1>1. ASSUME NEW c \in Clients, Start(c)       PROVE Inv'  BY <1>1, StartInv
<1>2. ASSUME NEW c \in Clients, Execute(c)     PROVE Inv'  BY <1>2, ExecuteInv
<1>3. ASSUME NEW c \in Clients, Send(c)        PROVE Inv'  BY <1>3, CallsInv
<1>4. ASSUME NEW c \in Clients, Written(c)     PROVE Inv'  BY <1>4, WrittenInv
<1>5. ASSUME NEW c \in Clients, Receive(c)     PROVE Inv'  BY <1>5, CallsInv
<1>6. ASSUME NEW c \in Clients, Received(c)    PROVE Inv'  BY <1>6, ReceivedInv
<1>7. ASSUME NEW c \in Clients, Mismatched(c)  PROVE Inv'
      BY <1>7, DownInv DEF Mismatched
<1>8. ASSUME NEW c \in Clients, Finish(c)      PROVE Inv'  BY <1>8, FinishInv
<1>9. ASSUME NEW c \in Clients, Reads(c)       PROVE Inv'  BY <1>9, ReadsInv
<1>10. ASSUME NEW c \in Clients, SeesEnd(c)    PROVE Inv'  BY <1>10, SeesEndInv
<1>11. ASSUME NEW c \in Clients, Writes(c)     PROVE Inv'  BY <1>11, WritesInv
<1>12. ASSUME NEW c \in Clients, Exits(c)      PROVE Inv'  BY <1>12, ExitsInv
<1>13. ASSUME NEW c \in Clients, Accept(c)     PROVE Inv'  BY <1>13, AcceptInv
<1>14. ASSUME NEW c \in Clients, Ask(c)        PROVE Inv'  BY <1>14, AskInv
<1>15. CASE Timeout  BY <1>15, TimeoutInv
<1>16. CASE UNCHANGED vars
  <2> USE <1>16 DEF vars, pipes
  <2>1. Types' /\ CallFits'  BY DEF Inv, Types, TypeOK, CallFits
  <2>2. ASSUME NEW c \in Clients PROVE Fits(c)'
        BY DEF Inv, Fits, BodyFits, HeldFits, Keeps, Left, NothingLost, EndFits
  <2> QED BY <2>1, <2>2 DEF Inv
<1> QED
  BY <1>1, <1>2, <1>3, <1>4, <1>5, <1>6, <1>7, <1>8, <1>9, <1>10, <1>11, <1>12, <1>13,
     <1>14, <1>15, <1>16
  DEF Next, Asked, Serve, Run

\* The invariant holds throughout: what the server has open, what is left of every
\* body, where the server is and which scripts there are agree with the state of each
\* client, whatever scripts do and whenever a timeout comes.
THEOREM Agreement == Spec => []Inv
<1> QED BY InitInv, NextInv, PTL DEF Spec

\* CGI::start, send and receive keep every variable in its type; no write is made
\* of a body that is through.
THEOREM PipesTypeCorrect == Spec => []TypeOK
<1>1. Inv => TypeOK  BY DEF Inv, Types
<1> QED BY <1>1, Agreement, PTL

\* A script that sees the end of its input has been given as much as the body is long
\* (send() closes the pipe with the last write, and nothing else does while the
\* server runs), and a body of one write as it was.  No more is so: send() writes the
\* first part of a longer body again and again.
THEOREM BodiesGiven == Spec => []BodyGiven
<1>1. Inv => BodyGiven
  <2> SUFFICES ASSUME Inv, NEW c \in Clients, script[c].sawEnd, server = "running"
               PROVE  /\ Len(script[c].got) = script[c].body
                      /\ script[c].body <= 1 =>
                           \A i \in 1 .. script[c].body : script[c].got[i] = i
      BY DEF BodyGiven
  <2>1. Fits(c) /\ script[c] \in Script  BY DEF Inv, Types
  <2>2. /\ unsent[c] = 0 /\ Len(input[c]) = 0 /\ script[c].got \in Seq(Parts)
        /\ Len(script[c].got) \in Nat /\ script[c].body \in Int
        BY <2>1, PipeAssumption DEF Fits, EndFits, Script
  <2>3. Len(script[c].got) = script[c].body  BY <2>1, <2>2 DEF Fits, NothingLost
  <2>4. ASSUME script[c].body <= 1, NEW i \in 1 .. script[c].body
        PROVE  script[c].got[i] = i
    <3>1. i = 1 /\ i \in 1 .. Len(script[c].got)  BY <2>2, <2>3, <2>4
    <3>2. script[c].got[i] \in Parts  BY <2>2, <3>1
    <3> QED BY <3>1, <3>2 DEF Parts, Part
  <2> QED BY <2>3, <2>4
<1> QED BY <1>1, Agreement, PTL

\* The server closes every end of a pipe it opened for a client, and the connection,
\* by the time it is done with it; but a client that timed out before its script
\* was waited for leaves the end its output is read from.
THEOREM TimeoutsLeave == Spec => []OnlyTimeoutsLeak
<1>1. Inv => OnlyTimeoutsLeak
  <2> SUFFICES ASSUME Inv, NEW c \in Clients, phase[c] = "Done",
                      NEW end \in holds[Server], end.of = c
               PROVE  end = OutRead(c) /\ script[c].status \in Alive
      BY DEF OnlyTimeoutsLeak, Alive
  <2>1. end \in Ends  BY DEF Inv, Types, TypeOK, Processes
  <2>2. PICK d \in Clients, name \in Names : end = End(d, name)  BY <2>1, EndsNamed
  <2>3. d = c  BY <2>2 DEF End
  <2>4. server = "running" /\ Fits(c)  BY DEF Inv, Types, TypeOK
  <2>5. Left(c, name)  BY <2>2, <2>3, <2>4 DEF Fits, HeldFits, Keeps
  <2> QED BY <2>2, <2>3, <2>5 DEF Left, OutRead
<1> QED BY <1>1, Agreement, PTL

-----------------------------------------------------------------------------
(* Nobody waits for one who waits for him. *)

\* Once a script runs it has not got the end of its own input.
ScriptFits ==
  \A c \in Clients : script[c].status = "running" => InWrite(c) \notin holds[c]

\* The server's steps start a script, or leave those that run and what they hold.
LEMMA ServeScripts ==
  ASSUME Inv, ScriptFits, Asked \/ Serve
  PROVE  ScriptFits'
<1> SUFFICES ASSUME NEW d \in Clients, script'[d].status = "running"
             PROVE  InWrite(d) \notin holds'[d]
    BY DEF ScriptFits
<1>1. d # Server /\ d \in Processes /\ Server \in Processes  BY ServerAssumption DEF Processes
<1>2. script[d].status = "running" => InWrite(d) \notin holds[d]  BY DEF ScriptFits
<1>3. holds \in [Processes -> SUBSET Ends] /\ script \in [Clients -> Script]
      BY DEF Inv, Types, TypeOK
<1>4. ASSUME NEW c \in Clients, Start(c) PROVE InWrite(d) \notin holds'[d]
  <2>1. CASE d = c  BY <1>3, <1>4, <2>1 DEF Start, Script
  <2>2. CASE d # c  BY <1>1, <1>2, <1>3, <1>4, <2>2 DEF Start
  <2> QED BY <2>1, <2>2
<1>5. ASSUME NEW c \in Clients, Received(c) PROVE InWrite(d) \notin holds'[d]
  <2>1. CASE d = c  BY <1>3, <1>5, <2>1 DEF Received, Script
  <2>2. CASE d # c  BY <1>1, <1>2, <1>3, <1>5, <2>2 DEF Received
  <2> QED BY <2>1, <2>2
<1>6. CASE script' = script /\ holds'[d] = holds[d]  BY <1>2, <1>6
<1>7. ASSUME Down PROVE script' = script /\ holds'[d] = holds[d]
      BY <1>1, <1>3, <1>7 DEF Down
<1>8. ASSUME NEW c \in Clients,
             \/ Send(c) \/ Written(c) \/ Receive(c) \/ Mismatched(c) \/ Finish(c)
             \/ Accept(c) \/ Ask(c)
      PROVE  script' = script /\ holds'[d] = holds[d]
  <2>1. CASE Send(c) \/ Receive(c) \/ Ask(c)  BY <2>1 DEF Send, Receive, Ask
  <2>2. CASE Written(c)  BY <1>1, <1>3, <1>7, <2>2 DEF Written
  <2>3. CASE Finish(c) \/ Accept(c)  BY <1>1, <1>3, <2>3 DEF Finish, Accept
  <2>4. CASE Mismatched(c)  BY <1>7, <2>4 DEF Mismatched
  <2> QED BY <1>8, <2>1, <2>2, <2>3, <2>4
<1>9. ASSUME Timeout PROVE script' = script /\ holds'[d] = holds[d]  BY <1>9 DEF Timeout
<1> QED BY <1>4, <1>5, <1>6, <1>8, <1>9 DEF Asked, Serve

\* The scripts' own steps.
LEMMA RunScripts ==
  ASSUME Inv, ScriptFits, NEW c \in Clients, Run(c)
  PROVE  ScriptFits'
<1>1. /\ holds \in [Processes -> SUBSET Ends] /\ script \in [Clients -> Script]
      /\ c \in Processes
      BY DEF Inv, Types, TypeOK, Processes
<1>2. script'[c].status = "running" => InWrite(c) \notin holds'[c]
  <2>1. CASE Execute(c)  BY <1>1, <2>1 DEF Execute, Script
  <2>2. CASE Reads(c) \/ SeesEnd(c) \/ Writes(c)
    <3>1. script[c].status = "running" /\ holds' = holds
          BY <2>2 DEF Reads, MayRead, SeesEnd, MaySeeEnd, Writes, MayWrite, About
    <3> QED BY <3>1 DEF ScriptFits
  <2>3. CASE Exits(c)  BY <1>1, <2>3 DEF Exits, Script
  <2> QED BY <2>1, <2>2, <2>3 DEF Run
<1>3. \A d \in Clients \ {c} : script'[d] = script[d] /\ holds'[d] = holds[d]
      BY <1>1 DEF Run, Execute, Reads, SeesEnd, Writes, Exits, Processes
<1> QED BY <1>2, <1>3 DEF ScriptFits

\* No script that runs holds its own input open, ever.
LEMMA ScriptsAlways == Spec => []ScriptFits
<1>1. Init => ScriptFits  BY DEF Init, ScriptFits
<1>2. Inv /\ ScriptFits /\ [Next]_vars => ScriptFits'
  <2> SUFFICES ASSUME Inv, ScriptFits, [Next]_vars PROVE ScriptFits'
      OBVIOUS
  <2>1. CASE Asked \/ Serve  BY <2>1, ServeScripts
  <2>2. CASE \E c \in Clients : Run(c)  BY <2>2, RunScripts
  <2>3. CASE UNCHANGED vars  BY <2>3 DEF vars, ScriptFits
  <2> QED BY <2>1, <2>2, <2>3 DEF Next
<1> QED BY <1>1, <1>2, Agreement, PTL DEF Spec

\* CGI::receive never waits in waitpid() for a script that waits for the server:
\* either the script has ended, or it can go on by itself, or its output fills
\* its pipe, or another script holds the end of its input.
THEOREM WaitsAreOneSided == Spec => []NoMutualWait
<1>1. Inv /\ ScriptFits => NoMutualWait
  <2> SUFFICES ASSUME Inv, ScriptFits, NEW c \in Clients, inside = <<"waitpid", c>>,
                      script[c].status # "ended", ~Overflows(c), ~KeptOpen(c)
               PROVE  CanRun(c)
      BY DEF NoMutualWait, Culprit
  <2>1. /\ phase[c] = "CGI_Read" /\ server = "running" /\ Server \in Processes
        /\ Fits(c)
        BY DEF Inv, CallFits, Types, TypeOK, Processes
  <2>2. script[c].status \in {"forked", "running"}  BY <2>1 DEF Fits, BodyFits, Alive
  <2>3. script[c] \in Script /\ output[c] \in 0 .. Capacity
        BY DEF Inv, Types, TypeOK
  <2>4. CASE script[c].status = "forked"  BY <2>4 DEF CanRun
  <2>5. CASE script[c].status = "running" /\ script[c].todo = <<>>
        BY <2>5 DEF CanRun, MayExit
  <2>6. CASE script[c].status = "running" /\ script[c].todo # <<>>
    <3>1. Head(script[c].todo) \in Calls  BY <2>3, <2>6 DEF Script
    <3>2. CASE About(c, "read")
      <4>1. ASSUME NEW p \in Processes, InWrite(c) \in holds[p] PROVE FALSE
        <5>1. CASE p = Server
              BY <2>1, <4>1, <5>1 DEF Fits, HeldFits, Keeps, Left, InWrite, Names
        <5>2. CASE p = c  BY <2>6, <4>1, <5>2 DEF ScriptFits
        <5>3. CASE p \in Clients \ {c}  BY <4>1, <5>3 DEF KeptOpen
        <5> QED BY <5>1, <5>2, <5>3 DEF Processes
      <4> QED BY <3>2, <4>1 DEF CanRun, MayRead, MaySeeEnd, Open
    <3>3. CASE About(c, "write")
      <4>1. OutRead(c) \in holds[Server]
            BY <2>1 DEF Fits, HeldFits, Keeps, OutRead, Names
      <4>2. output[c] < Capacity  BY <2>3, <3>3, PipeAssumption DEF Overflows
      <4> QED BY <2>1, <3>3, <4>1, <4>2 DEF CanRun, MayWrite, Open
    <3> QED BY <2>6, <3>1, <3>2, <3>3 DEF About, Calls
  <2> QED BY <2>2, <2>4, <2>5, <2>6
<1> QED BY <1>1, Agreement, ScriptsAlways, PTL
=============================================================================
