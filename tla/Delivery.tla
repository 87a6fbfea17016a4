------------------------------ MODULE Delivery ------------------------------
(***************************************************************************)
(* What the server promises about static requests, as their peers see it:  *)
(* a connection that waits is accepted, what is sent over it grows to one  *)
(* whole answer, and the step that completes the answer closes it.  How    *)
(* requests arrive, what else the server does, and when, is left open.     *)
(***************************************************************************)
CONSTANT Conns

VARIABLES
  phase,  \* of each connection
  sent    \* what has been sent over it: "nothing", a "part" of an answer, the "whole"

vars == <<phase, sent>>

Moves(c, from, to) == phase[c] = from /\ phase' = [phase EXCEPT ![c] = to]

Connect(c) == Moves(c, "idle", "pending") /\ UNCHANGED sent

Accept(c) == Moves(c, "pending", "open") /\ UNCHANGED sent

\* Part of an answer is sent.
Write(c) ==
  /\ phase[c] = "open"
  /\ sent' = [sent EXCEPT ![c] = "part"]
  /\ UNCHANGED phase

\* The rest of the answer is sent, and the connection closed.
Answer(c) == Moves(c, "open", "closed") /\ sent' = [sent EXCEPT ![c] = "whole"]

Init ==
  /\ phase = [c \in Conns |-> "idle"]
  /\ sent = [c \in Conns |-> "nothing"]

Next == \E c \in Conns : Connect(c) \/ Accept(c) \/ Write(c) \/ Answer(c)

Spec == Init /\ [][Next]_vars
=============================================================================
