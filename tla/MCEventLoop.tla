---------------------------- MODULE MCEventLoop ----------------------------
(***************************************************************************)
(* Instances of EventLoop small enough for TLC.                            *)
(***************************************************************************)
EXTENDS EventLoop, TLC

\* Which descriptor number is next: any free one (the files the server opens
\* and closes in between are not modelled, and take numbers too), or the lowest.
AnyOf(S) == S

LowestOf(S) == {f \in S : \A g \in S : f <= g}

\* Connections are interchangeable; so are the descriptor numbers memory may
\* hold by chance, and all the others but the listener's.
Symmetry ==
  Permutations(Conns) \cup Permutations(Residue)
    \cup Permutations(Fds \ ({ListenFd} \cup Residue))

\* Where numbers matter, only the connections are.
ConnSymmetry == Permutations(Conns)
=============================================================================
