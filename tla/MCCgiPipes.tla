----------------------------- MODULE MCCgiPipes -----------------------------
(***************************************************************************)
(* An instance of CgiPipes for TLC.                                        *)
(***************************************************************************)
EXTENDS CgiPipes

\* Scripts that read before, after or between what they write, or not at all,
\* and one that writes more than a pipe of one holds.
Usual ==
  {<<>>, <<"write">>, <<"read", "write">>, <<"write", "read">>,
   <<"write", "read", "write">>}
=============================================================================
