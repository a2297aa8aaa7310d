----------------------------- MODULE MCEnvProbe -----------------------------
(* A table of four slots in dumps of six words: behind it is the beginning *)
(* of another table.  `this' points to words that pass for a table, the    *)
(* peer to words that do not.                                              *)
EXTENDS EnvProbe, TLC

CONSTANTS t1, t2, t3, p1, p2

MCPidOf == (t1 :> p1) @@ (t2 :> p1) @@ (t3 :> p2)

Dumped(s) == [i \in 0..5 |-> s[i + 1]]

MCWords ==
  [env  |-> Dumped(<<0, 21, 22, 23, 24, 25>>),
   this |-> Dumped(<<0, 22, 24, 25, 21, 0>>),
   peer |-> Dumped(<<5, 21, 5, 5, 5, 5>>)]

MCLnlArgs == {<<"this", "env">>}
MCCntArgs == {<<"env", "peer">>, <<"env", "null">>}

(* Half of the words are still there, or too few.                          *)
MCLosses == {{}, {2}, {1, 2, 3}}
=============================================================================
