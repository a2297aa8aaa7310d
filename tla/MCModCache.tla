----------------------------- MODULE MCModCache -----------------------------
(* Two addresses; a library is loaded at one of them from the start.       *)
EXTENDS ModCache

MCStart == [a \in {1, 2} |-> IF a = 1 THEN "lib" ELSE NoModule]
=============================================================================
