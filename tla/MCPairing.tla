----------------------------- MODULE MCPairing -----------------------------
(* Instances of Pairing for TLC.  Threads are interchangeable.             *)
EXTENDS PairingRefines, TLC

Symmetry == Permutations(Threads)
=============================================================================
