---------------------------- MODULE MCArgDecode ----------------------------
(* Signatures for ArgDecode: every sequence of up to MaxParams parameters. *)
EXTENDS ArgDecode

CONSTANT MaxParams

MCParams == UNION {[1..n -> {"I", "F"}] : n \in 0..MaxParams}

(* Nothing is lost, or one of these reads.                                 *)
MCLosses == {{}, {VaList}, {<<"x", 3>>}, {<<"stack", 1>>}, {<<"jvalue", 0>>}}
=============================================================================
