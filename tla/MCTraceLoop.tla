---------------------------- MODULE MCTraceLoop ----------------------------
(* Three slots stand for the cases that the loop tells apart: a call that  *)
(* returns nothing, a call that returns an object, and a function whose    *)
(* return is always captured.                                              *)
EXTENDS TraceLoop, TLC

MCSlots == {"CallVoidMethod", "CallObjectMethod", "GetMethodID"}

MCCat ==
  [s \in MCSlots |-> IF s = "GetMethodID" THEN "other" ELSE "call"]

MCOneCat == [s \in MCSlots |-> "call"]

MCCallWords == [s \in MCSlots |-> IF s = "CallObjectMethod" THEN {"w"} ELSE {}]
MCRetWords  == [s \in MCSlots |-> IF s = "GetMethodID" THEN {"w"} ELSE {}]

Everything ==
  [modes |-> {"all"}, only |-> {}, exclude |-> {}, from |-> {}, grep |-> None, re |-> {}]

MCFilters ==
  {[Everything EXCEPT !.modes = {"call"}],
   [Everything EXCEPT !.re = {{<<"GetMethodID", "name">>, <<"CallObjectMethod", "call">>}}],
   [Everything EXCEPT !.grep = "w"]}

NoFilters == {Everything}

Symmetry == Permutations(Threads)

(* No item, an item that no name contains, an item or two that names contain. *)
MCSlotLists   == {{}, {{}}, {{"CallObjectMethod"}}, {{"CallVoidMethod"}, {"GetMethodID"}}}
MCModuleLists == {{}, {{}}, {{"so"}}}
=============================================================================
