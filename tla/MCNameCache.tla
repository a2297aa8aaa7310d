---------------------------- MODULE MCNameCache ----------------------------
(* Two classes of the program, java.lang.Class and java.lang.String, an    *)
(* object of the class A, a string, and one method of A.                   *)
EXTENDS NameCache, TLC

MCObjects == {"A", "B", "Class", "String", "a", "str"}
MCClasses == {"A", "B", "Class", "String"}
MCClassOf ==
  [o \in MCObjects |-> IF o \in MCClasses THEN "Class" ELSE IF o = "a" THEN "A" ELSE "String"]
MCNameOf == ("A" :> "p/A") @@ ("B" :> "p/B") @@ ("Class" :> "lang/Class") @@ ("String" :> "lang/String")
MCTextOf == ("str" :> "p/B")
MCTexts  == {"p/A", "p/B", "lang/Class", "lang/String", "run", "(L)V", "noise"}
MCIdName == ("m" :> "run")
MCIdSig  == ("m" :> "(L)V")
MCDecl   == ("m" :> "A")
MCOwner  == [r \in {"r1", "r2"} |-> "t1"]

(* A thread has an object and the program a class it holds on to; in the   *)
(* second case also a reference to the class from before the trace.        *)
MCBuf(x) == ("bn" :> "run") @@ ("bs" :> "(L)V") @@ ("bc" :> x)
MCSlot(x) == ("r1" :> "a") @@ ("r2" :> x) @@ ("g" :> "A")
MCStarts == {[slot |-> MCSlot(None), buf |-> MCBuf("p/A")], [slot |-> MCSlot("A"), buf |-> MCBuf("p/B")]}
=============================================================================
