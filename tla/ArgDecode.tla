----------------------------- MODULE ArgDecode -----------------------------
(***************************************************************************)
(* The arguments of a Call<Type>Method* or NewObject* call: where the      *)
(* AArch64 calling convention puts them, what `capture' (bpf/recon.bpf.c)  *)
(* snapshots of them when the call enters, and what decodeA, decodeV and   *)
(* decodeDirect (loader/decode.go) later show for each parameter of the    *)
(* signature.                                                              *)
(*                                                                         *)
(* Sizes are counted in words of 8 bytes.  A word that holds the j-th      *)
(* argument is the number j; Zero is a word of a failed read, Junk any     *)
(* other word, and Unknown the "?" shown instead of a word.  A parameter   *)
(* is "I" (integers, booleans, references: the general registers) or "F"   *)
(* (float, double: the vector registers).                                  *)
(***************************************************************************)
EXTENDS Integers, Sequences, FiniteSets

CONSTANTS
  Variants,  \* of "A" (jvalue array), "V" (va_list) and "C" (variadic)
  Params,    \* the signatures: sequences of "I" and "F"
  Named,     \* how many general registers hold named arguments: of the variadic
             \* JNI function, or of the function that made the va_list
  NGR, NVR,  \* argument registers of each class (8 and 8)
  NARGS,     \* registers that up_all reads (5)
  NCAP,      \* words in each snapshot (16)
  GBack,     \* words before gr_top where the snapshot of the save area begins (16)
  Losses     \* sets of locations whose read by the BPF program fails

(* up_all reads argument registers only, and the save area is in its       *)
(* snapshot.                                                               *)
ASSUME ArgAssumption ==
  /\ Variants \subseteq {"A", "V", "C"}
  /\ Params \subseteq Seq({"I", "F"})
  /\ NGR \in Nat /\ NVR \in Nat /\ NARGS \in 0..NGR
  /\ NCAP \in Nat /\ GBack \in Nat /\ NGR <= GBack /\ GBack <= NCAP /\ NCAP >= 2
  /\ Named \subseteq 0..NGR

VARIABLES
  variant, params, named, lost, \* the call, which does not change
  phase,   \* "entry", "decode" or "done"
  cap, cap2, ncap,              \* the snapshots in the event
  vgr, vgoff,                   \* whether e->vgr is not 0; e->vgoff
  grOffs, stack,                \* local to decodeV
  out                           \* what has been decoded so far

callVars  == <<variant, params, named, lost>>
eventVars == <<cap, cap2, ncap, vgr, vgoff>>
vars      == <<callVars, phase, eventVars, grOffs, stack, out>>

Zero    == 0
Junk    == -1
Unknown == -2
VaList  == <<"va_list", 0>>

-----------------------------------------------------------------------------
(* The calling convention.  NG and NF count the arguments of each class    *)
(* before the j-th; those that find no register free share the stack.      *)
NG(j) == Cardinality({k \in 1..(j - 1) : params[k] = "I"})
NF(j) == Cardinality({k \in 1..(j - 1) : params[k] = "F"})

Over(a, b) == IF a > b THEN a - b ELSE 0

NS(j) == Over(named + NG(j), NGR) + Over(NF(j), NVR)

Loc(j) ==
  IF variant = "A" THEN <<"jvalue", j - 1>>
  ELSE IF params[j] = "I"
    THEN IF named + NG(j) < NGR THEN <<"x", named + NG(j)>> ELSE <<"stack", NS(j)>>
    ELSE IF NF(j) < NVR THEN <<"v", NF(j)>> ELSE <<"stack", NS(j)>>

Args == 1..Len(params)

WordAt(l) ==
  IF \E j \in Args : Loc(j) = l THEN CHOOSE j \in Args : Loc(j) = l ELSE Junk

(* bpf_probe_read_user, which leaves 0 when it fails.                      *)
Read(l) == IF l \in lost THEN Zero ELSE WordAt(l)

-----------------------------------------------------------------------------
Index == 0..(NCAP - 1)
Word  == {Zero, Junk} \cup Nat

(* The register cursor never leaves the save area, and with it its         *)
(* snapshot; the stack cursor has passed no more words than parameters     *)
(* were shown (that it may leave its snapshot is what decodeV tests for),  *)
(* and no more is shown than the signature has.                            *)
TypeOK ==
  /\ variant \in Variants /\ params \in Params /\ named \in Named /\ lost \in Losses
  /\ variant = "C" => named < NARGS
  /\ phase \in {"entry", "decode", "done"}
  /\ cap \in [Index -> Word] /\ cap2 \in [Index -> Word]
  /\ ncap \in 0..NCAP
  /\ vgr \in BOOLEAN /\ vgoff \in (0 - NGR)..0
  /\ grOffs \in (0 - NGR)..0 /\ stack \in 0..Len(out)
  /\ out \in Seq(Word \cup {Unknown}) /\ Len(out) <= Len(params)

(* up_all tests `*ix < NARGS' before it captures.                          *)
Init ==
  /\ variant \in Variants /\ params \in Params /\ named \in Named /\ lost \in Losses
  /\ variant = "C" => named < NARGS
  /\ phase = "entry"
  /\ cap = [i \in Index |-> Junk] /\ cap2 = [i \in Index |-> Junk] /\ ncap = 0
  /\ vgr = FALSE /\ vgoff = 0 /\ grOffs = 0 /\ stack = 0
  /\ out = << >>

(* k == 1: a jvalue array.                                                 *)
CaptureA ==
  /\ phase = "entry" /\ variant = "A"
  /\ cap' = [i \in Index |-> Read(<<"jvalue", i>>)]
  /\ ncap' = NCAP
  /\ phase' = "decode"
  /\ UNCHANGED <<callVars, cap2, vgr, vgoff, grOffs, stack, out>>

(* k == 2: the fields of the va_list, the words that end NCAP - GBack      *)
(* behind gr_top, and the words from its stack pointer on.  Of the save    *)
(* area only the registers behind the named ones are set.  When the        *)
(* va_list itself cannot be read all of it is 0, and nothing can be read   *)
(* at such an address either.  decodeV starts from these fields.           *)
CaptureV ==
  LET reg(i) == NGR - GBack + i IN
  /\ phase = "entry" /\ variant = "V"
  /\ IF VaList \in lost
       THEN /\ vgr' = FALSE /\ vgoff' = 0
            /\ cap' = [i \in Index |-> Zero] /\ cap2' = [i \in Index |-> Zero]
       ELSE /\ vgr' = TRUE /\ vgoff' = named - NGR
            /\ cap' = [i \in Index |-> Read(<<"x", reg(i)>>)]
            /\ cap2' = [i \in Index |-> Read(<<"stack", i>>)]
  /\ ncap' = NCAP
  /\ grOffs' = vgoff' /\ stack' = 0
  /\ phase' = "decode"
  /\ UNCHANGED <<callVars, out>>

(* k == 3: variadic C, of which two registers at most are kept.            *)
CaptureC ==
  /\ phase = "entry" /\ variant = "C"
  /\ ncap' = NARGS - named
  /\ cap' = [cap EXCEPT ![0] = WordAt(<<"x", named>>),
                        ![1] = IF named + 1 < NARGS THEN WordAt(<<"x", named + 1>>) ELSE Zero]
  /\ phase' = "decode"
  /\ UNCHANGED <<callVars, cap2, vgr, vgoff, grOffs, stack, out>>

-----------------------------------------------------------------------------
(* One iteration over params: the loops count parameters from 0.           *)
Here == Len(out) + 1
i0   == Len(out)

Show(w) == out' = Append(out, w)

Decoding(v) == phase = "decode" /\ variant = v /\ Here \in Args

(* A mutant: the loop runs past the parameters.                            *)
decodeAPast ==
  /\ phase = "decode" /\ variant = "A"
  /\ Show(IF i0 >= NCAP THEN Unknown ELSE cap[i0])
  /\ UNCHANGED <<callVars, phase, eventVars, grOffs, stack>>

decodeA ==
  /\ Decoding("A")
  /\ Show(IF i0 >= NCAP THEN Unknown ELSE cap[i0])
  /\ UNCHANGED <<callVars, phase, eventVars, grOffs, stack>>

(* A mutant: a float uses up a general register.                           *)
decodeVFloatReg ==
  /\ Decoding("V") /\ params[Here] = "F"
  /\ Show(Unknown)
  /\ grOffs' = IF grOffs < 0 THEN grOffs + 1 ELSE grOffs
  /\ UNCHANGED <<callVars, phase, eventVars, stack>>

decodeVFloat ==
  /\ Decoding("V") /\ params[Here] = "F"
  /\ Show(Unknown)
  /\ UNCHANGED <<callVars, phase, eventVars, grOffs, stack>>

decodeVReg ==
  /\ Decoding("V") /\ params[Here] = "I" /\ vgr /\ grOffs < 0
  /\ LET idx == GBack + grOffs IN Show(IF idx \in Index THEN cap[idx] ELSE Zero)
  /\ grOffs' = grOffs + 1
  /\ UNCHANGED <<callVars, phase, eventVars, stack>>

decodeVStack ==
  /\ Decoding("V") /\ params[Here] = "I" /\ ~(vgr /\ grOffs < 0)
  /\ Show(IF stack \in Index THEN cap2[stack] ELSE Zero)
  /\ stack' = stack + 1
  /\ UNCHANGED <<callVars, phase, eventVars, grOffs>>

decodeDirect ==
  /\ Decoding("C")
  /\ Show(IF i0 >= ncap \/ i0 >= 2 THEN Unknown ELSE cap[i0])
  /\ UNCHANGED <<callVars, phase, eventVars, grOffs, stack>>

Finish ==
  /\ phase = "decode" /\ Here \notin Args
  /\ phase' = "done"
  /\ UNCHANGED <<callVars, eventVars, grOffs, stack, out>>

Next ==
  \/ CaptureA \/ CaptureV \/ CaptureC
  \/ decodeA \/ decodeVFloat \/ decodeVReg \/ decodeVStack \/ decodeDirect
  \/ Finish

Spec == Init /\ [][Next]_vars
-----------------------------------------------------------------------------
(* Parameters whose decoding the snapshots allow for: an argument of a     *)
(* va_list in a register, or in the first words of the stack as long as    *)
(* no float is there; of a variadic call, as long as no float came before. *)
Covered(j) ==
  \/ variant = "A"
  \/ variant = "V" /\ \/ params[j] = "F"
                      \/ named + NG(j) < NGR
                      \/ NF(j) <= NVR /\ NS(j) < NCAP
  \/ variant = "C" /\ params[j] = "I" /\ NF(j) = 0

Readable(j) ==
  variant = "C" \/ (Loc(j) \notin lost /\ (variant = "V" => VaList \notin lost))

Expected(j) ==
  CASE variant = "A" -> IF j <= NCAP THEN j ELSE Unknown
    [] variant = "V" -> IF params[j] = "I" THEN j ELSE Unknown
    [] variant = "C" -> IF j <= 2 /\ j <= NARGS - named THEN j ELSE Unknown

(* `argument memory is snapshotted' (README.md), and each parameter that   *)
(* is covered gets its own argument out of it, however integers and floats *)
(* are mixed and wherever the registers end; a float of a va_list, and     *)
(* what a jvalue array or a variadic call has behind the snapshot, are     *)
(* shown as unknown.  (An integer of a va_list behind the snapshot of the  *)
(* stack is not covered: decodeV shows 0 for it.)  An argument that could  *)
(* not be read is shown as 0 or unknown, never as another one: the failed  *)
(* read does not shift the others.                                         *)
ShownRight ==
  \A j \in DOMAIN out : Covered(j) =>
    /\ Readable(j) => out[j] = Expected(j)
    /\ ~Readable(j) => out[j] \in {Zero, Unknown}

(* `...V parses an AArch64 va_list (GPR save area + overflow stack);       *)
(* variadic-C args are taken from the entry registers' (README.md): what   *)
(* is shown is the argument, or unknown.                                   *)
ShownPerABI ==
  \A j \in DOMAIN out : Readable(j) => out[j] \in {j, Unknown}
=============================================================================
