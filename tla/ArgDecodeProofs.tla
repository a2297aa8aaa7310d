-------------------------- MODULE ArgDecodeProofs --------------------------
(***************************************************************************)
(* Proofs about ArgDecode, for signatures of every length, every number of *)
(* registers and every size of the snapshots.                              *)
(***************************************************************************)
EXTENDS ArgDecode, FiniteSetTheorems, SequenceTheorems, TLAPS

(* The words that the loops of the loader find in the event.               *)
CapA == \A i \in Index : cap[i] = Read(<<"jvalue", i>>)

CapV ==
  /\ vgr
  /\ \A i \in Index : cap[i] = Read(<<"x", NGR - GBack + i>>)
  /\ \A i \in Index : cap2[i] = Read(<<"stack", i>>)

(* What is left of a va_list that could not be read.                       *)
LostV == ~vgr /\ \A i \in Index : cap2[i] = Zero

CapC ==
  /\ ncap = NARGS - named
  /\ cap[0] = WordAt(<<"x", named>>)
  /\ named + 1 < NARGS => cap[1] = WordAt(<<"x", named + 1>>)

(* The cursors of decodeV follow the integers of the convention: grOffs    *)
(* counts down what is left of the save area, stack the integers behind.   *)
CursorV ==
  /\ grOffs = 0 - Over(NGR, named + NG(Here))
  /\ stack = Over(named + NG(Here), NGR)

DecodeInv ==
  /\ TypeOK
  /\ phase = "entry" => out = << >>
  /\ phase # "entry" =>
       /\ variant = "A" => CapA
       /\ variant = "V" /\ VaList \notin lost => CapV /\ CursorV
       /\ variant = "V" /\ VaList \in lost => LostV
       /\ variant = "C" => CapC
  /\ ShownRight

-----------------------------------------------------------------------------
(* Counting: one more argument of a class is one more.                     *)
LEMMA CountType ==
  ASSUME NEW j \in Nat, NEW c
  PROVE  /\ IsFiniteSet({k \in 1..(j - 1) : params[k] = c})
         /\ Cardinality({k \in 1..(j - 1) : params[k] = c}) \in Nat
<1>1. IsFiniteSet(1..(j - 1))
  BY FS_Interval
<1>2. IsFiniteSet({k \in 1..(j - 1) : params[k] = c})
  BY <1>1, FS_Subset
<1>3. QED
  BY <1>2, FS_CardinalityType

LEMMA CountNext ==
  ASSUME NEW j \in Nat \ {0}, NEW c
  PROVE  Cardinality({k \in 1..j : params[k] = c}) =
           Cardinality({k \in 1..(j - 1) : params[k] = c}) + (IF params[j] = c THEN 1 ELSE 0)
<1> DEFINE S == {k \in 1..(j - 1) : params[k] = c}
<1>1. IsFiniteSet(S) /\ Cardinality(S) \in Nat
  BY CountType
<1>2. CASE params[j] = c
  <2>1. {k \in 1..j : params[k] = c} = S \cup {j} /\ j \notin S
    BY <1>2
  <2>2. QED
    BY <1>1, <1>2, <2>1, FS_AddElement
<1>3. CASE params[j] # c
  <2>1. {k \in 1..j : params[k] = c} = S
    BY <1>3
  <2>2. QED
    BY <1>1, <1>3, <2>1
<1>4. QED
  BY <1>2, <1>3

LEMMA CountMono ==
  ASSUME NEW i \in Nat, NEW j \in Nat, i <= j, NEW c
  PROVE  Cardinality({k \in 1..(i - 1) : params[k] = c}) <=
           Cardinality({k \in 1..(j - 1) : params[k] = c})
<1>1. {k \in 1..(i - 1) : params[k] = c} \subseteq {k \in 1..(j - 1) : params[k] = c}
  OBVIOUS
<1>2. QED
  BY <1>1, CountType, FS_Subset

(* The same in terms of the module's counters.                             *)
LEMMA Counters ==
  ASSUME NEW j \in Nat \ {0}
  PROVE  /\ NG(j) \in Nat /\ NF(j) \in Nat
         /\ NG(j + 1) = NG(j) + (IF params[j] = "I" THEN 1 ELSE 0)
         /\ NF(j + 1) = NF(j) + (IF params[j] = "F" THEN 1 ELSE 0)
<1>1. (j + 1) - 1 = j
  OBVIOUS
<1>2. QED
  BY <1>1, CountType, CountNext DEF NG, NF

LEMMA OverMono ==
  ASSUME NEW a \in Nat, NEW b \in Nat, NEW n \in Nat, a <= b
  PROVE  /\ Over(a, n) \in Nat /\ Over(b, n) \in Nat /\ Over(a, n) <= Over(b, n)
         /\ a < b /\ a >= n => Over(a, n) < Over(b, n)
  BY DEF Over

(* An argument is in one place, and a place holds one argument.            *)
LEMMA LocInjective ==
  ASSUME TypeOK, NEW i \in Args, NEW j \in Args, i < j
  PROVE  Loc(i) # Loc(j)
<1>1. /\ params \in Seq({"I", "F"}) /\ Len(params) \in Nat
      /\ params[i] \in {"I", "F"} /\ params[j] \in {"I", "F"}
      /\ i \in Nat \ {0} /\ j \in Nat \ {0}
  BY ArgAssumption, LenProperties, ElementOfSeq DEF TypeOK, Args
<1>2. /\ NG(i) \in Nat /\ NF(i) \in Nat /\ NG(j) \in Nat /\ NF(j) \in Nat
      /\ named \in Nat /\ NGR \in Nat /\ NVR \in Nat
  BY <1>1, Counters, ArgAssumption DEF TypeOK
<1>3. NG(i + 1) <= NG(j) /\ NF(i + 1) <= NF(j)
  <2>1. i + 1 \in Nat /\ i + 1 <= j
    BY <1>1
  <2>2. \A c : Cardinality({k \in 1..((i + 1) - 1) : params[k] = c}) <=
                Cardinality({k \in 1..(j - 1) : params[k] = c})
    BY <1>1, <2>1, CountMono
  <2>3. QED
    BY <2>2 DEF NG, NF
<1>4. /\ params[i] = "I" => NG(i) + 1 <= NG(j)
      /\ params[i] = "F" => NF(i) + 1 <= NF(j)
      /\ NG(i) <= NG(j) /\ NF(i) <= NF(j)
  <2>1. /\ NG(i + 1) = NG(i) + (IF params[i] = "I" THEN 1 ELSE 0)
        /\ NF(i + 1) = NF(i) + (IF params[i] = "F" THEN 1 ELSE 0)
    BY <1>1, Counters
  <2> HIDE DEF NG, NF
  <2>2. QED
    BY <1>1, <1>2, <1>3, <2>1
<1>5. CASE variant = "A"
  BY <1>1, <1>5 DEF Loc
<1>6. CASE variant # "A"
  <2> HIDE DEF NG, NF
  <2>1. /\ NS(i) \in Nat /\ NS(j) \in Nat /\ NS(i) <= NS(j)
        /\ params[i] = "I" /\ ~(named + NG(i) < NGR) => NS(i) < NS(j)
        /\ params[i] = "F" /\ ~(NF(i) < NVR) => NS(i) < NS(j)
    <3> DEFINE a == named + NG(i)
               b == named + NG(j)
    <3>1. /\ a \in Nat /\ b \in Nat /\ a <= b /\ NF(i) <= NF(j)
          /\ params[i] = "I" => a < b
          /\ params[i] = "F" => NF(i) < NF(j)
          /\ ~(a < NGR) => a >= NGR
          /\ ~(NF(i) < NVR) => NF(i) >= NVR
      BY <1>1, <1>2, <1>4, SMTT(30)
    <3>2. NS(i) = Over(a, NGR) + Over(NF(i), NVR) /\ NS(j) = Over(b, NGR) + Over(NF(j), NVR)
      BY DEF NS
    <3> HIDE DEF a, b, NS
    <3>3. /\ Over(a, NGR) \in Nat /\ Over(b, NGR) \in Nat /\ Over(a, NGR) <= Over(b, NGR)
          /\ a < b /\ a >= NGR => Over(a, NGR) < Over(b, NGR)
      BY <1>2, <3>1, OverMono
    <3>4. /\ Over(NF(i), NVR) \in Nat /\ Over(NF(j), NVR) \in Nat
          /\ Over(NF(i), NVR) <= Over(NF(j), NVR)
          /\ NF(i) < NF(j) /\ NF(i) >= NVR => Over(NF(i), NVR) < Over(NF(j), NVR)
      BY <1>2, <3>1, OverMono
    <3>5. /\ NS(i) \in Nat /\ NS(j) \in Nat /\ NS(i) <= NS(j)
          /\ params[i] = "I" /\ ~(a < NGR) => NS(i) < NS(j)
          /\ params[i] = "F" /\ ~(NF(i) < NVR) => NS(i) < NS(j)
      BY <3>1, <3>2, <3>3, <3>4
    <3>6. QED
      BY <3>5 DEF a
  <2> HIDE DEF NS
  <2>2. CASE params[i] = "I" /\ params[j] = "I"
    <3>1. /\ named + NG(i) # named + NG(j)
          /\ ~(named + NG(i) < NGR) => NS(i) # NS(j) /\ ~(named + NG(j) < NGR)
      BY <1>2, <1>4, <2>1, <2>2
    <3>2. QED
      BY <1>6, <2>2, <3>1 DEF Loc
  <2>3. CASE params[i] = "I" /\ params[j] = "F"
    BY <1>2, <1>4, <1>6, <2>1, <2>3 DEF Loc
  <2>4. CASE params[i] = "F" /\ params[j] = "I"
    BY <1>2, <1>4, <1>6, <2>1, <2>4 DEF Loc
  <2>5. CASE params[i] = "F" /\ params[j] = "F"
    BY <1>2, <1>4, <1>6, <2>1, <2>5 DEF Loc
  <2>6. QED
    BY <1>1, <2>2, <2>3, <2>4, <2>5
<1>7. QED
  BY <1>5, <1>6

LEMMA WordOfArg ==
  ASSUME TypeOK, NEW j \in Args
  PROVE  WordAt(Loc(j)) = j
<1>1. \A i \in Args : Loc(i) = Loc(j) => i = j
  <2> SUFFICES ASSUME NEW i \in Args, i # j PROVE Loc(i) # Loc(j)
    OBVIOUS
  <2>1. i < j \/ j < i
    BY DEF Args
  <2>2. QED
    BY <2>1, LocInjective
<1>2. (CHOOSE i \in Args : Loc(i) = Loc(j)) = j
  BY <1>1
<1>3. QED
  BY <1>2 DEF WordAt

-----------------------------------------------------------------------------
(* Where the arguments are does not change after the call.                 *)
LEMMA CallFixed ==
  ASSUME UNCHANGED callVars
  PROVE  /\ UNCHANGED <<variant, params, named, lost, Args>>
         /\ \A j : NG(j)' = NG(j) /\ NF(j)' = NF(j)
         /\ \A l : WordAt(l)' = WordAt(l) /\ Read(l)' = Read(l)
         /\ \A j : Covered(j)' = Covered(j)
         /\ \A j : Readable(j)' = Readable(j)
         /\ \A j : Expected(j)' = Expected(j)
<1>1. UNCHANGED <<variant, params, named, lost>>
  BY DEF callVars
<1>2. \A j : NG(j)' = NG(j) /\ NF(j)' = NF(j)
  BY <1>1 DEF NG, NF
<1>3. \A j : NS(j)' = NS(j)
  BY <1>1, <1>2 DEF NS, Over
<1>4. \A j : Loc(j)' = Loc(j)
  BY <1>1, <1>2, <1>3 DEF Loc
<1>5. Args' = Args
  BY <1>1 DEF Args
<1>6. \A l : WordAt(l)' = WordAt(l)
  BY <1>4, <1>5 DEF WordAt
<1>7. \A l : Read(l)' = Read(l)
  BY <1>1, <1>6 DEF Read
<1>8. \A j : Covered(j)' = Covered(j)
  BY <1>1, <1>2, <1>3 DEF Covered
<1>9. \A j : Readable(j)' = Readable(j)
  BY <1>1, <1>4 DEF Readable, VaList
<1>10. \A j : Expected(j)' = Expected(j)
  BY <1>1 DEF Expected, Unknown
<1>11. QED
  BY <1>1, <1>2, <1>5, <1>6, <1>7, <1>8, <1>9, <1>10

LEMMA WordType ==
  ASSUME TypeOK, NEW l
  PROVE  WordAt(l) \in Word /\ Read(l) \in Word
<1>1. Args \subseteq Nat
  BY DEF Args
<1>2. WordAt(l) \in Args \cup {Junk}
  BY DEF WordAt
<1>3. QED
  BY <1>1, <1>2 DEF Read, Word

(* Showing one more parameter, if what is shown is right.                  *)
LEMMA ShowKeeps ==
  ASSUME TypeOK, ShownRight, UNCHANGED callVars, Here \in Args,
         NEW w \in Word \cup {Unknown}, Show(w),
         Covered(Here) /\ Readable(Here) => w = Expected(Here),
         Covered(Here) /\ ~Readable(Here) => w \in {Zero, Unknown}
  PROVE  /\ ShownRight'
         /\ out' \in Seq(Word \cup {Unknown}) /\ Len(out') <= Len(params)
         /\ Here' = Here + 1 /\ Here \in Nat \ {0}
         /\ Len(out) \in Nat /\ Len(out') = Len(out) + 1 /\ stack \in 0..Len(out')
<1>1. /\ out \in Seq(Word \cup {Unknown}) /\ out' = Append(out, w) /\ Len(out) \in Nat
  BY LenProperties DEF TypeOK, Show
<1>2. /\ out' \in Seq(Word \cup {Unknown}) /\ Len(out') = Len(out) + 1
      /\ \A j \in 1..Len(out) : out'[j] = out[j]
      /\ out'[Len(out) + 1] = w
      /\ DOMAIN out = 1..Len(out) /\ DOMAIN out' = 1..(Len(out) + 1)
  BY <1>1, AppendProperties, LenProperties
<1>3. ShownRight'
  <2> SUFFICES ASSUME NEW j \in DOMAIN out', Covered(j)
               PROVE  /\ Readable(j) => out'[j] = Expected(j)
                      /\ ~Readable(j) => out'[j] \in {Zero, Unknown}
    BY CallFixed DEF ShownRight
  <2>1. CASE j = Here
    BY <1>2, <2>1 DEF Here
  <2>2. CASE j # Here
    <3>1. j \in 1..Len(out)
      BY <1>1, <1>2, <2>2 DEF Here
    <3>2. QED
      BY <1>2, <3>1 DEF ShownRight
  <2>3. QED
    BY <2>1, <2>2
<1>4. stack \in 0..Len(out')
  BY <1>1, <1>2 DEF TypeOK
<1>5. QED
  BY <1>1, <1>2, <1>3, <1>4 DEF Here, Args

-----------------------------------------------------------------------------
(* Entering: the snapshot holds the words the decoder will look for.       *)
LEMMA CaptureAKeeps ==
  ASSUME DecodeInv, CaptureA
  PROVE  DecodeInv'
<1>1. /\ TypeOK /\ phase = "entry" /\ variant = "A" /\ phase' = "decode" /\ ncap' = NCAP
      /\ cap' = [i \in Index |-> Read(<<"jvalue", i>>)]
      /\ UNCHANGED callVars /\ UNCHANGED <<variant, params, named, lost, cap2, vgr, vgoff, grOffs, stack, out>>
      /\ ShownRight
  BY DEF DecodeInv, CaptureA, callVars
<1>2. TypeOK'
  <2>1. cap' \in [Index -> Word]
    BY <1>1, WordType
  <2>2. NCAP \in 0..NCAP
    BY ArgAssumption
  <2>3. QED
    BY <1>1, <2>1, <2>2 DEF TypeOK
<1>3. CapA'
  BY <1>1, CallFixed DEF CapA
<1>4. ShownRight'
  BY <1>1, CallFixed DEF ShownRight
<1>5. QED
  BY <1>1, <1>2, <1>3, <1>4 DEF DecodeInv

LEMMA CaptureCKeeps ==
  ASSUME DecodeInv, CaptureC
  PROVE  DecodeInv'
<1>1. /\ TypeOK /\ phase = "entry" /\ variant = "C" /\ phase' = "decode"
      /\ ncap' = NARGS - named
      /\ cap' = [cap EXCEPT ![0] = WordAt(<<"x", named>>),
                            ![1] = IF named + 1 < NARGS THEN WordAt(<<"x", named + 1>>) ELSE Zero]
      /\ UNCHANGED callVars /\ UNCHANGED <<variant, params, named, lost, cap2, vgr, vgoff, grOffs, stack, out>>
      /\ ShownRight
  BY DEF DecodeInv, CaptureC, callVars
<1>2. /\ cap \in [Index -> Word] /\ 0 \in Index /\ 1 \in Index /\ Zero \in Word
  BY <1>1, ArgAssumption DEF TypeOK, Index, Word
<1>3. TypeOK'
  <2>1. cap' \in [Index -> Word]
    BY <1>1, <1>2, WordType
  <2>2. NARGS - named \in 0..NCAP
    BY <1>1, ArgAssumption DEF TypeOK
  <2>3. QED
    BY <1>1, <2>1, <2>2 DEF TypeOK
<1>4. CapC'
  BY <1>1, <1>2, CallFixed DEF CapC
<1>5. ShownRight'
  BY <1>1, CallFixed DEF ShownRight
<1>6. QED
  BY <1>1, <1>3, <1>4, <1>5 DEF DecodeInv

LEMMA CaptureVKeeps ==
  ASSUME DecodeInv, CaptureV
  PROVE  DecodeInv'
<1>1. /\ TypeOK /\ phase = "entry" /\ variant = "V" /\ phase' = "decode" /\ ncap' = NCAP
      /\ grOffs' = vgoff' /\ stack' = 0 /\ out = << >>
      /\ UNCHANGED callVars /\ UNCHANGED <<variant, params, named, lost, out>>
      /\ ShownRight
  BY DEF DecodeInv, CaptureV, callVars
<1>2. ASSUME VaList \in lost
      PROVE  /\ vgr' = FALSE /\ vgoff' = 0
             /\ cap' = [i \in Index |-> Zero] /\ cap2' = [i \in Index |-> Zero]
  BY <1>2 DEF CaptureV
<1>3. ASSUME VaList \notin lost
      PROVE  /\ vgr' = TRUE /\ vgoff' = named - NGR
             /\ cap' = [i \in Index |-> Read(<<"x", NGR - GBack + i>>)]
             /\ cap2' = [i \in Index |-> Read(<<"stack", i>>)]
  BY <1>3 DEF CaptureV
<1>4. TypeOK'
  <2>1. cap' \in [Index -> Word] /\ cap2' \in [Index -> Word]
    <3>1. Zero \in Word /\ \A l : Read(l) \in Word
      BY <1>1, WordType DEF Word
    <3>2. CASE VaList \in lost
      BY <1>2, <3>1, <3>2
    <3>3. CASE VaList \notin lost
      BY <1>3, <3>1, <3>3
    <3>4. QED
      BY <3>2, <3>3
  <2>2. /\ NCAP \in 0..NCAP /\ 0 \in (0 - NGR)..0 /\ named - NGR \in (0 - NGR)..0
        /\ 0 \in 0..Len(out)
    BY <1>1, ArgAssumption, LenProperties DEF TypeOK
  <2>3. vgr' \in BOOLEAN /\ vgoff' \in (0 - NGR)..0
    BY <1>2, <1>3, <2>2
  <2>4. QED
    BY <1>1, <2>1, <2>2, <2>3 DEF TypeOK
<1>5. ASSUME VaList \notin lost PROVE CapV' /\ CursorV'
  <2>1. CapV'
    BY <1>1, <1>3, <1>5, CallFixed DEF CapV
  <2>2. /\ Here' = 1 /\ NG(1) = 0
    <3>1. {k \in 1..(1 - 1) : params[k] = "I"} = {}
      OBVIOUS
    <3>2. QED
      BY <1>1, <3>1, FS_EmptySet DEF Here, NG
  <2>3. CursorV'
    <3>1. named \in 0..NGR /\ NGR \in Nat
      BY <1>1, ArgAssumption DEF TypeOK
    <3>2. 0 - Over(NGR, named + 0) = named - NGR /\ Over(named + 0, NGR) = 0
      BY <3>1 DEF Over
    <3>3. NG(Here)' = 0
      BY <1>1, <2>2 DEF NG
    <3>4. QED
      BY <1>1, <1>3, <1>5, <3>2, <3>3 DEF CursorV, Over
  <2>4. QED
    BY <2>1, <2>3
<1>6. ShownRight'
  BY <1>1, CallFixed DEF ShownRight
<1>7. VaList \in lost => LostV'
  BY <1>2 DEF LostV
<1>8. QED
  BY <1>1, <1>4, <1>5, <1>6, <1>7 DEF DecodeInv, VaList

-----------------------------------------------------------------------------
(* Decoding: each loop shows the word of its own parameter.                *)
LEMMA decodeAKeeps ==
  ASSUME DecodeInv, decodeA
  PROVE  DecodeInv'
<1> DEFINE w == IF i0 >= NCAP THEN Unknown ELSE cap[i0]
<1>1. /\ TypeOK /\ phase = "decode" /\ variant = "A" /\ Here \in Args /\ Show(w)
      /\ UNCHANGED callVars /\ UNCHANGED <<variant, params, named, lost>>
      /\ UNCHANGED <<phase, cap, cap2, ncap, vgr, vgoff, grOffs, stack>>
      /\ ShownRight /\ CapA
  BY DEF DecodeInv, decodeA, Decoding, callVars, eventVars
<1>2. i0 \in Nat /\ Here = i0 + 1 /\ NCAP \in Nat
  BY <1>1, LenProperties, ArgAssumption DEF i0, Here, TypeOK
<1>3. ~(i0 >= NCAP) => i0 \in Index
  BY <1>2 DEF Index
<1>4. w \in Word \cup {Unknown}
  BY <1>1, <1>3 DEF TypeOK
<1>5. ASSUME Readable(Here) PROVE w = Expected(Here)
  <2>1. CASE i0 >= NCAP
    BY <1>1, <1>2, <2>1 DEF Expected
  <2>2. CASE ~(i0 >= NCAP)
    <3>1. Loc(Here) = <<"jvalue", i0>>
      BY <1>1, <1>2 DEF Loc
    <3>2. cap[i0] = Here
      BY <1>1, <1>3, <1>5, <2>2, <3>1, WordOfArg DEF CapA, Read, Readable
    <3>3. QED
      BY <1>1, <1>2, <2>2, <3>2 DEF Expected
  <2>3. QED
    BY <2>1, <2>2
<1>6. ASSUME ~Readable(Here) PROVE w \in {Zero, Unknown}
  <2>1. Loc(Here) = <<"jvalue", i0>> /\ Loc(Here) \in lost
    BY <1>1, <1>2, <1>6 DEF Loc, Readable
  <2>2. QED
    BY <1>1, <1>3, <2>1 DEF CapA, Read
<1> HIDE DEF w
<1>7. /\ ShownRight' /\ out' \in Seq(Word \cup {Unknown}) /\ Len(out') <= Len(params)
      /\ stack \in 0..Len(out')
  BY <1>1, <1>4, <1>5, <1>6, ShowKeeps
<1>8. TypeOK'
  BY <1>1, <1>7 DEF TypeOK
<1>9. CapA'
  BY <1>1, CallFixed DEF CapA
<1>10. QED
  BY <1>1, <1>7, <1>8, <1>9 DEF DecodeInv

LEMMA decodeVFloatKeeps ==
  ASSUME DecodeInv, decodeVFloat
  PROVE  DecodeInv'
<1>1. /\ TypeOK /\ phase = "decode" /\ variant = "V" /\ Here \in Args /\ Show(Unknown)
      /\ params[Here] = "F"
      /\ UNCHANGED callVars /\ UNCHANGED <<variant, params, named, lost>>
      /\ UNCHANGED <<phase, cap, cap2, ncap, vgr, vgoff, grOffs, stack>>
      /\ ShownRight /\ (VaList \notin lost => CapV /\ CursorV) /\ (VaList \in lost => LostV)
  BY DEF DecodeInv, decodeVFloat, Decoding, callVars, eventVars
<1>2. Unknown = Expected(Here)
  BY <1>1 DEF Expected
<1>3. /\ ShownRight' /\ out' \in Seq(Word \cup {Unknown}) /\ Len(out') <= Len(params)
      /\ Here' = Here + 1 /\ Here \in Nat \ {0} /\ stack \in 0..Len(out')
  BY <1>1, <1>2, ShowKeeps
<1>4. TypeOK'
  BY <1>1, <1>3 DEF TypeOK
<1>5. NG(Here + 1) = NG(Here)
  <2>1. /\ NG(Here) \in Nat /\ NF(Here) \in Nat
        /\ NG(Here + 1) = NG(Here) + (IF params[Here] = "I" THEN 1 ELSE 0)
    BY <1>3, Counters
  <2>2. QED
    BY <1>1, <2>1
<1>6. ASSUME VaList \notin lost PROVE CapV' /\ CursorV'
  <2>1. CapV'
    BY <1>1, <1>6, CallFixed DEF CapV
  <2>2. NG(Here)' = NG(Here)
    BY <1>1, <1>3, <1>5 DEF NG
  <2>3. CursorV'
    BY <1>1, <1>6, <2>2 DEF CursorV, Over
  <2>4. QED
    BY <2>1, <2>3
<1>7. LostV => LostV'
  BY <1>1 DEF LostV
<1>8. QED
  BY <1>1, <1>3, <1>4, <1>6, <1>7 DEF DecodeInv, VaList

LEMMA decodeVRegKeeps ==
  ASSUME DecodeInv, decodeVReg
  PROVE  DecodeInv'
<1> DEFINE idx == GBack + grOffs
           w == IF idx \in Index THEN cap[idx] ELSE Zero
<1>1. /\ TypeOK /\ phase = "decode" /\ variant = "V" /\ Here \in Args /\ Show(w)
      /\ params[Here] = "I" /\ vgr /\ grOffs < 0 /\ grOffs' = grOffs + 1
      /\ UNCHANGED callVars /\ UNCHANGED <<variant, params, named, lost>>
      /\ UNCHANGED <<phase, cap, cap2, ncap, vgr, vgoff, stack>>
      /\ ShownRight /\ (VaList \notin lost => CapV /\ CursorV) /\ (VaList \in lost => LostV)
  BY DEF DecodeInv, decodeVReg, Decoding, callVars, eventVars
<1>2. w \in Word \cup {Unknown}
  BY <1>1 DEF TypeOK, Word
<1>3. /\ Here \in Nat \ {0} /\ NG(Here) \in Nat /\ NG(Here + 1) = NG(Here) + 1
      /\ named \in Nat /\ NGR \in Nat /\ GBack \in Nat /\ NCAP \in Nat
      /\ NGR <= GBack /\ GBack <= NCAP /\ grOffs \in Int
  <2>1. Here \in Nat \ {0}
    BY <1>1 DEF Args
  <2>2. /\ NG(Here) \in Nat /\ NF(Here) \in Nat
        /\ NG(Here + 1) = NG(Here) + (IF params[Here] = "I" THEN 1 ELSE 0)
    BY <2>1, Counters
  <2>3. NG(Here + 1) = NG(Here) + 1
    BY <1>1, <2>2
  <2>4. QED
    BY <1>1, <2>1, <2>2, <2>3, ArgAssumption DEF TypeOK
<1>4. ASSUME VaList \notin lost
      PROVE  /\ named + NG(Here) < NGR /\ grOffs = named + NG(Here) - NGR /\ stack = 0
             /\ idx \in Index /\ NGR - GBack + idx = named + NG(Here)
  <2>1. grOffs = 0 - Over(NGR, named + NG(Here)) /\ stack = Over(named + NG(Here), NGR)
    BY <1>1, <1>4 DEF CursorV
  <2>2. named + NG(Here) < NGR /\ grOffs = named + NG(Here) - NGR /\ stack = 0
    BY <1>1, <1>3, <2>1 DEF Over
  <2>3. QED
    BY <1>3, <2>2 DEF Index
<1>5. ASSUME Readable(Here) PROVE w = Expected(Here)
  <2>1. VaList \notin lost /\ Loc(Here) \notin lost
    BY <1>1, <1>5 DEF Readable
  <2>2. Loc(Here) = <<"x", NGR - GBack + idx>>
    BY <1>1, <1>4, <2>1 DEF Loc
  <2>3. cap[idx] = Read(<<"x", NGR - GBack + idx>>)
    BY <1>1, <1>4, <2>1 DEF CapV
  <2>4. w = Here
    BY <1>1, <1>4, <2>1, <2>2, <2>3, WordOfArg DEF Read
  <2>5. QED
    BY <1>1, <2>4 DEF Expected
<1>6. VaList \notin lost
  BY <1>1 DEF LostV
<1>7. ASSUME ~Readable(Here) PROVE w = Zero
  <2>1. Loc(Here) = <<"x", NGR - GBack + idx>> /\ Loc(Here) \in lost
    BY <1>1, <1>4, <1>6, <1>7 DEF Loc, Readable
  <2>2. cap[idx] = Read(<<"x", NGR - GBack + idx>>)
    BY <1>1, <1>4, <1>6 DEF CapV
  <2>3. QED
    BY <1>4, <1>6, <2>1, <2>2 DEF Read
<1> HIDE DEF w
<1>8. /\ ShownRight' /\ out' \in Seq(Word \cup {Unknown}) /\ Len(out') <= Len(params)
      /\ Here' = Here + 1 /\ stack \in 0..Len(out')
  BY <1>1, <1>2, <1>5, <1>7, ShowKeeps
<1>9. TypeOK'
  <2>1. grOffs' \in (0 - NGR)..0
    BY <1>1, <1>3 DEF TypeOK
  <2>2. QED
    BY <1>1, <1>8, <2>1 DEF TypeOK
<1>10. ASSUME VaList \notin lost PROVE CapV' /\ CursorV'
  <2>1. CapV'
    BY <1>1, <1>10, CallFixed DEF CapV
  <2>2. NG(Here)' = NG(Here) + 1
    BY <1>1, <1>3, <1>8 DEF NG
  <2>3. /\ 0 - Over(NGR, named + (NG(Here) + 1)) = grOffs + 1
        /\ Over(named + (NG(Here) + 1), NGR) = 0
    BY <1>3, <1>4, <1>10 DEF Over
  <2>4. CursorV'
    BY <1>1, <1>4, <1>10, <2>2, <2>3 DEF CursorV, Over
  <2>5. QED
    BY <2>1, <2>4
<1>11. QED
  BY <1>1, <1>8, <1>9, <1>10, <1>6 DEF DecodeInv, VaList

LEMMA decodeVStackKeeps ==
  ASSUME DecodeInv, decodeVStack
  PROVE  DecodeInv'
<1> DEFINE w == IF stack \in Index THEN cap2[stack] ELSE Zero
<1>1. /\ TypeOK /\ phase = "decode" /\ variant = "V" /\ Here \in Args /\ Show(w)
      /\ params[Here] = "I" /\ ~(vgr /\ grOffs < 0) /\ stack' = stack + 1
      /\ UNCHANGED callVars /\ UNCHANGED <<variant, params, named, lost>>
      /\ UNCHANGED <<phase, cap, cap2, ncap, vgr, vgoff, grOffs>>
      /\ ShownRight /\ (VaList \notin lost => CapV /\ CursorV) /\ (VaList \in lost => LostV)
  BY DEF DecodeInv, decodeVStack, Decoding, callVars, eventVars
<1>2. w \in Word \cup {Unknown}
  BY <1>1 DEF TypeOK, Word
<1>3. /\ Here \in Nat \ {0} /\ NG(Here) \in Nat /\ NG(Here + 1) = NG(Here) + 1
      /\ NF(Here) \in Nat /\ NVR \in Nat
      /\ named \in Nat /\ NGR \in Nat /\ NCAP \in Nat /\ grOffs \in Int /\ stack \in Nat
  <2>1. Here \in Nat \ {0}
    BY <1>1 DEF Args
  <2>2. /\ NG(Here) \in Nat /\ NF(Here) \in Nat
        /\ NG(Here + 1) = NG(Here) + (IF params[Here] = "I" THEN 1 ELSE 0)
    BY <2>1, Counters
  <2>3. NG(Here + 1) = NG(Here) + 1
    BY <1>1, <2>2
  <2>4. QED
    BY <1>1, <2>1, <2>2, <2>3, ArgAssumption DEF TypeOK
<1>4. ASSUME VaList \notin lost
      PROVE  /\ ~(named + NG(Here) < NGR) /\ grOffs = 0 /\ stack = named + NG(Here) - NGR
  <2>1. grOffs = 0 - Over(NGR, named + NG(Here)) /\ stack = Over(named + NG(Here), NGR)
    BY <1>1, <1>4 DEF CursorV
  <2>2. ~(grOffs < 0)
    BY <1>1, <1>4 DEF CapV
  <2>3. QED
    BY <1>3, <2>1, <2>2 DEF Over
<1>5. ASSUME Covered(Here), Readable(Here) PROVE w = Expected(Here)
  <2>1. VaList \notin lost /\ Loc(Here) \notin lost
    BY <1>1, <1>5 DEF Readable
  <2>2. NF(Here) <= NVR /\ NS(Here) < NCAP
    BY <1>1, <1>4, <1>5, <2>1 DEF Covered
  <2>3. NS(Here) = stack /\ stack \in Index
    BY <1>3, <1>4, <2>1, <2>2 DEF NS, Over, Index
  <2>4. Loc(Here) = <<"stack", stack>>
    BY <1>1, <1>4, <2>1, <2>3 DEF Loc
  <2>5. cap2[stack] = Read(<<"stack", stack>>)
    BY <1>1, <2>1, <2>3 DEF CapV
  <2>6. w = Here
    BY <1>1, <2>1, <2>3, <2>4, <2>5, WordOfArg DEF Read
  <2>7. QED
    BY <1>1, <2>6 DEF Expected
<1>6. ASSUME Covered(Here), ~Readable(Here) PROVE w = Zero
  <2>1. CASE VaList \in lost
    BY <1>1, <2>1 DEF LostV
  <2>2. CASE VaList \notin lost
    <3>1. Loc(Here) \in lost
      BY <1>1, <1>6, <2>2 DEF Readable
    <3>2. NF(Here) <= NVR /\ NS(Here) < NCAP
      BY <1>1, <1>4, <1>6, <2>2 DEF Covered
    <3>3. NS(Here) = stack /\ stack \in Index
      BY <1>3, <1>4, <2>2, <3>2 DEF NS, Over, Index
    <3>4. Loc(Here) = <<"stack", stack>>
      BY <1>1, <1>4, <2>2, <3>3 DEF Loc
    <3>5. cap2[stack] = Read(<<"stack", stack>>)
      BY <1>1, <2>2, <3>3 DEF CapV
    <3>6. QED
      BY <3>1, <3>3, <3>4, <3>5 DEF Read
  <2>3. QED
    BY <2>1, <2>2
<1> HIDE DEF w
<1>7. /\ ShownRight' /\ out' \in Seq(Word \cup {Unknown}) /\ Len(out') <= Len(params)
      /\ Here' = Here + 1 /\ Len(out) \in Nat /\ Len(out') = Len(out) + 1
  BY <1>1, <1>2, <1>5, <1>6, ShowKeeps
<1>8. TypeOK'
  <2>1. stack' \in 0..Len(out')
    BY <1>1, <1>3, <1>7 DEF TypeOK
  <2>2. QED
    BY <1>1, <1>7, <2>1 DEF TypeOK
<1>9. ASSUME VaList \notin lost PROVE CapV' /\ CursorV'
  <2>1. CapV'
    BY <1>1, <1>9, CallFixed DEF CapV
  <2>2. NG(Here)' = NG(Here) + 1
    BY <1>1, <1>3, <1>7 DEF NG
  <2>3. /\ 0 - Over(NGR, named + (NG(Here) + 1)) = grOffs
        /\ Over(named + (NG(Here) + 1), NGR) = stack + 1
    BY <1>3, <1>4, <1>9 DEF Over
  <2>4. CursorV'
    BY <1>1, <1>4, <1>9, <2>2, <2>3 DEF CursorV, Over
  <2>5. QED
    BY <2>1, <2>4
<1>10. LostV => LostV'
  BY <1>1 DEF LostV
<1>11. QED
  BY <1>1, <1>7, <1>8, <1>9, <1>10 DEF DecodeInv, VaList

(* Without a float before it, the j-th argument of a variadic call is in   *)
(* the register named + j - 1.                                             *)
LEMMA NoFloats ==
  ASSUME TypeOK, NEW j \in Args, NF(j) = 0
  PROVE  NG(j) = j - 1
<1>1. /\ params \in Seq({"I", "F"}) /\ j \in Nat \ {0} /\ Len(params) \in Nat
      /\ \A k \in 1..(j - 1) : params[k] \in {"I", "F"}
  <2>1. params \in Seq({"I", "F"}) /\ Len(params) \in Nat
    BY ArgAssumption, LenProperties DEF TypeOK
  <2>2. QED
    BY <2>1, ElementOfSeq DEF Args
<1>2. {k \in 1..(j - 1) : params[k] = "F"} = {}
  BY <1>1, CountType, FS_EmptySet DEF NF
<1>3. {k \in 1..(j - 1) : params[k] = "I"} = 1..(j - 1)
  BY <1>1, <1>2
<1>4. Cardinality(1..(j - 1)) = j - 1
  BY <1>1, FS_Interval
<1>5. QED
  BY <1>3, <1>4 DEF NG

LEMMA decodeDirectKeeps ==
  ASSUME DecodeInv, decodeDirect
  PROVE  DecodeInv'
<1> DEFINE w == IF i0 >= ncap \/ i0 >= 2 THEN Unknown ELSE cap[i0]
<1>1. /\ TypeOK /\ phase = "decode" /\ variant = "C" /\ Here \in Args /\ Show(w)
      /\ UNCHANGED callVars /\ UNCHANGED <<variant, params, named, lost>>
      /\ UNCHANGED <<phase, cap, cap2, ncap, vgr, vgoff, grOffs, stack>>
      /\ ShownRight /\ CapC
  BY DEF DecodeInv, decodeDirect, Decoding, callVars, eventVars
<1>2. /\ i0 \in Nat /\ Here = i0 + 1 /\ NCAP >= 2 /\ NCAP \in Nat /\ ncap = NARGS - named
      /\ named \in Nat /\ NARGS \in Nat /\ NGR \in Nat /\ NARGS <= NGR /\ named < NARGS
  BY <1>1, LenProperties, ArgAssumption DEF i0, Here, TypeOK, CapC
<1>3. ~(i0 >= 2) => i0 \in Index
  BY <1>2 DEF Index
<1>4. w \in Word \cup {Unknown}
  BY <1>1, <1>3 DEF TypeOK
<1>5. ASSUME Covered(Here) PROVE w = Expected(Here)
  <2>1. CASE i0 >= ncap \/ i0 >= 2
    BY <1>1, <1>2, <2>1 DEF Expected
  <2>2. CASE ~(i0 >= ncap \/ i0 >= 2)
    <3>1. params[Here] = "I" /\ NF(Here) = 0
      BY <1>1, <1>5 DEF Covered
    <3>2. NG(Here) = i0
      BY <1>1, <1>2, <3>1, NoFloats
    <3>3. Loc(Here) = <<"x", named + i0>>
      BY <1>1, <1>2, <2>2, <3>1, <3>2 DEF Loc
    <3>4. WordAt(<<"x", named + i0>>) = Here
      BY <1>1, <3>3, WordOfArg
    <3>5. cap[i0] = WordAt(<<"x", named + i0>>)
      <4>1. CASE i0 = 0
        BY <1>1, <1>2, <4>1 DEF CapC
      <4>2. CASE i0 = 1
        BY <1>1, <1>2, <2>2, <4>2 DEF CapC
      <4>3. QED
        BY <1>2, <2>2, <4>1, <4>2
    <3>6. Expected(Here) = Here
      BY <1>1, <1>2, <2>2 DEF Expected
    <3>7. QED
      BY <2>2, <3>4, <3>5, <3>6
  <2>3. QED
    BY <2>1, <2>2
<1> HIDE DEF w
<1>6. /\ ShownRight' /\ out' \in Seq(Word \cup {Unknown}) /\ Len(out') <= Len(params)
      /\ stack \in 0..Len(out')
  <2>1. Readable(Here)
    BY <1>1 DEF Readable
  <2>2. QED
    BY <1>1, <1>4, <1>5, <2>1, ShowKeeps
<1>7. TypeOK'
  BY <1>1, <1>6 DEF TypeOK
<1>8. CapC'
  BY <1>1, CallFixed DEF CapC
<1>9. QED
  BY <1>1, <1>6, <1>7, <1>8 DEF DecodeInv

LEMMA OthersKeep ==
  ASSUME DecodeInv, Finish \/ UNCHANGED vars
  PROVE  DecodeInv'
<1>1. /\ TypeOK /\ ShownRight
      /\ UNCHANGED callVars /\ UNCHANGED <<variant, params, named, lost>>
      /\ UNCHANGED <<cap, cap2, ncap, vgr, vgoff, grOffs, stack, out>>
      /\ (phase = "decode" /\ phase' = "done") \/ phase' = phase
  BY DEF DecodeInv, Finish, vars, callVars, eventVars
<1>2. TypeOK'
  BY <1>1 DEF TypeOK
<1>3. ShownRight'
  BY <1>1, CallFixed DEF ShownRight
<1>4. (CapA => CapA') /\ (CapV => CapV') /\ (CapC => CapC') /\ (LostV => LostV')
  BY <1>1, CallFixed DEF CapA, CapV, CapC, LostV
<1>5. CursorV => CursorV'
  BY <1>1 DEF CursorV, Here, NG, Over
<1>6. QED
  BY <1>1, <1>2, <1>3, <1>4, <1>5 DEF DecodeInv, VaList

-----------------------------------------------------------------------------
(* The invariant of capturing and decoding: the event holds the words of   *)
(* the arguments, and the cursors of decodeV stand where the calling       *)
(* convention has put the next integer.                                    *)
THEOREM DecodeInvariant == Spec => []DecodeInv
<1>1. Init => DecodeInv
  <2> SUFFICES ASSUME Init PROVE DecodeInv
    OBVIOUS
  <2>1. out = << >> /\ DOMAIN out = {} /\ Len(out) = 0 /\ out \in Seq(Word \cup {Unknown})
    BY EmptySeq DEF Init
  <2>2. Len(params) \in Nat /\ 0 \in 0..NCAP /\ 0 \in (0 - NGR)..0
    BY ArgAssumption, LenProperties DEF Init
  <2>3. cap \in [Index -> Word] /\ cap2 \in [Index -> Word]
    BY DEF Init, Word
  <2>4. TypeOK
    <3>1. /\ ncap \in 0..NCAP /\ vgoff \in (0 - NGR)..0 /\ grOffs \in (0 - NGR)..0
          /\ stack \in 0..Len(out)
      BY <2>1, <2>2 DEF Init
    <3>2. Len(out) <= Len(params)
      BY <2>1, <2>2
    <3>3. QED
      BY <2>1, <2>3, <3>1, <3>2 DEF Init, TypeOK
  <2>5. QED
    BY <2>1, <2>4 DEF Init, DecodeInv, ShownRight
<1>2. DecodeInv /\ [Next]_vars => DecodeInv'
  BY CaptureAKeeps, CaptureVKeeps, CaptureCKeeps, decodeAKeeps, decodeVFloatKeeps,
     decodeVRegKeeps, decodeVStackKeeps, decodeDirectKeeps, OthersKeep
  DEF Next
<1>3. QED
  BY <1>1, <1>2, PTL DEF Spec

(* The register cursor of decodeV stays within the save area, and so       *)
(* within its snapshot, the stack cursor passes at most one word for each  *)
(* parameter shown, and no decoder shows more than the signature has       *)
(* parameters, or anything but a word of the event or `?'.                 *)
THEOREM DecodeTypeCorrect == Spec => [](TypeOK /\ (grOffs < 0 => GBack + grOffs \in Index))
<1>1. DecodeInv => TypeOK
  BY DEF DecodeInv
<1>2. TypeOK => (grOffs < 0 => GBack + grOffs \in Index)
  BY ArgAssumption DEF TypeOK, Index
<1>3. QED
  BY <1>1, <1>2, DecodeInvariant, PTL

(* Each parameter that the snapshots cover is shown with its own argument, *)
(* for every mixture of integers and floats, or as 0 or unknown if capture *)
(* could not read it.                                                      *)
THEOREM ArgumentsShownRight == Spec => []ShownRight
<1>1. DecodeInv => ShownRight
  BY DEF DecodeInv
<1>2. QED
  BY <1>1, DecodeInvariant, PTL
=============================================================================
