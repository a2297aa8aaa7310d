-------------------------- MODULE OffsetScanProofs --------------------------
(***************************************************************************)
(* Proofs about OffsetScan, for every memory of the target, every size of  *)
(* a table from 7 slots on, and an exit of the target at any moment.       *)
(***************************************************************************)
EXTENDS OffsetScan, SequenceTheorems, FiniteSetTheorems, TLAPS

(* A key of out is the offset of the slot it stands for in some table.     *)
KeySound(o) ==
  \E r \in 1..Len(mem) : \E q \in 1..Len(mem[r]) :
    IsTable(r, q) /\ out[o] \in 4..(N - 1) /\ o = Off(mem[r][q + out[o]])

Sound == \A o \in DOMAIN out : KeySound(o)

Covered(r, q) == \A i \in 4..(N - 1) : Off(mem[r][q + i]) \in DOMAIN out

AllCovered == \A r \in 1..Len(mem) : \A q \in 1..Len(mem[r]) : IsTable(r, q) => Covered(r, q)

Passed(r, q) == r < rg \/ (r = rg /\ q < p)

PassedCovered ==
  \A r \in 1..Len(mem) : \A q \in 1..Len(mem[r]) : IsTable(r, q) /\ Passed(r, q) => Covered(r, q)

(* As long as the target lives, out is sound and covers what the scan has  *)
(* passed; once attached, it covers everything, whatever happens then.     *)
ScanInv ==
  /\ TypeOK
  /\ phase \in {"start", "scan", "record", "file"} => source = "none"
  /\ phase = "start" => rg = 1 /\ p = 1 /\ DOMAIN out = {}
  /\ phase \in {"scan", "record"} /\ alive => Sound /\ PassedCovered
  /\ phase = "record" =>
       /\ rg <= Len(mem) /\ IsTable(rg, p)
       /\ alive => \A i \in 4..(slot - 1) : Off(mem[rg][p + i]) \in DOMAIN out
  /\ phase = "loaded" /\ source = "scan" /\ alive => Sound /\ AllCovered
  /\ phase = "attach" /\ source = "scan" => Sound /\ AllCovered

-----------------------------------------------------------------------------
(* What a table is, and what out says of tables, does not depend on the    *)
(* position of the scan.                                                   *)
LEMMA OutFixed ==
  ASSUME UNCHANGED <<mem, out>>
  PROVE  /\ \A r, q : IsTable(r, q)' <=> IsTable(r, q)
         /\ \A r, q : Covered(r, q)' <=> Covered(r, q)
         /\ Sound' <=> Sound
         /\ AllCovered' <=> AllCovered
<1>1. \A r, q : IsTable(r, q)' <=> IsTable(r, q)
  BY DEF IsTable, InExec
<1>2. \A r, q : Covered(r, q)' <=> Covered(r, q)
  BY DEF Covered, Off
<1>3. \A o : KeySound(o)' <=> KeySound(o)
  BY <1>1 DEF KeySound, Off
<1>4. QED
  BY <1>1, <1>2, <1>3 DEF Sound, AllCovered

(* Neither does what the scan has passed, as long as it stays there.       *)
LEMMA ScanFixed ==
  ASSUME UNCHANGED <<mem, out, rg, p>>
  PROVE  PassedCovered' <=> PassedCovered
  BY OutFixed DEF PassedCovered, Passed

(* Two tables never overlap: the words 4 .. N-1 of one are code, and one   *)
(* of the reserved words of a table that began inside it would be there.   *)
LEMMA NoOverlap ==
  ASSUME NEW r, NEW q \in Nat, NEW x \in Nat, IsTable(r, q), IsTable(r, x), q < x
  PROVE  q + N <= x
<1> SUFFICES ASSUME x < q + N PROVE FALSE
  BY ScanAssumption
<1>1. CASE x >= q + 4
  <2>1. x - q \in 4..(N - 1) /\ q + (x - q) = x /\ x + 0 = x
    BY <1>1, ScanAssumption
  <2>2. InExec(mem[r][x])
    BY <2>1 DEF IsTable
  <2>3. mem[r][x] = 0
    BY <2>1 DEF IsTable
  <2>4. QED
    BY <2>2, <2>3, ScanAssumption DEF InExec
<1>2. CASE x < q + 4
  <2>1. (x + 3) - q \in 4..(N - 1) /\ q + ((x + 3) - q) = x + 3
    BY <1>2, ScanAssumption
  <2>2. InExec(mem[r][x + 3])
    BY <2>1 DEF IsTable
  <2>3. mem[r][x + 3] = 0
    BY DEF IsTable
  <2>4. QED
    BY <2>2, <2>3, ScanAssumption DEF InExec
<1>3. QED
  BY <1>1, <1>2

(* The scan's own steps.                                                   *)
LEMMA RecordKeeps ==
  ASSUME ScanInv, Record
  PROVE  ScanInv'
<1> DEFINE v == IF alive THEN mem[rg][p + slot] ELSE 0
           o == Off(v)
<1>0. /\ TypeOK /\ phase = "record" /\ source = "none" /\ IsTable(rg, p) /\ rg \in 1..Len(mem)
      /\ slot \in 4..(N - 1) /\ p \in Nat \ {0} /\ N \in Nat /\ N >= 7 /\ rg \in Nat \ {0}
  <2>1. mem \in Seq(Seq(Nat))
    BY ScanAssumption DEF ScanInv, TypeOK
  <2>2. QED
    BY <2>1, ScanAssumption, LenProperties DEF ScanInv, Record, TypeOK
<1>1. /\ out' = Put(out, o, slot)
      /\ UNCHANGED <<mem, file, alive, source, rg, tables>>
      /\ \/ slot < N - 1 /\ slot' = slot + 1 /\ phase' = "record" /\ p' = p
         \/ slot = N - 1 /\ slot' = 4 /\ phase' = "scan" /\ p' = p + N
  BY <1>0 DEF Record
<1>2. /\ DOMAIN out' = DOMAIN out \cup {o} /\ out'[o] = slot
      /\ \A x \in DOMAIN out : x # o => out'[x] = out[x]
  <2> HIDE DEF o
  <2>1. QED
    BY <1>1 DEF Put
<1>3. \A r, q : IsTable(r, q)' <=> IsTable(r, q)
  BY <1>1 DEF IsTable, InExec
<1>4. TypeOK'
  <2>1. slot' \in 4..(N - 1) /\ p' \in Nat \ {0} /\ phase' \in Phases
    BY <1>0, <1>1 DEF Phases
  <2>2. \A x \in DOMAIN out' : out'[x] \in 0..(N - 1)
    <3> HIDE DEF o
    <3>1. slot \in 0..(N - 1) /\ \A x \in DOMAIN out : out[x] \in 0..(N - 1)
      BY <1>0 DEF TypeOK
    <3>2. QED
      BY <1>2, <3>1
  <2>3. QED
    BY <1>0, <1>1, <2>1, <2>2 DEF TypeOK
<1>5. ASSUME alive PROVE Sound'
  <2>1. o = Off(mem[rg][p + slot])
    BY <1>5
  <2>2. p \in 1..Len(mem[rg])
    <3>1. mem[rg] \in Seq(Nat)
      BY <1>0, ScanAssumption, ElementOfSeq DEF TypeOK
    <3>2. Len(mem[rg]) \in Nat
      BY <3>1, LenProperties
    <3>3. QED
      BY <1>0, <3>2 DEF IsTable
  <2> HIDE DEF o
  <2> SUFFICES ASSUME NEW x \in DOMAIN out' PROVE KeySound(x)'
    BY DEF Sound
  <2>4. CASE x = o
    BY <1>0, <1>1, <1>2, <1>3, <2>1, <2>2, <2>4 DEF KeySound
  <2>5. CASE x # o
    <3>1. KeySound(x) /\ out'[x] = out[x]
      BY <1>0, <1>2, <1>5, <2>5 DEF ScanInv, Sound
    <3>2. QED
      BY <1>1, <1>3, <3>1 DEF KeySound, Off
  <2>6. QED
    BY <2>4, <2>5
<1>6. ASSUME alive PROVE \A i \in 4..slot : Off(mem[rg][p + i]) \in DOMAIN out'
  BY <1>0, <1>2, <1>6 DEF ScanInv
<1>7. ASSUME alive, NEW r \in 1..Len(mem), NEW q \in 1..Len(mem[r]), IsTable(r, q), Passed(r, q)'
      PROVE  \A i \in 4..(N - 1) : Off(mem[r][q + i]) \in DOMAIN out'
  <2>1. CASE Passed(r, q)
    BY <1>0, <1>2, <1>7, <2>1 DEF ScanInv, PassedCovered, Covered
  <2>2. CASE ~Passed(r, q)
    <3>1. r = rg /\ q >= p /\ q < p + N /\ slot = N - 1 /\ q \in Nat
      BY <1>0, <1>1, <1>7, <2>2 DEF Passed
    <3>2. q = p
      BY <1>0, <1>7, <3>1, NoOverlap
    <3>3. QED
      BY <1>6, <1>7, <3>1, <3>2
  <2>3. QED
    BY <2>1, <2>2
<1>8. alive => PassedCovered'
  BY <1>1, <1>3, <1>7 DEF PassedCovered, Covered, Off
<1>9. phase' = "record" =>
        /\ rg' <= Len(mem') /\ IsTable(rg, p)'
        /\ alive' => \A i \in 4..(slot' - 1) : Off(mem'[rg'][p' + i]) \in DOMAIN out'
  <2>1. phase' = "record" => slot' - 1 = slot /\ p' = p
    BY <1>0, <1>1
  <2>2. phase' = "record" => IsTable(rg, p)'
    BY <1>0, <1>1, <2>1 DEF IsTable, InExec
  <2>3. QED
    BY <1>0, <1>1, <1>6, <2>1, <2>2
<1>10. QED
  BY <1>0, <1>1, <1>4, <1>5, <1>8, <1>9 DEF ScanInv, Off

(* A position without a table is passed without harm.                      *)
LEMMA StepKeeps ==
  ASSUME ScanInv, Step
  PROVE  ScanInv'
<1>1. /\ TypeOK /\ phase = "scan" /\ p' = p + 1 /\ source = "none"
      /\ UNCHANGED <<mem, file, alive, phase, source, rg, slot, tables, out>>
      /\ alive => ~IsTable(rg, p)
  BY DEF ScanInv, Step
<1>2. TypeOK'
  BY <1>1 DEF TypeOK
<1>3. alive => PassedCovered'
  <2> SUFFICES ASSUME alive, NEW r \in 1..Len(mem), NEW q \in 1..Len(mem[r]),
                      IsTable(r, q), Passed(r, q)'
               PROVE  Covered(r, q)
    BY <1>1, OutFixed DEF PassedCovered
  <2>1. p \in Nat /\ q \in Int
    BY <1>1 DEF TypeOK
  <2>2. ~(r = rg /\ q = p)
    BY <1>1
  <2>3. Passed(r, q)
    BY <1>1, <2>1, <2>2 DEF Passed
  <2>4. QED
    BY <1>1, <2>3 DEF ScanInv, PassedCovered
<1>4. QED
  BY <1>1, <1>2, <1>3, OutFixed DEF ScanInv

LEMMA FoundTableKeeps ==
  ASSUME ScanInv, FoundTable
  PROVE  ScanInv'
<1>1. /\ TypeOK /\ phase = "scan" /\ phase' = "record" /\ source = "none" /\ slot' = 4
      /\ tables' = tables + 1 /\ rg <= Len(mem) /\ IsTable(rg, p) /\ alive
      /\ UNCHANGED <<mem, file, alive, source, rg, p, out>>
  BY DEF ScanInv, FoundTable, InRange
<1>2. TypeOK'
  BY <1>1, ScanAssumption DEF TypeOK, Phases
<1>3. Sound' /\ PassedCovered'
  BY <1>1, OutFixed, ScanFixed DEF ScanInv
<1>4. IsTable(rg, p)'
  BY <1>1 DEF IsTable, InExec
<1>5. 4..(slot' - 1) = {}
  BY <1>1
<1>6. QED
  BY <1>1, <1>2, <1>3, <1>4, <1>5 DEF ScanInv

(* The end of a range leaves no room for a table.                          *)
LEMMA NextRangeKeeps ==
  ASSUME ScanInv, NextRange
  PROVE  ScanInv'
<1>1. /\ TypeOK /\ phase = "scan" /\ source = "none" /\ rg' = rg + 1 /\ p' = 1
      /\ rg \in 1..Len(mem) /\ ~(p + N - 1 <= Len(mem[rg]))
      /\ UNCHANGED <<mem, file, alive, phase, source, slot, tables, out>>
  <2>1. Len(mem) \in Nat
    BY ScanAssumption, LenProperties DEF ScanInv, TypeOK
  <2>2. QED
    BY <2>1 DEF ScanInv, NextRange, InRange, TypeOK
<1>2. TypeOK'
  BY <1>1 DEF TypeOK
<1>3. alive => PassedCovered'
  <2> SUFFICES ASSUME alive, NEW r \in 1..Len(mem), NEW q \in 1..Len(mem[r]),
                      IsTable(r, q), Passed(r, q)'
               PROVE  Covered(r, q)
    BY <1>1, OutFixed DEF PassedCovered
  <2>1. mem[rg] \in Seq(Nat)
    BY <1>1, ScanAssumption, ElementOfSeq DEF TypeOK
  <2>2. Len(mem[rg]) \in Nat /\ p \in Nat /\ q \in Int /\ r \in Int /\ rg \in Nat /\ N \in Nat
    BY <1>1, <2>1, ScanAssumption, LenProperties DEF TypeOK
  <2>3. r <= rg
    BY <1>1, <2>2 DEF Passed
  <2>4. r = rg => q < p
    <3>1. q + N - 1 <= Len(mem[r])
      BY DEF IsTable
    <3>2. QED
      BY <1>1, <2>2, <3>1
  <2>5. Passed(r, q)
    BY <2>2, <2>3, <2>4 DEF Passed
  <2>6. QED
    BY <1>1, <2>5 DEF ScanInv, PassedCovered
<1>4. QED
  BY <1>1, <1>2, <1>3, OutFixed DEF ScanInv

LEMMA ScanEndKeeps ==
  ASSUME ScanInv, ScanEnd
  PROVE  ScanInv'
<1>1. /\ TypeOK /\ phase = "scan" /\ source = "none" /\ rg > Len(mem)
      /\ \/ phase' = "file" /\ source' = source
         \/ phase' = "loaded" /\ source' = "scan"
      /\ UNCHANGED <<mem, file, alive, rg, p, slot, tables, out>>
  BY DEF ScanInv, ScanEnd, scanVars
<1>2. TypeOK'
  BY <1>1 DEF TypeOK, Phases
<1>3. ASSUME alive PROVE Sound' /\ AllCovered'
  <2>1. Len(mem) \in Nat /\ rg \in Nat
    BY <1>1, ScanAssumption, LenProperties DEF TypeOK
  <2>2. \A r \in 1..Len(mem) : \A q : Passed(r, q)
    BY <1>1, <2>1 DEF Passed
  <2>3. Sound /\ AllCovered
    BY <1>1, <1>3, <2>2 DEF ScanInv, PassedCovered, AllCovered
  <2>4. QED
    BY <1>1, <2>3, OutFixed
<1>4. QED
  BY <1>1, <1>2, <1>3 DEF ScanInv

(* The steps before and after the scan.                                    *)
LEMMA StartKeeps ==
  ASSUME ScanInv, Start
  PROVE  ScanInv'
<1>1. /\ TypeOK /\ phase = "start" /\ phase' \in {"scan", "file"} /\ source = "none"
      /\ rg = 1 /\ p = 1 /\ DOMAIN out = {}
      /\ UNCHANGED <<mem, file, alive, source, rg, p, slot, tables, out>>
  BY DEF ScanInv, Start, scanVars
<1>2. TypeOK'
  BY <1>1 DEF TypeOK, Phases
<1>3. Sound'
  BY <1>1 DEF Sound
<1>4. PassedCovered'
  <2>1. \A r \in 1..Len(mem) : \A q \in 1..Len(mem[r]) : ~Passed(r, q)
    BY <1>1 DEF Passed
  <2>2. PassedCovered
    BY <2>1 DEF PassedCovered
  <2>3. QED
    BY <1>1, <2>2, ScanFixed
<1>5. QED
  BY <1>1, <1>2, <1>3, <1>4 DEF ScanInv

LEMMA ReadFileKeeps ==
  ASSUME ScanInv, ReadFile
  PROVE  ScanInv'
<1>1. /\ TypeOK /\ phase = "file" /\ source = "none"
      /\ UNCHANGED <<mem, file, alive, rg, p, slot, tables>>
      /\ \/ phase' = "fatal" /\ UNCHANGED <<source, out>>
         \/ /\ phase' = "loaded" /\ source' = "file"
            /\ \A o \in DOMAIN out' : out'[o] \in 0..(N - 1)
  BY DEF ScanInv, ReadFile, scanVars
<1>2. TypeOK'
  BY <1>1 DEF TypeOK, Phases
<1>3. QED
  BY <1>1, <1>2 DEF ScanInv

(* libart is found again, so the target was alive when the scan ended.     *)
LEMMA CheckOffsetsKeeps ==
  ASSUME ScanInv, CheckOffsets
  PROVE  ScanInv'
<1>1. /\ TypeOK /\ phase = "loaded" /\ ((phase' = "attach" /\ alive) \/ phase' = "fatal")
      /\ UNCHANGED <<mem, file, alive, source, rg, p, slot, tables, out>>
  BY DEF ScanInv, CheckOffsets, scanVars
<1>2. TypeOK'
  BY <1>1 DEF TypeOK, Phases
<1>3. QED
  BY <1>1, <1>2, OutFixed DEF ScanInv

LEMMA ExitKeeps ==
  ASSUME ScanInv, Exit
  PROVE  ScanInv'
<1>1. /\ TypeOK /\ alive' = FALSE
      /\ UNCHANGED <<mem, file, phase, source, rg, p, slot, tables, out>>
  BY DEF ScanInv, Exit, scanVars
<1>2. TypeOK'
  BY <1>1 DEF TypeOK
<1>3. IsTable(rg, p)' <=> IsTable(rg, p)
  BY <1>1 DEF IsTable, InExec
<1>4. QED
  BY <1>1, <1>2, <1>3, OutFixed DEF ScanInv

LEMMA StutterKeeps ==
  ASSUME ScanInv, UNCHANGED vars
  PROVE  ScanInv'
<1>1. /\ TypeOK
      /\ UNCHANGED <<mem, file, alive, phase, source, rg, p, slot, tables, out>>
  BY DEF ScanInv, vars, scanVars
<1>2. TypeOK'
  BY <1>1 DEF TypeOK
<1>3. IsTable(rg, p)' <=> IsTable(rg, p)
  BY <1>1 DEF IsTable, InExec
<1>4. PassedCovered' <=> PassedCovered
  BY <1>1, ScanFixed
<1>5. /\ phase' = "record" => phase = "record"
      /\ phase = "record" /\ alive =>
           \A i \in 4..(slot' - 1) : Off(mem'[rg'][p' + i]) \in DOMAIN out'
  BY <1>1 DEF ScanInv
<1>6. QED
  BY <1>1, <1>2, <1>3, <1>4, <1>5, OutFixed DEF ScanInv, Off

-----------------------------------------------------------------------------
(* The scan's invariant holds in every reachable state: what has been      *)
(* recorded comes from tables, and every table behind the scan is recorded,*)
(* unless the target has exited in the meantime.                           *)
THEOREM ScanInvariant == Spec => []ScanInv
<1>1. Init => ScanInv
  BY ScanAssumption DEF Init, ScanInv, TypeOK, Phases
<1>2. ScanInv /\ [Next]_vars => ScanInv'
  BY RecordKeeps, StepKeeps, FoundTableKeeps, NextRangeKeeps, ScanEndKeeps, StartKeeps,
     ReadFileKeeps, CheckOffsetsKeeps, ExitKeeps, StutterKeeps
  DEF Next, Resolve, Scan
<1>3. QED
  BY <1>1, <1>2, PTL DEF Spec

(* Every reachable state of the offset discovery has the right types: the  *)
(* scan never reads a slot past the end of a table, nor maps an offset to  *)
(* a slot that jniSchema does not have.                                    *)
THEOREM ScanTypeCorrect == Spec => []TypeOK
<1>1. ScanInv => TypeOK
  BY DEF ScanInv
<1>2. QED
  BY <1>1, ScanInvariant, PTL

(* Every function of every table in the data segments is probed when the   *)
(* scanned offsets are attached, for every layout of the memory.           *)
THEOREM AllTablesProbed == Spec => []EveryTableProbed
<1>1. ScanInv => EveryTableProbed
  BY DEF ScanInv, EveryTableProbed, AllCovered, Covered
<1>2. QED
  BY <1>1, ScanInvariant, PTL

(* Nothing but functions of tables is probed, under an index they have in  *)
(* a table, even if the target exits between the two reads of a slot.      *)
THEOREM NothingElseProbed == Spec => []OnlyTablesProbed
<1>1. ScanInv => OnlyTablesProbed
  BY DEF ScanInv, OnlyTablesProbed, Sound, KeySound
<1>2. QED
  BY <1>1, ScanInvariant, PTL

-----------------------------------------------------------------------------
(* The tables of the target, and those that the scan has counted.          *)
Tables ==
  UNION {{<<r, q>> : q \in {x \in 1..Len(mem[r]) : IsTable(r, x)}} : r \in 1..Len(mem)}

Reached(r, q) == Passed(r, q) \/ (phase = "record" /\ r = rg /\ q = p)

Seen == {t \in Tables : Reached(t[1], t[2])}

(* As long as the target lives, each table is counted when it is reached.  *)
CountInv ==
  /\ phase = "start" => tables = 0
  /\ phase \in {"scan", "record"} /\ alive => IsFiniteSet(Seen) /\ tables = Cardinality(Seen)
  /\ phase \in {"loaded", "attach"} /\ source = "scan" =>
       rg > Len(mem) /\ (alive \/ phase = "attach" => tables = Cardinality(Tables))

LEMMA TablesPairs ==
  \A t : t \in Tables <=> \E r \in 1..Len(mem) : \E q \in 1..Len(mem[r]) : t = <<r, q>> /\ IsTable(r, q)
  BY DEF Tables

LEMMA TablesFixed ==
  ASSUME UNCHANGED mem
  PROVE  Tables' = Tables
  BY DEF Tables, IsTable, InExec

(* A step that reaches no other table ...                                  *)
LEMMA SeenSame ==
  ASSUME UNCHANGED mem,
         \A r \in 1..Len(mem) : \A q \in 1..Len(mem[r]) :
           IsTable(r, q) => (Reached(r, q)' <=> Reached(r, q))
  PROVE  Seen' = Seen
<1>1. ASSUME NEW t \in Tables PROVE Reached(t[1], t[2])' <=> Reached(t[1], t[2])
  <2>1. PICK r \in 1..Len(mem) : \E q \in 1..Len(mem[r]) : t = <<r, q>> /\ IsTable(r, q)
    BY TablesPairs
  <2>2. PICK q \in 1..Len(mem[r]) : t = <<r, q>> /\ IsTable(r, q)
    BY <2>1
  <2>3. t[1] = r /\ t[2] = q
    BY <2>2
  <2>4. QED
    BY <2>2, <2>3
<1>2. QED
  BY <1>1, TablesFixed DEF Seen

(* ... and one that reaches one more.                                      *)
LEMMA SeenMore ==
  ASSUME UNCHANGED mem, NEW s \in 1..Len(mem), NEW x \in 1..Len(mem[s]), IsTable(s, x),
         \A r \in 1..Len(mem) : \A q \in 1..Len(mem[r]) :
           IsTable(r, q) => (Reached(r, q)' <=> Reached(r, q) \/ (r = s /\ q = x)),
         ~Reached(s, x)
  PROVE  Seen' = Seen \cup {<<s, x>>} /\ <<s, x>> \notin Seen
<1>0. <<s, x>> \in Tables /\ <<s, x>>[1] = s /\ <<s, x>>[2] = x
  BY TablesPairs
<1>1. ASSUME NEW t \in Tables
      PROVE  Reached(t[1], t[2])' <=> Reached(t[1], t[2]) \/ t = <<s, x>>
  <2>1. PICK r \in 1..Len(mem) : \E q \in 1..Len(mem[r]) : t = <<r, q>> /\ IsTable(r, q)
    BY TablesPairs
  <2>2. PICK q \in 1..Len(mem[r]) : t = <<r, q>> /\ IsTable(r, q)
    BY <2>1
  <2>3. t[1] = r /\ t[2] = q
    BY <2>2
  <2>4. t = <<s, x>> <=> r = s /\ q = x
    BY <2>2
  <2>5. QED
    BY <2>2, <2>3, <2>4
<1>2. <<s, x>> \notin Seen
  BY <1>0 DEF Seen
<1>3. QED
  BY <1>0, <1>1, <1>2, TablesFixed DEF Seen

(* Numbers and lengths.                                                    *)
LEMMA ScanTypes ==
  ASSUME TypeOK
  PROVE  /\ rg \in Nat /\ p \in Nat /\ N \in Nat /\ N >= 7 /\ tables \in Nat /\ Len(mem) \in Nat
         /\ \A r \in 1..Len(mem) : Len(mem[r]) \in Nat
<1>1. mem \in Seq(Seq(Nat))
  BY ScanAssumption DEF TypeOK
<1>2. Len(mem) \in Nat /\ \A r \in 1..Len(mem) : mem[r] \in Seq(Nat)
  BY <1>1, LenProperties, ElementOfSeq
<1>3. \A r \in 1..Len(mem) : Len(mem[r]) \in Nat
  BY <1>2, LenProperties
<1>4. QED
  BY <1>2, <1>3, ScanAssumption DEF TypeOK

LEMMA CountStep ==
  ASSUME ScanInv, CountInv, [Next]_vars
  PROVE  CountInv'
<1>0. TypeOK
  BY DEF ScanInv
<1>1. /\ rg \in Nat /\ p \in Nat /\ N \in Nat /\ N >= 7 /\ tables \in Nat /\ Len(mem) \in Nat
      /\ \A r \in 1..Len(mem) : Len(mem[r]) \in Nat
  BY <1>0, ScanTypes
<1>2. CASE Start
  <2>1. /\ phase = "start" /\ rg = 1 /\ p = 1 /\ tables = 0 /\ source = "none"
        /\ phase' \in {"scan", "file"} /\ UNCHANGED <<mem, alive, source, rg, p, tables>>
    BY <1>2 DEF Start, ScanInv, CountInv, scanVars
  <2>2. \A r \in 1..Len(mem) : \A q \in 1..Len(mem[r]) : ~Reached(r, q)'
    BY <2>1 DEF Reached, Passed
  <2>3. Seen' = {}
    <3>1. ASSUME NEW t \in Tables' PROVE ~Reached(t[1], t[2])'
      <4>1. PICK r \in 1..Len(mem) : \E q \in 1..Len(mem[r]) : t = <<r, q>>
        BY <2>1, TablesFixed, TablesPairs
      <4>2. QED
        BY <2>2, <4>1
    <3>2. QED
      BY <3>1 DEF Seen
  <2>4. IsFiniteSet({}) /\ Cardinality({}) = 0
    BY FS_EmptySet
  <2>5. QED
    BY <2>1, <2>3, <2>4 DEF CountInv
<1>3. CASE Step
  <2>1. /\ phase = "scan" /\ p' = p + 1 /\ UNCHANGED <<mem, alive, phase, source, rg, tables>>
        /\ alive => ~IsTable(rg, p)
    BY <1>3 DEF Step
  <2>2. ASSUME alive, NEW r \in 1..Len(mem), NEW q \in 1..Len(mem[r]), IsTable(r, q)
        PROVE  Reached(r, q)' <=> Reached(r, q)
    <3>1. ~(r = rg /\ q = p)
      BY <2>1, <2>2
    <3>2. Passed(r, q)' <=> Passed(r, q)
      BY <1>1, <2>1, <3>1 DEF Passed
    <3>3. QED
      BY <2>1, <3>2 DEF Reached
  <2>3. alive => Seen' = Seen
    BY <2>1, <2>2, SeenSame
  <2>4. QED
    BY <2>1, <2>3 DEF CountInv
<1>4. CASE FoundTable
  <2>1. /\ phase = "scan" /\ phase' = "record" /\ tables' = tables + 1 /\ alive /\ IsTable(rg, p)
        /\ UNCHANGED <<mem, alive, source, rg, p>> /\ rg <= Len(mem)
    BY <1>4 DEF FoundTable, InRange
  <2>2. rg \in 1..Len(mem)
    BY <1>0, <1>1, <2>1 DEF TypeOK
  <2>3. p \in 1..Len(mem[rg])
    BY <1>0, <1>1, <2>1, <2>2 DEF TypeOK, IsTable
  <2>4. ~Reached(rg, p)
    BY <1>1, <2>1 DEF Reached, Passed
  <2>5. \A r \in 1..Len(mem) : \A q \in 1..Len(mem[r]) :
          Reached(r, q)' <=> Reached(r, q) \/ (r = rg /\ q = p)
    BY <2>1 DEF Reached, Passed
  <2>6. Seen' = Seen \cup {<<rg, p>>} /\ <<rg, p>> \notin Seen
    BY <2>1, <2>2, <2>3, <2>4, <2>5, SeenMore
  <2>7. IsFiniteSet(Seen) /\ tables = Cardinality(Seen)
    BY <2>1 DEF CountInv
  <2>8. IsFiniteSet(Seen') /\ Cardinality(Seen') = Cardinality(Seen) + 1
    BY <2>6, <2>7, FS_AddElement
  <2>9. QED
    BY <2>1, <2>7, <2>8 DEF CountInv
<1>5. CASE Record
  <2>1. /\ phase = "record" /\ UNCHANGED <<mem, alive, source, rg, tables>>
        /\ \/ phase' = "record" /\ p' = p
           \/ phase' = "scan" /\ p' = p + N
        /\ IsTable(rg, p)
    BY <1>5 DEF Record, ScanInv
  <2>2. ASSUME NEW r \in 1..Len(mem), NEW q \in 1..Len(mem[r]), IsTable(r, q)
        PROVE  Reached(r, q)' <=> Reached(r, q)
    <3>1. CASE phase' = "record" /\ p' = p
      BY <2>1, <3>1 DEF Reached, Passed
    <3>2. CASE phase' = "scan" /\ p' = p + N
      <4>1. r = rg /\ q > p => q >= p + N
        BY <1>1, <2>1, <2>2, NoOverlap
      <4>2. Passed(r, q)' <=> Passed(r, q) \/ (r = rg /\ q = p)
        BY <1>1, <2>1, <3>2, <4>1 DEF Passed
      <4>3. QED
        BY <2>1, <3>2, <4>2 DEF Reached
    <3>3. QED
      BY <2>1, <3>1, <3>2
  <2>3. Seen' = Seen
    BY <2>1, <2>2, SeenSame
  <2>4. QED
    BY <2>1, <2>3 DEF CountInv
<1>6. CASE NextRange
  <2>1. /\ phase = "scan" /\ rg \in 1..Len(mem) /\ ~(p + N - 1 <= Len(mem[rg])) /\ rg' = rg + 1 /\ p' = 1
        /\ UNCHANGED <<mem, alive, phase, source, tables>>
    BY <1>0, <1>1, <1>6 DEF NextRange, InRange, TypeOK
  <2>2. ASSUME NEW r \in 1..Len(mem), NEW q \in 1..Len(mem[r]), IsTable(r, q)
        PROVE  Reached(r, q)' <=> Reached(r, q)
    <3>1. r = rg => q < p
      <4>1. q + N - 1 <= Len(mem[r])
        BY <2>2 DEF IsTable
      <4>2. QED
        BY <1>1, <2>1, <4>1
    <3>2. Passed(r, q)' <=> Passed(r, q)
      BY <1>1, <2>1, <3>1 DEF Passed
    <3>3. QED
      BY <2>1, <3>2 DEF Reached
  <2>3. Seen' = Seen
    BY <2>1, <2>2, SeenSame
  <2>4. QED
    BY <2>1, <2>3 DEF CountInv
<1>7. CASE ScanEnd
  <2>1. /\ phase = "scan" /\ rg > Len(mem) /\ UNCHANGED <<mem, alive, rg, tables>>
        /\ \/ phase' = "file"
           \/ phase' = "loaded"
    BY <1>7 DEF ScanEnd, scanVars
  <2>2. Seen = Tables
    <3>1. ASSUME NEW t \in Tables PROVE Reached(t[1], t[2])
      <4>1. PICK r \in 1..Len(mem) : \E q \in 1..Len(mem[r]) : t = <<r, q>>
        BY TablesPairs
      <4>2. QED
        BY <1>1, <2>1, <4>1 DEF Reached, Passed
    <3>2. QED
      BY <3>1 DEF Seen
  <2>3. alive => tables = Cardinality(Tables)
    BY <2>1, <2>2 DEF CountInv
  <2>4. Tables' = Tables
    BY <2>1, TablesFixed
  <2>5. QED
    BY <2>1, <2>3, <2>4 DEF CountInv
<1>8. CASE ReadFile
  <2>1. phase' = "fatal" \/ (phase' = "loaded" /\ source' = "file")
    BY <1>8 DEF ReadFile
  <2>2. QED
    BY <2>1 DEF CountInv
<1>9. CASE CheckOffsets
  <2>1. /\ phase = "loaded" /\ ((phase' = "attach" /\ alive) \/ phase' = "fatal")
        /\ UNCHANGED <<mem, alive, source, rg, tables>>
    BY <1>9 DEF CheckOffsets, scanVars
  <2>2. Tables' = Tables
    BY <2>1, TablesFixed
  <2>3. QED
    BY <2>1, <2>2 DEF CountInv
<1>10. CASE Exit \/ UNCHANGED vars
  <2>1. UNCHANGED <<mem, phase, source, rg, p, tables>> /\ (alive' => alive)
    BY <1>10 DEF Exit, vars, scanVars
  <2>2. Tables' = Tables
    BY <2>1, TablesFixed
  <2>3. Seen' = Seen
    BY <2>1, SeenSame DEF Reached, Passed
  <2>4. QED
    BY <2>1, <2>2, <2>3 DEF CountInv
<1>11. QED
  BY <1>2, <1>3, <1>4, <1>5, <1>6, <1>7, <1>8, <1>9, <1>10 DEF Next, Resolve, Scan

(* `auto-offsets: %d candidate table(s)' counts each table of the data     *)
(* segments once: jumping over a table that was found (offsetsFromScan)    *)
(* never misses the next one and never meets the same again.               *)
THEOREM EachTableCounted == Spec => []TablesCounted
<1>1. Init => CountInv
  BY DEF Init, CountInv
<1>2. ScanInv /\ CountInv /\ [Next]_vars => CountInv'
  BY CountStep
<1>3. CountInv => TablesCounted
  BY DEF CountInv, TablesCounted, Tables
<1>4. QED
  BY <1>1, <1>2, <1>3, ScanInvariant, PTL DEF Spec
=============================================================================
