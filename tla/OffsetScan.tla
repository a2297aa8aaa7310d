----------------------------- MODULE OffsetScan -----------------------------
(***************************************************************************)
(* How runProbe (loader/trace.go) gets the offsets it will probe: the scan *)
(* of the target's memory for JNINativeInterface tables (offsetsFromScan), *)
(* the file it falls back to (offsetsFromFile), and the two checks before  *)
(* anything is attached.  The target runs, and may exit, all the while:    *)
(* from then on every read of its memory fails.                            *)
(*                                                                         *)
(* Memory is read in words of 8 bytes; a position is the number of a word  *)
(* in its range, from 1.                                                   *)
(***************************************************************************)
EXTENDS Integers, Sequences, FiniteSets

CONSTANTS
  Memories,   \* the data segments of libart: sequences of ranges of words
  Files,      \* contents of jni_offsets.json: sets of <<slot, offset>>, or NoFile
  NoFile,
  N,          \* len(jniSchema), the number of slots
  ExecLo, ExecHi, \* bounds of the executable segment of libart
  Base,       \* its load address
  WordSize,   \* 2^64: subtraction wraps around
  MinOffsets  \* fewer offsets than that (100) are not accepted

(* Four reserved slots and at least three functions; code is never at 0.   *)
ASSUME ScanAssumption ==
  /\ N \in Nat /\ N >= 7
  /\ ExecLo \in Nat \ {0} /\ ExecHi \in Nat
  /\ \A m \in Memories : m \in Seq(Seq(Nat))
  /\ Base \in Nat /\ WordSize \in Nat \ {0} /\ MinOffsets \in Nat

VARIABLES
  mem,    \* the memory of the target, which does not change
  file,   \* the content of the file
  alive,  \* whether the target still runs
  phase,  \* "start", "scan", "record", "file", "loaded", "attach" or "fatal"
  source, \* where the offsets came from: "none", "scan" or "file"
  rg, p,  \* range and position of the scan
  slot,   \* the slot that is recorded next
  tables, \* number of tables found
  out     \* offset -> slot

scanVars == <<rg, p, slot, tables>>
vars == <<mem, file, alive, phase, source, scanVars, out>>

InExec(v) == v >= ExecLo /\ v < ExecHi

IsTable(r, q) ==
  /\ q + N - 1 <= Len(mem[r])
  /\ \A i \in 0..3 : mem[r][q + i] = 0
  /\ \A i \in 4..(N - 1) : InExec(mem[r][q + i])

(* v - base, in unsigned arithmetic.                                       *)
Off(v) == (v - Base) % WordSize

Put(f, k, v) == [x \in DOMAIN f \cup {k} |-> IF x = k THEN v ELSE f[x]]

Phases == {"start", "scan", "record", "file", "loaded", "attach", "fatal"}

TypeOK ==
  /\ mem \in Memories /\ file \in Files
  /\ alive \in BOOLEAN /\ phase \in Phases /\ source \in {"none", "scan", "file"}
  /\ rg \in Nat \ {0} /\ p \in Nat \ {0} /\ slot \in 4..(N - 1) /\ tables \in Nat
  /\ \A o \in DOMAIN out : out[o] \in 0..(N - 1)

Init ==
  /\ mem \in Memories /\ file \in Files
  /\ alive = TRUE
  /\ phase = "start" /\ source = "none"
  /\ rg = 1 /\ p = 1 /\ slot = 4 /\ tables = 0
  /\ out = [o \in {} |-> 0]

(* The target exits, at any point.                                         *)
Exit ==
  /\ alive
  /\ alive' = FALSE
  /\ UNCHANGED <<mem, file, phase, source, scanVars, out>>

(* --offsets auto: read the maps and open the memory, which fails for a    *)
(* target that has exited; --offsets <path>: go to the file.               *)
Start ==
  /\ phase = "start"
  /\ \/ alive /\ phase' = "scan"
     \/ phase' = "file"
  /\ UNCHANGED <<mem, file, alive, source, scanVars, out>>

InRange == rg <= Len(mem) /\ p + N - 1 <= Len(mem[rg])

(* A mutant: `continue' without the increment.                             *)
StepNowhere ==
  /\ phase = "scan" /\ InRange
  /\ ~(alive /\ IsTable(rg, p))
  /\ UNCHANGED vars

(* No table at p, or a read failed: `continue'.                            *)
Step ==
  /\ phase = "scan" /\ InRange
  /\ ~(alive /\ IsTable(rg, p))
  /\ p' = p + 1
  /\ UNCHANGED <<mem, file, alive, phase, source, rg, slot, tables, out>>

FoundTable ==
  /\ phase = "scan" /\ InRange
  /\ alive /\ IsTable(rg, p)
  /\ phase' = "record"
  /\ slot' = 4
  /\ tables' = tables + 1
  /\ UNCHANGED <<mem, file, alive, source, rg, p, out>>

(* Mutants: one slot too many is read; the last slot is left out; one word *)
(* too many is skipped.                                                    *)
RecordBeyond ==
  /\ phase = "record"
  /\ out' = Put(out, Off(IF alive THEN mem[rg][p + slot] ELSE 0), slot)
  /\ IF slot <= N - 1
       THEN slot' = slot + 1 /\ UNCHANGED <<phase, p>>
       ELSE slot' = 4 /\ phase' = "scan" /\ p' = p + N
  /\ UNCHANGED <<mem, file, alive, source, rg, tables>>

RecordShort ==
  /\ phase = "record"
  /\ out' = Put(out, Off(IF alive THEN mem[rg][p + slot] ELSE 0), slot)
  /\ IF slot < N - 2
       THEN slot' = slot + 1 /\ UNCHANGED <<phase, p>>
       ELSE slot' = 4 /\ phase' = "scan" /\ p' = p + N
  /\ UNCHANGED <<mem, file, alive, source, rg, tables>>

RecordFar ==
  /\ phase = "record"
  /\ out' = Put(out, Off(IF alive THEN mem[rg][p + slot] ELSE 0), slot)
  /\ IF slot < N - 1
       THEN slot' = slot + 1 /\ UNCHANGED <<phase, p>>
       ELSE slot' = 4 /\ phase' = "scan" /\ p' = p + N + 1
  /\ UNCHANGED <<mem, file, alive, source, rg, tables>>

(* The second read of slot number `slot', whose failure is not looked at:  *)
(* it leaves 0.  After the last slot the scan goes on behind the table.    *)
Record ==
  /\ phase = "record"
  /\ out' = Put(out, Off(IF alive THEN mem[rg][p + slot] ELSE 0), slot)
  /\ IF slot < N - 1
       THEN slot' = slot + 1 /\ UNCHANGED <<phase, p>>
       ELSE slot' = 4 /\ phase' = "scan" /\ p' = p + N
  /\ UNCHANGED <<mem, file, alive, source, rg, tables>>

NextRange ==
  /\ phase = "scan" /\ rg <= Len(mem) /\ ~InRange
  /\ rg' = rg + 1 /\ p' = 1
  /\ UNCHANGED <<mem, file, alive, phase, source, slot, tables, out>>

(* Without a single offset the scan has failed and the file is tried.      *)
ScanEnd ==
  /\ phase = "scan" /\ rg > Len(mem)
  /\ IF DOMAIN out = {}
       THEN phase' = "file" /\ UNCHANGED source
       ELSE phase' = "loaded" /\ source' = "scan"
  /\ UNCHANGED <<mem, file, alive, scanVars, out>>

(* The file maps slots to offsets.  Slots that the schema does not have    *)
(* are dropped, and of two slots with the same offset the one that comes   *)
(* last in the random order of the Go map wins.                            *)
ValidEntries == {e \in file : e[1] \in 0..(N - 1)}

ReadFile ==
  /\ phase = "file"
  /\ \/ /\ file = NoFile
        /\ phase' = "fatal"
        /\ UNCHANGED <<source, out>>
     \/ /\ file # NoFile
        /\ out' \in {f \in [{e[2] : e \in ValidEntries} -> 0..(N - 1)] :
                       \A o \in DOMAIN f : <<f[o], o>> \in ValidEntries}
        /\ phase' = "loaded" /\ source' = "file"
  /\ UNCHANGED <<mem, file, alive, scanVars>>

(* A mutant: the base is not looked up again.                              *)
CheckCount ==
  /\ phase = "loaded"
  /\ phase' = IF Cardinality(DOMAIN out) < MinOffsets THEN "fatal" ELSE "attach"
  /\ UNCHANGED <<mem, file, alive, source, scanVars, out>>

(* Too few offsets, or libart no longer mapped: give up.                   *)
CheckOffsets ==
  /\ phase = "loaded"
  /\ phase' = IF Cardinality(DOMAIN out) < MinOffsets \/ ~alive THEN "fatal" ELSE "attach"
  /\ UNCHANGED <<mem, file, alive, source, scanVars, out>>

Scan == Step \/ FoundTable \/ Record \/ NextRange \/ ScanEnd

Resolve == Start \/ Scan \/ ReadFile \/ CheckOffsets

Next == Exit \/ Resolve

Spec == Init /\ [][Next]_vars

(* All of it is one goroutine that waits for nothing.                      *)
FairSpec == Spec /\ WF_vars(Resolve)

-----------------------------------------------------------------------------
(* What README.md promises of the scan: `union all candidates'.  Once      *)
(* probes are attached to scanned offsets, every function of every table   *)
(* in the ranges has one, although the scan jumps over each table it finds.*)
EveryTableProbed ==
  phase = "attach" /\ source = "scan" =>
    \A r \in 1..Len(mem) : \A q \in 1..Len(mem[r]) : IsTable(r, q) =>
      \A i \in 4..(N - 1) : Off(mem[r][q + i]) \in DOMAIN out

(* And nothing else has one, although the target may have exited between   *)
(* the two reads of a slot; the slot is its index in one of the tables.    *)
OnlyTablesProbed ==
  phase = "attach" /\ source = "scan" =>
    \A o \in DOMAIN out : \E r \in 1..Len(mem) : \E q \in 1..Len(mem[r]) :
      IsTable(r, q) /\ out[o] \in 4..(N - 1) /\ o = Off(mem[r][q + out[o]])

(* `auto-offsets: %d candidate table(s)' counts each table once.           *)
TablesCounted ==
  phase = "attach" /\ source = "scan" =>
    tables = Cardinality(UNION {{<<r, q>> : q \in {x \in 1..Len(mem[r]) : IsTable(r, x)}} :
                                  r \in 1..Len(mem)})

(* The offsets are found or given up: the scan terminates.                 *)
Resolves == <>(phase \in {"attach", "fatal"})
=============================================================================
