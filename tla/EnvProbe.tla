------------------------------ MODULE EnvProbe ------------------------------
(***************************************************************************)
(* `jniprobe env': the probes of bpf/envprobe.bpf.c on two functions of    *)
(* libart that get a JNIEnv, in every process of the system, the loop of   *)
(* runEnv (loader/env.go) that takes the first dump that looks like a JNI  *)
(* table and writes it to a file, and what a later trace makes of that     *)
(* file (offsetsFromFile, loader/offsets.go).                              *)
(*                                                                         *)
(* A candidate is what a register may hold.  Words says what is in memory  *)
(* from the address on that the candidate points to; a candidate without   *)
(* Words fails the checks that precede a dump.  A dump is longer than the  *)
(* table: envSlots words against the N of the schema.                      *)
(***************************************************************************)
EXTENDS Integers, Sequences, FiniteSets

CONSTANTS
  Threads, Pids, PidOf,  \* PidOf: thread -> its process
  LnlArgs, CntArgs,      \* <<x0, x1>>, as the two functions may be called
  Env,                   \* the candidates that are a JNIEnv
  Words,                 \* candidate -> 0..envSlots-1 -> word
  Losses,                \* sets of slots that one dump may fail to read
  N, envSlots,           \* 233 and 240
  ExecLo, ExecHi, Base,  \* libart, at the same place in every process
  RingCap, SeenCap,      \* capacities of events and seen
  MaxCalls               \* bound of the model

(* What the probes rely on: LoadNativeLibrary is a member and has its      *)
(* JNIEnv in x1, CreateNativeThread is static and has it in x0.            *)
ASSUME EnvAssumption ==
  /\ PidOf \in [Threads -> Pids]
  /\ \A x \in LnlArgs : x[2] \in Env
  /\ \A x \in CntArgs : x[1] \in Env
  /\ N \in Nat /\ envSlots \in Nat /\ N <= envSlots
  /\ Env \subseteq DOMAIN Words
  /\ \A c \in DOMAIN Words : Words[c] \in [0..(envSlots - 1) -> Nat]
  /\ Losses \subseteq SUBSET (0..(envSlots - 1))
  /\ ExecLo \in Nat \ {0} /\ ExecHi \in Nat /\ Base \in 0..ExecLo
  /\ RingCap \in Nat \ {0} /\ SeenCap \in Nat /\ MaxCalls \in Nat

VARIABLES
  phase,   \* runEnv: "lnl" and "cnt" (attaching), "open", "read", "written", "loaded"
  sites,   \* the functions that have a probe
  todo,    \* per thread, the candidates its probe has yet to emit
  marking, \* threads whose probe has yet to update seen
  seen,    \* the processes in the map
  ring,    \* the dumps not yet read
  live,    \* the processes that have not exited
  file,    \* the entries <<slot, offset>> of jni_offsets.json
  out,     \* offset -> slot, as a trace loads the file
  ncalls,
  from,    \* ghost: the candidate the file came from, and the slots not read
  missed   \* ghost: whether a JNIEnv was at hand and left no dump that looks right

probeVars == <<todo, marking, seen>>
vars == <<phase, sites, probeVars, ring, live, file, out, ncalls, from, missed>>

Slot == 0..(envSlots - 1)

InExec(v) == v >= ExecLo /\ v < ExecHi

(* What runEnv goes by: the share of words that point into the code.       *)
Hits(d) == {i \in Slot : InExec(d.slots[i])}

LooksRight(d) == 2 * Cardinality(Hits(d)) >= envSlots

Cands == {x[1] : x \in LnlArgs \cup CntArgs} \cup {x[2] : x \in LnlArgs \cup CntArgs}

Dump == [pid: Pids, cand: DOMAIN Words, lost: SUBSET Slot, slots: [Slot -> Nat]]

(* Everything keeps its type, and no more dumps are in the ring buffer     *)
(* than fit.                                                               *)
TypeOK ==
  /\ phase \in {"lnl", "cnt", "open", "read", "written", "loaded"}
  /\ sites \subseteq {"lnl", "cnt"}
  /\ todo \in [Threads -> Seq(Cands)]
  /\ marking \subseteq Threads /\ seen \subseteq Pids /\ live \subseteq Pids
  /\ ring \in Seq(Dump) /\ Len(ring) <= RingCap
  /\ file \subseteq Slot \X Nat /\ from \in Seq([cand: DOMAIN Words, lost: SUBSET Slot])
  /\ \A o \in DOMAIN out : out[o] \in Slot
  /\ ncalls \in 0..MaxCalls /\ missed \in BOOLEAN

Init ==
  /\ phase = "lnl" /\ sites = {}
  /\ todo = [t \in Threads |-> << >>] /\ marking = {} /\ seen = {}
  /\ ring = << >> /\ live = Pids
  /\ file = {} /\ out = [o \in {} |-> 0]
  /\ ncalls = 0 /\ from = << >> /\ missed = FALSE

-----------------------------------------------------------------------------
(* Attaching: without up_lnl the program ends, without up_cnt it goes on.  *)
AttachLnl ==
  /\ phase = "lnl"
  /\ phase' = "cnt" /\ sites' = {"lnl"}
  /\ UNCHANGED <<probeVars, ring, live, file, out, ncalls, from, missed>>

AttachCnt ==
  /\ phase = "cnt"
  /\ phase' = "open"
  /\ sites' \in {sites, sites \cup {"cnt"}}
  /\ UNCHANGED <<probeVars, ring, live, file, out, ncalls, from, missed>>

OpenReader ==
  /\ phase = "open"
  /\ phase' = "read"
  /\ UNCHANGED <<sites, probeVars, ring, live, file, out, ncalls, from, missed>>

-----------------------------------------------------------------------------
(* A thread enters a probed function: nothing, if its process is in seen,  *)
(* or two candidates to emit and the process to mark.                      *)
Enter(t, site, cands) ==
  /\ site \in sites /\ PidOf[t] \in live /\ t \notin marking
  /\ ncalls < MaxCalls
  /\ ncalls' = ncalls + 1
  /\ IF PidOf[t] \in seen
       THEN UNCHANGED <<todo, marking>>
       ELSE todo' = [todo EXCEPT ![t] = cands] /\ marking' = marking \cup {t}
  /\ UNCHANGED <<phase, sites, seen, ring, live, file, out, from, missed>>

(* A mutant: `this' before the JNIEnv.                                     *)
up_lnl_this(t) == \E x \in LnlArgs : Enter(t, "lnl", <<x[1], x[2]>>)

(* A member function: x0 is `this', x1 the JNIEnv, which comes first.      *)
up_lnl(t) == \E x \in LnlArgs : Enter(t, "lnl", <<x[2], x[1]>>)

(* A static function: x0 is the JNIEnv.                                    *)
up_cnt(t) == \E x \in CntArgs : Enter(t, "cnt", <<x[1], x[2]>>)

Emitted(t) == todo' = [todo EXCEPT ![t] = Tail(@)]

(* A mutant: room for one dump too many.                                   *)
RingFullLate == Len(ring) > RingCap

RingFull == Len(ring) >= RingCap

(* emit: no dump of a candidate that fails the checks, whose words cannot  *)
(* be read, or for which there is no room.                                 *)
emit_nothing(t) ==
  /\ todo[t] # << >>
  /\ Emitted(t)
  /\ missed' = (missed \/ Head(todo[t]) \in Env)
  /\ UNCHANGED <<phase, sites, marking, seen, ring, live, file, out, ncalls, from>>

DumpOf(t, c, l) ==
  [pid |-> PidOf[t], cand |-> c, lost |-> l,
   slots |-> [i \in Slot |-> IF i \in l THEN 0 ELSE Words[c][i]]]

(* The reads of single slots may fail, and leave 0.  The reader waits for  *)
(* a reserved dump to be submitted, so that emit can be one step.          *)
emit(t) ==
  LET c == Head(todo[t]) IN
  /\ todo[t] # << >>
  /\ c \in DOMAIN Words
  /\ ~RingFull
  /\ \E l \in Losses :
       /\ ring' = Append(ring, DumpOf(t, c, l))
       /\ missed' = (missed \/ (c \in Env /\ ~LooksRight(DumpOf(t, c, l))))
  /\ Emitted(t)
  /\ UNCHANGED <<phase, sites, marking, seen, live, file, out, ncalls, from>>

(* bpf_map_update_elem(&seen), whose failure is not looked at.             *)
MarkSeen(t) ==
  /\ t \in marking /\ todo[t] = << >>
  /\ marking' = marking \ {t}
  /\ seen' = IF Cardinality(seen) < SeenCap THEN seen \cup {PidOf[t]} ELSE seen
  /\ UNCHANGED <<phase, sites, todo, ring, live, file, out, ncalls, from, missed>>

(* A process exits, when none of its threads is inside a probe.            *)
Exit(p) ==
  /\ p \in live
  /\ \A t \in marking : PidOf[t] # p
  /\ live' = live \ {p}
  /\ UNCHANGED <<phase, sites, probeVars, ring, file, out, ncalls, from, missed>>

-----------------------------------------------------------------------------
(* A mutant: the loop ends at the dump of a process that is gone.          *)
SkipDumpAlways ==
  /\ phase = "read" /\ ring # << >>
  /\ Head(ring).pid \notin live \/ ~LooksRight(Head(ring))
  /\ ring' = Tail(ring)
  /\ phase' = IF Head(ring).pid \notin live THEN "written" ELSE phase
  /\ UNCHANGED <<sites, probeVars, live, file, out, ncalls, from, missed>>

(* libartBase fails for a process that is gone, or the dump has too few    *)
(* code pointers: `continue'.                                              *)
SkipDump ==
  /\ phase = "read" /\ ring # << >>
  /\ Head(ring).pid \notin live \/ ~LooksRight(Head(ring))
  /\ ring' = Tail(ring)
  /\ UNCHANGED <<phase, sites, probeVars, live, file, out, ncalls, from, missed>>

(* Every slot that points into the code is written, and the program ends.  *)
WriteFile ==
  LET d == Head(ring) IN
  /\ phase = "read" /\ ring # << >>
  /\ d.pid \in live /\ LooksRight(d)
  /\ file' = {<<i, d.slots[i] - Base>> : i \in Hits(d)}
  /\ from' = <<[cand |-> d.cand, lost |-> d.lost]>>
  /\ ring' = Tail(ring)
  /\ phase' = "written"
  /\ UNCHANGED <<sites, probeVars, live, out, ncalls, missed>>

(* A mutant: `slot > len(jniSchema)'.                                      *)
ValidOneMore == {e \in file : e[1] \in 0..N}

(* A trace reads the file: only slots of the schema count, and of two      *)
(* slots with one offset either may win.                                   *)
ValidEntries == {e \in file : e[1] \in 0..(N - 1)}

offsetsFromFile ==
  /\ phase = "written"
  /\ phase' = "loaded"
  /\ out' \in {g \in [{e[2] : e \in ValidEntries} -> 0..N] :
                 \A o \in DOMAIN g : <<g[o], o>> \in ValidEntries}
  /\ UNCHANGED <<sites, probeVars, ring, live, file, ncalls, from, missed>>

Loop == SkipDump \/ WriteFile

runEnv == AttachLnl \/ AttachCnt \/ OpenReader \/ Loop

Probe(t) == emit(t) \/ emit_nothing(t) \/ MarkSeen(t)

Next ==
  \/ runEnv \/ offsetsFromFile
  \/ \E t \in Threads : up_lnl(t) \/ up_cnt(t) \/ Probe(t)
  \/ \E p \in Pids : Exit(p)

Spec == Init /\ [][Next]_vars

(* runEnv is one goroutine that waits for dumps only.                      *)
FairSpec == Spec /\ WF_vars(runEnv)

-----------------------------------------------------------------------------
(* README.md: `capture the env table once'.  The file holds the table of a *)
(* JNIEnv, although `this' and the peer are dumped too and may look right: *)
(* of each call the JNIEnv is dumped first, in any interleaving of threads *)
(* and processes.  Something else gets through only if the dump of one was *)
(* lost, or too few of its slots could be read.                            *)
FileIsTable == \A i \in DOMAIN from : missed \/ from[i].cand \in Env

(* What a trace loads are the functions of the table under their own       *)
(* numbers: those the dump could read, and nothing of the words behind the *)
(* table that were dumped with it.                                         *)
LoadedIsTable ==
  phase = "loaded" /\ from # << >> =>
    LET w == Words[from[1].cand] IN
    /\ \A o \in DOMAIN out : out[o] < N /\ o = w[out[o]] - Base
    /\ \A i \in (0..(N - 1)) \ from[1].lost : InExec(w[i]) => (w[i] - Base) \in DOMAIN out

(* A dump that looks right is not waited for in vain: the file is written, *)
(* whatever dumps are in front of it, unless its process exits.            *)
DumpsEndInFile ==
  \A p \in Pids :
    (\E i \in DOMAIN ring : ring[i].pid = p /\ LooksRight(ring[i]))
      ~> (file # {} \/ p \notin live)
=============================================================================
