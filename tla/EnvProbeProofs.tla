--------------------------- MODULE EnvProbeProofs ---------------------------
(***************************************************************************)
(* Proofs about EnvProbe, for any processes, threads, calls, contents of   *)
(* memory, capacities and lost reads.                                      *)
(***************************************************************************)
EXTENDS EnvProbe, SequenceTheorems, TLAPS

Early == phase \in {"lnl", "cnt", "open", "read"}

(* A dump has the words of its candidate, less those that were not read.   *)
Faithful(d) == d.slots = [i \in Slot |-> IF i \in d.lost THEN 0 ELSE Words[d.cand][i]]

(* A dump at which the loop ends if process p is alive then, and rightly.  *)
Good(d, p) == d.pid = p /\ d.cand \in Env /\ LooksRight(d)

(* A thread with something to emit is inside its probe, and a process does *)
(* not exit meanwhile.                                                     *)
ProbeInv ==
  /\ \A t \in Threads : todo[t] # << >> => t \in marking
  /\ \A t \in marking : PidOf[t] \in live

RingInv == \A j \in 1..Len(ring) : Faithful(ring[j])

(* The order of the dumps.  Unless a JNIEnv was missed, every other dump   *)
(* of a process that lives has a good one of that process before it, and a *)
(* thread that is still to emit one has its JNIEnv to emit first, or left  *)
(* a good dump that the loop has not passed.                               *)
OrderInv ==
  ~missed /\ Early =>
    /\ \A j \in 1..Len(ring) :
         ring[j].cand \in Env \/ ring[j].pid \notin live \/ \E i \in 1..(j - 1) : Good(ring[i], ring[j].pid)
    /\ \A t \in Threads :
         \/ todo[t] = << >>
         \/ Len(todo[t]) = 2 /\ Head(todo[t]) \in Env
         \/ Len(todo[t]) = 1 /\ \E i \in 1..Len(ring) : Good(ring[i], PidOf[t])

(* The file that a dump of candidate c without the slots l ends in.        *)
FileOf(c, l) == {<<i, Words[c][i] - Base>> : i \in {j \in Slot \ l : InExec(Words[c][j])}}

FileInv ==
  /\ Early => from = << >>
  /\ ~Early => Len(from) = 1 /\ file = FileOf(from[1].cand, from[1].lost)

OutInv ==
  phase = "loaded" =>
    /\ DOMAIN out = {e[2] : e \in ValidEntries}
    /\ \A o \in DOMAIN out : <<out[o], o>> \in ValidEntries

EnvInv == TypeOK /\ ProbeInv /\ RingInv /\ OrderInv /\ FileInv /\ OutInv /\ FileIsTable

-----------------------------------------------------------------------------
(* The dump of a candidate has its type and is faithful.                   *)
LEMMA DumpType ==
  ASSUME NEW t \in Threads, NEW c \in DOMAIN Words, NEW l \in Losses
  PROVE  /\ DumpOf(t, c, l) \in Dump /\ Faithful(DumpOf(t, c, l))
         /\ DumpOf(t, c, l).pid = PidOf[t] /\ DumpOf(t, c, l).cand = c
<1>1. PidOf[t] \in Pids /\ l \in SUBSET Slot
  BY EnvAssumption DEF Slot
<1>2. Words[c] \in [Slot -> Nat]
  BY EnvAssumption DEF Slot
<1>3. [i \in Slot |-> IF i \in l THEN 0 ELSE Words[c][i]] \in [Slot -> Nat]
  BY <1>2
<1>4. QED
  BY <1>1, <1>3 DEF DumpOf, Dump, Faithful

(* The lengths of sequences are numbers.                                   *)
LEMMA SeqFacts ==
  ASSUME TypeOK
  PROVE  /\ ring \in Seq(Dump) /\ Len(ring) \in Nat
         /\ \A j \in 1..Len(ring) : ring[j] \in Dump
         /\ \A t \in Threads : todo[t] \in Seq(Cands) /\ Len(todo[t]) \in Nat
         /\ from = << >> \/ Len(from) \in Nat \ {0}
<1>1. ring \in Seq(Dump) /\ todo \in [Threads -> Seq(Cands)]
      /\ from \in Seq([cand: DOMAIN Words, lost: SUBSET Slot])
  BY DEF TypeOK
<1>2. \A j \in 1..Len(ring) : ring[j] \in Dump
  BY <1>1, ElementOfSeq
<1>3. \A t \in Threads : todo[t] \in Seq(Cands) /\ Len(todo[t]) \in Nat
  BY <1>1, LenProperties
<1>4. from = << >> \/ Len(from) \in Nat \ {0}
  BY <1>1, EmptySeq
<1>5. Len(ring) \in Nat
  BY <1>1, LenProperties
<1>6. QED
  BY <1>1, <1>2, <1>3, <1>4, <1>5

(* A sequence of length 0 is empty.                                        *)
LEMMA NothingIn ==
  ASSUME NEW S, NEW s \in Seq(S), Len(s) = 0
  PROVE  s = << >>
  BY EmptySeq

(* Taking the first candidate off the list of a thread.                    *)
LEMMA EmittedFacts ==
  ASSUME TypeOK, NEW t \in Threads, todo[t] # << >>, Emitted(t)
  PROVE  /\ todo' \in [Threads -> Seq(Cands)]
         /\ \A u \in Threads \ {t} : todo'[u] = todo[u]
         /\ Len(todo'[t]) = Len(todo[t]) - 1
         /\ Len(todo[t]) = 1 => todo'[t] = << >>
<1>1. todo \in [Threads -> Seq(Cands)]
  BY DEF TypeOK
<1>2. Tail(todo[t]) \in Seq(Cands) /\ Len(Tail(todo[t])) = Len(todo[t]) - 1
  BY <1>1, HeadTailProperties
<1>3. todo' = [todo EXCEPT ![t] = Tail(todo[t])]
  BY DEF Emitted
<1>4. Len(todo[t]) = 1 => Tail(todo[t]) = << >>
  <2>1. Len(todo[t]) = 1 => Len(Tail(todo[t])) = 0
    BY <1>2
  <2>2. QED
    BY <1>2, <2>1, NothingIn
<1>5. QED
  BY <1>1, <1>2, <1>3, <1>4

(* Reading the first dump shifts the others.                               *)
LEMMA TailFacts ==
  ASSUME TypeOK, ring # << >>, ring' = Tail(ring)
  PROVE  /\ ring' \in Seq(Dump) /\ Len(ring') = Len(ring) - 1 /\ Len(ring) >= 1
         /\ \A j \in 1..Len(ring') : ring'[j] = ring[j + 1]
         /\ Head(ring) = ring[1]
<1>1. ring \in Seq(Dump) /\ Len(ring) \in Nat
  BY SeqFacts
<1>2. Len(ring) # 0
  BY <1>1, EmptySeq
<1>3. QED
  BY <1>1, <1>2, HeadTailProperties

-----------------------------------------------------------------------------
LEMMA InitEnv == Init => EnvInv
<1> SUFFICES ASSUME Init PROVE EnvInv
  OBVIOUS
<1>1. TypeOK
  <2>1. << >> \in Seq(Cands) /\ << >> \in Seq(Dump) /\ Len(<< >>) = 0
        /\ << >> \in Seq([cand: DOMAIN Words, lost: SUBSET Slot])
    BY EmptySeq
  <2>2. ncalls \in 0..MaxCalls /\ Len(ring) <= RingCap
    BY <2>1, EnvAssumption DEF Init
  <2>3. DOMAIN out = {}
    BY DEF Init
  <2>4. QED
    BY <2>1, <2>2, <2>3 DEF Init, TypeOK
<1>2. ProbeInv
  BY DEF Init, ProbeInv
<1>3. Len(ring) = 0 /\ RingInv
  BY EmptySeq DEF Init, RingInv
<1>4. OrderInv
  BY <1>3 DEF Init, OrderInv
<1>5. FileInv /\ OutInv /\ FileIsTable
  BY DEF Init, FileInv, OutInv, FileIsTable, Early
<1>6. QED
  BY <1>1, <1>2, <1>3, <1>4, <1>5 DEF EnvInv

(* The invariant speaks of some variables only.                            *)
LEMMA SameEnv ==
  ASSUME EnvInv, UNCHANGED <<phase, probeVars, ring, live, file, out, from, missed>>, TypeOK'
  PROVE  EnvInv'
<1>1. ProbeInv' /\ RingInv' /\ OrderInv' /\ FileInv' /\ OutInv' /\ FileIsTable'
  BY DEF EnvInv, ProbeInv, RingInv, OrderInv, FileInv, OutInv, FileIsTable, Early, probeVars,
         ValidEntries
<1>2. QED
  BY <1>1 DEF EnvInv

LEMMA AttachEnv ==
  ASSUME EnvInv, AttachLnl \/ AttachCnt \/ OpenReader
  PROVE  EnvInv'
<1>1. TypeOK'
  BY DEF EnvInv, TypeOK, AttachLnl, AttachCnt, OpenReader, probeVars
<1>2. Early /\ Early' /\ phase' # "loaded" /\ UNCHANGED <<probeVars, ring, live, file, out, from, missed>>
  BY DEF AttachLnl, AttachCnt, OpenReader, Early
<1>3. ProbeInv' /\ RingInv' /\ OrderInv' /\ FileInv' /\ OutInv' /\ FileIsTable'
  BY <1>2 DEF EnvInv, ProbeInv, RingInv, OrderInv, FileInv, OutInv, FileIsTable, probeVars
<1>4. QED
  BY <1>1, <1>3 DEF EnvInv

LEMMA EnterEnv ==
  ASSUME EnvInv, NEW t \in Threads, NEW site, NEW a \in Cands, NEW b \in Cands, a \in Env,
         Enter(t, site, <<a, b>>)
  PROVE  EnvInv'
<1>0. TypeOK /\ ProbeInv /\ OrderInv
  BY DEF EnvInv
<1>1. <<a, b>> \in Seq(Cands) /\ Len(<<a, b>>) = 2 /\ Head(<<a, b>>) = a
  OBVIOUS
<1>2. CASE PidOf[t] \in seen
  <2>1. UNCHANGED <<phase, probeVars, ring, live, file, out, from, missed>>
    BY <1>2 DEF Enter, probeVars
  <2>2. TypeOK'
    BY <1>0, <1>2, EnvAssumption DEF Enter, TypeOK
  <2>3. QED
    BY <2>1, <2>2, SameEnv
<1>3. CASE PidOf[t] \notin seen
  <2>1. /\ todo' = [todo EXCEPT ![t] = <<a, b>>] /\ marking' = marking \cup {t}
        /\ PidOf[t] \in live /\ ncalls' \in 0..MaxCalls
        /\ UNCHANGED <<phase, sites, seen, ring, live, file, out, from, missed>>
    BY <1>0, <1>3, EnvAssumption DEF Enter, TypeOK
  <2>2. todo' \in [Threads -> Seq(Cands)] /\ todo'[t] = <<a, b>>
        /\ \A u \in Threads \ {t} : todo'[u] = todo[u]
    BY <1>0, <1>1, <2>1 DEF TypeOK
  <2>3. TypeOK'
    BY <1>0, <2>1, <2>2 DEF TypeOK
  <2>4. ProbeInv'
    BY <1>0, <2>1, <2>2 DEF ProbeInv
  <2>5. OrderInv'
    BY <1>0, <1>1, <2>1, <2>2 DEF OrderInv, Early
  <2>6. RingInv' /\ FileInv' /\ OutInv' /\ FileIsTable'
    BY <2>1 DEF EnvInv, RingInv, FileInv, OutInv, FileIsTable, Early, ValidEntries
  <2>7. QED
    BY <2>3, <2>4, <2>5, <2>6 DEF EnvInv
<1>4. QED
  BY <1>2, <1>3

LEMMA EmitNothingEnv ==
  ASSUME EnvInv, NEW t \in Threads, emit_nothing(t)
  PROVE  EnvInv'
<1>0. TypeOK /\ ProbeInv /\ OrderInv /\ FileIsTable
  BY DEF EnvInv
<1>1. /\ todo[t] # << >> /\ Emitted(t)
      /\ missed' = (missed \/ Head(todo[t]) \in Env)
      /\ UNCHANGED <<phase, sites, marking, seen, ring, live, file, out, ncalls, from>>
  BY DEF emit_nothing
<1>2. /\ todo' \in [Threads -> Seq(Cands)]
      /\ \A u \in Threads \ {t} : todo'[u] = todo[u]
      /\ Len(todo[t]) = 1 => todo'[t] = << >>
  BY <1>0, <1>1, EmittedFacts
<1>3. TypeOK'
  BY <1>0, <1>1, <1>2 DEF TypeOK
<1>4. ProbeInv'
  BY <1>0, <1>1, <1>2 DEF ProbeInv
<1>5. OrderInv'
  BY <1>0, <1>1, <1>2 DEF OrderInv, Early
<1>6. RingInv' /\ FileInv' /\ OutInv'
  BY <1>1 DEF EnvInv, RingInv, FileInv, OutInv, Early, ValidEntries
<1>7. FileIsTable'
  BY <1>0, <1>1 DEF FileIsTable
<1>8. QED
  BY <1>3, <1>4, <1>5, <1>6, <1>7 DEF EnvInv

LEMMA EmitEnv ==
  ASSUME EnvInv, NEW t \in Threads, emit(t)
  PROVE  EnvInv'
<1>0. TypeOK /\ ProbeInv /\ RingInv /\ OrderInv /\ FileIsTable
  BY DEF EnvInv
<1> DEFINE c == Head(todo[t])
<1>1. /\ todo[t] # << >> /\ Emitted(t) /\ c \in DOMAIN Words /\ Len(ring) < RingCap
      /\ UNCHANGED <<phase, sites, marking, seen, live, file, out, ncalls, from>>
  BY SeqFacts, <1>0, EnvAssumption DEF emit, RingFull
<1>2. PICK l \in Losses :
        /\ ring' = Append(ring, DumpOf(t, c, l))
        /\ missed' = (missed \/ (c \in Env /\ ~LooksRight(DumpOf(t, c, l))))
  BY DEF emit
<1> DEFINE d == DumpOf(t, c, l)
<1>3. d \in Dump /\ Faithful(d) /\ d.pid = PidOf[t] /\ d.cand = c
  BY <1>1, DumpType
<1> HIDE DEF c, d
<1>4. /\ ring' \in Seq(Dump) /\ Len(ring') = Len(ring) + 1 /\ Len(ring) \in Nat
      /\ \A j \in 1..Len(ring) : ring'[j] = ring[j]
      /\ ring'[Len(ring) + 1] = d
  BY <1>0, <1>2, <1>3, SeqFacts, AppendProperties DEF d
<1>5. /\ todo' \in [Threads -> Seq(Cands)]
      /\ \A u \in Threads \ {t} : todo'[u] = todo[u]
      /\ Len(todo'[t]) = Len(todo[t]) - 1
      /\ Len(todo[t]) = 1 => todo'[t] = << >>
  BY <1>0, <1>1, EmittedFacts
<1>6. TypeOK'
  <2>1. Len(ring') <= RingCap /\ missed' \in BOOLEAN
    BY <1>1, <1>2, <1>4, EnvAssumption
  <2>2. QED
    BY <1>0, <1>1, <1>4, <1>5, <2>1 DEF TypeOK
<1>7. ProbeInv'
  BY <1>0, <1>1, <1>5 DEF ProbeInv
<1>8. RingInv'
  <2>1. \A j \in 1..Len(ring') : j \in 1..Len(ring) \/ j = Len(ring) + 1
    BY <1>4
  <2>2. QED
    BY <1>0, <1>3, <1>4, <2>1 DEF RingInv, Faithful
<1>9. OrderInv'
  <2> SUFFICES ASSUME ~missed', Early'
               PROVE  OrderInv'
    BY DEF OrderInv
  <2>1. ~missed /\ Early /\ (c \in Env => LooksRight(d))
    BY <1>1, <1>2 DEF Early, d
  <2>2. c \in Env => Good(d, PidOf[t])
    BY <1>3, <2>1 DEF Good
  <2>3. ASSUME NEW j \in 1..Len(ring')
        PROVE  \/ ring'[j].cand \in Env \/ ring'[j].pid \notin live'
               \/ \E i \in 1..(j - 1) : Good(ring'[i], ring'[j].pid)
    <3>1. CASE j \in 1..Len(ring)
      <4>1. \A i \in 1..(j - 1) : ring'[i] = ring[i]
        BY <1>4, <3>1
      <4>2. ring'[j] = ring[j]
        BY <1>4, <3>1
      <4>3. QED
        BY <1>0, <1>1, <2>1, <3>1, <4>1, <4>2 DEF OrderInv
    <3>2. CASE j = Len(ring) + 1
      <4>1. ring'[j] = d
        BY <1>4, <3>2
      <4>2. c \in Env \/ \E i \in 1..Len(ring) : Good(ring[i], PidOf[t])
        BY <1>0, <1>1, <2>1 DEF OrderInv, c
      <4>3. QED
        BY <1>3, <1>4, <3>2, <4>1, <4>2
    <3>3. QED
      BY <1>4, <3>1, <3>2
  <2>4. ASSUME NEW u \in Threads
        PROVE  \/ todo'[u] = << >>
               \/ Len(todo'[u]) = 2 /\ Head(todo'[u]) \in Env
               \/ Len(todo'[u]) = 1 /\ \E i \in 1..Len(ring') : Good(ring'[i], PidOf[u])
    <3>1. (\E i \in 1..Len(ring) : Good(ring[i], PidOf[u])) => \E i \in 1..Len(ring') : Good(ring'[i], PidOf[u])
      <4>1. \A i \in 1..Len(ring) : i \in 1..Len(ring') /\ ring'[i] = ring[i]
        BY <1>4
      <4>2. QED
        BY <4>1
    <3>2. CASE u # t
      BY <1>0, <1>5, <2>1, <3>1, <3>2 DEF OrderInv
    <3>3. CASE u = t
      <4>1. Len(todo[t]) = 1 \/ (Len(todo[t]) = 2 /\ c \in Env)
        BY <1>0, <1>1, <2>1 DEF OrderInv, c
      <4>2. c \in Env => \E i \in 1..Len(ring') : Good(ring'[i], PidOf[t])
        <5>1. Len(ring) + 1 \in 1..Len(ring')
          BY <1>4
        <5>2. QED
          BY <1>4, <2>2, <5>1
      <4>3. CASE Len(todo[t]) = 1
        BY <1>5, <3>3, <4>3
      <4>4. CASE Len(todo[t]) = 2 /\ c \in Env
        <5>1. Len(todo'[t]) = 1
          BY <1>5, <4>4
        <5>2. QED
          BY <3>3, <4>2, <4>4, <5>1
      <4>5. QED
        BY <4>1, <4>3, <4>4
    <3>4. QED
      BY <3>2, <3>3
  <2>5. QED
    BY <2>3, <2>4 DEF OrderInv
<1>10. FileInv' /\ OutInv'
  BY <1>1 DEF EnvInv, FileInv, OutInv, Early, ValidEntries
<1>11. FileIsTable'
  BY <1>0, <1>1, <1>2 DEF FileIsTable
<1>12. QED
  BY <1>6, <1>7, <1>8, <1>9, <1>10, <1>11 DEF EnvInv

LEMMA MarkEnv ==
  ASSUME EnvInv, NEW t \in Threads, MarkSeen(t)
  PROVE  EnvInv'
<1>0. TypeOK /\ ProbeInv
  BY DEF EnvInv
<1>1. /\ todo[t] = << >> /\ marking' = marking \ {t} /\ seen' \subseteq seen \cup {PidOf[t]}
      /\ UNCHANGED <<phase, sites, todo, ring, live, file, out, ncalls, from, missed>>
  BY DEF MarkSeen
<1>2. TypeOK'
  BY <1>0, <1>1, EnvAssumption DEF TypeOK
<1>3. ProbeInv'
  BY <1>0, <1>1 DEF ProbeInv
<1>4. RingInv' /\ OrderInv' /\ FileInv' /\ OutInv' /\ FileIsTable'
  BY <1>1 DEF EnvInv, RingInv, OrderInv, FileInv, OutInv, FileIsTable, Early, ValidEntries
<1>5. QED
  BY <1>2, <1>3, <1>4 DEF EnvInv

LEMMA ExitEnv ==
  ASSUME EnvInv, NEW p \in Pids, Exit(p)
  PROVE  EnvInv'
<1>0. TypeOK /\ ProbeInv /\ OrderInv
  BY DEF EnvInv
<1>1. /\ live' = live \ {p} /\ \A t \in marking : PidOf[t] # p
      /\ UNCHANGED <<phase, sites, probeVars, ring, file, out, ncalls, from, missed>>
  BY DEF Exit
<1>2. TypeOK'
  BY <1>0, <1>1 DEF TypeOK, probeVars
<1>3. ProbeInv'
  BY <1>0, <1>1 DEF ProbeInv, probeVars
<1>4. OrderInv'
  BY <1>0, <1>1 DEF OrderInv, Early, probeVars
<1>5. RingInv' /\ FileInv' /\ OutInv' /\ FileIsTable'
  BY <1>1 DEF EnvInv, RingInv, FileInv, OutInv, FileIsTable, Early, ValidEntries
<1>6. QED
  BY <1>2, <1>3, <1>4, <1>5 DEF EnvInv

(* The loop never skips the good dump that a thread has left, so what is   *)
(* behind a skipped dump keeps its excuse.                                 *)
LEMMA SkipEnv ==
  ASSUME EnvInv, SkipDump
  PROVE  EnvInv'
<1>0. TypeOK /\ ProbeInv /\ RingInv /\ OrderInv
  BY DEF EnvInv
<1>1. /\ phase = "read" /\ ring # << >> /\ ring' = Tail(ring)
      /\ Head(ring).pid \notin live \/ ~LooksRight(Head(ring))
      /\ UNCHANGED <<phase, sites, probeVars, live, file, out, ncalls, from, missed>>
  BY DEF SkipDump
<1>2. /\ ring' \in Seq(Dump) /\ Len(ring') = Len(ring) - 1 /\ Len(ring) \in Nat /\ Len(ring) >= 1
      /\ \A j \in 1..Len(ring') : ring'[j] = ring[j + 1]
      /\ Head(ring) = ring[1]
  BY <1>0, <1>1, TailFacts, SeqFacts
<1>3. TypeOK'
  <2>1. Len(ring') <= RingCap
    BY <1>0, <1>2, EnvAssumption DEF TypeOK
  <2>2. QED
    BY <1>0, <1>1, <1>2, <2>1 DEF TypeOK, probeVars
<1>4. ProbeInv'
  BY <1>0, <1>1 DEF ProbeInv, probeVars
<1>5. RingInv'
  BY <1>0, <1>2 DEF RingInv
<1>6. \A p \in live : ~Good(ring[1], p)
  BY <1>1, <1>2 DEF Good
<1>7. OrderInv'
  <2> SUFFICES ASSUME ~missed, Early
               PROVE  OrderInv'
    BY <1>1 DEF OrderInv, Early
  <2>1. ASSUME NEW j \in 1..Len(ring')
        PROVE  \/ ring'[j].cand \in Env \/ ring'[j].pid \notin live'
               \/ \E i \in 1..(j - 1) : Good(ring'[i], ring'[j].pid)
    <3>1. j + 1 \in 1..Len(ring) /\ ring'[j] = ring[j + 1]
      BY <1>2
    <3>2. \/ ring[j + 1].cand \in Env \/ ring[j + 1].pid \notin live
          \/ \E i \in 1..((j + 1) - 1) : Good(ring[i], ring[j + 1].pid)
      BY <1>0, <3>1 DEF OrderInv
    <3>3. ASSUME NEW i \in 1..((j + 1) - 1), Good(ring[i], ring[j + 1].pid), ring[j + 1].pid \in live
          PROVE  \E k \in 1..(j - 1) : Good(ring'[k], ring'[j].pid)
      <4>1. i # 1
        BY <1>6, <3>3
      <4>2. i - 1 \in 1..(j - 1) /\ i - 1 \in 1..Len(ring') /\ (i - 1) + 1 = i
        BY <1>2, <4>1
      <4>3. ring'[i - 1] = ring[i]
        BY <1>2, <4>2
      <4>4. QED
        BY <3>1, <3>3, <4>2, <4>3
    <3>4. QED
      BY <1>1, <3>1, <3>2, <3>3
  <2>2. ASSUME NEW t \in Threads, Len(todo[t]) = 1, todo[t] # << >>,
               NEW i \in 1..Len(ring), Good(ring[i], PidOf[t])
        PROVE  \E k \in 1..Len(ring') : Good(ring'[k], PidOf[t])
    <3>1. PidOf[t] \in live
      BY <1>0, <2>2 DEF ProbeInv
    <3>2. i # 1
      BY <1>6, <2>2, <3>1
    <3>3. i - 1 \in 1..Len(ring') /\ (i - 1) + 1 = i
      BY <1>2, <3>2
    <3>4. ring'[i - 1] = ring[i]
      BY <1>2, <3>3
    <3>5. QED
      BY <2>2, <3>3, <3>4
  <2>3. \A t \in Threads :
          \/ todo[t] = << >>
          \/ Len(todo[t]) = 2 /\ Head(todo[t]) \in Env
          \/ Len(todo[t]) = 1 /\ \E i \in 1..Len(ring') : Good(ring'[i], PidOf[t])
    BY <1>0, <2>2 DEF OrderInv
  <2>4. QED
    BY <1>1, <2>1, <2>3 DEF OrderInv, probeVars
<1>8. FileInv' /\ OutInv' /\ FileIsTable'
  BY <1>1 DEF EnvInv, FileInv, OutInv, FileIsTable, Early, ValidEntries
<1>9. QED
  BY <1>3, <1>4, <1>5, <1>7, <1>8 DEF EnvInv

(* What the slots of a faithful dump make of the file.                     *)
LEMMA WrittenIsFileOf ==
  ASSUME NEW d \in Dump, Faithful(d)
  PROVE  /\ {<<i, d.slots[i] - Base>> : i \in Hits(d)} = FileOf(d.cand, d.lost)
         /\ FileOf(d.cand, d.lost) \subseteq Slot \X Nat
<1>1. /\ d.cand \in DOMAIN Words /\ d.lost \subseteq Slot
      /\ Words[d.cand] \in [Slot -> Nat]
      /\ \A i \in Slot : d.slots[i] = IF i \in d.lost THEN 0 ELSE Words[d.cand][i]
  BY EnvAssumption DEF Dump, Faithful, Slot
<1>2. ~InExec(0)
  BY EnvAssumption DEF InExec
<1>3. Hits(d) = {j \in Slot \ d.lost : InExec(Words[d.cand][j])}
  BY <1>1, <1>2 DEF Hits
<1>4. \A i \in Hits(d) : i \in Slot /\ d.slots[i] = Words[d.cand][i]
  BY <1>1, <1>3
<1>5. \A i \in Slot : InExec(Words[d.cand][i]) => Words[d.cand][i] - Base \in Nat
  BY <1>1, EnvAssumption DEF InExec
<1>6. {<<i, d.slots[i] - Base>> : i \in Hits(d)} = {<<i, Words[d.cand][i] - Base>> : i \in Hits(d)}
  BY <1>4
<1>7. QED
  BY <1>3, <1>5, <1>6 DEF FileOf

LEMMA WriteEnv ==
  ASSUME EnvInv, WriteFile
  PROVE  EnvInv'
<1>0. TypeOK /\ ProbeInv /\ RingInv /\ OrderInv
  BY DEF EnvInv
<1> DEFINE d == Head(ring)
<1>1. /\ phase = "read" /\ ring # << >> /\ ring' = Tail(ring)
      /\ d.pid \in live
      /\ file' = {<<i, d.slots[i] - Base>> : i \in Hits(d)}
      /\ from' = <<[cand |-> d.cand, lost |-> d.lost]>>
      /\ phase' = "written"
      /\ UNCHANGED <<sites, probeVars, live, out, ncalls, missed>>
  BY DEF WriteFile
<1>2. /\ ring' \in Seq(Dump) /\ Len(ring') = Len(ring) - 1 /\ Len(ring) \in Nat /\ Len(ring) >= 1
      /\ \A j \in 1..Len(ring') : ring'[j] = ring[j + 1]
      /\ d = ring[1]
  BY <1>0, <1>1, TailFacts, SeqFacts
<1> HIDE DEF d
<1>3. d \in Dump /\ Faithful(d)
  <2>1. 1 \in 1..Len(ring)
    BY <1>2
  <2>2. QED
    BY <1>0, <1>2, <2>1, SeqFacts DEF RingInv
<1>4. file' = FileOf(d.cand, d.lost) /\ file' \subseteq Slot \X Nat
  BY <1>1, <1>3, WrittenIsFileOf
<1>5. [cand |-> d.cand, lost |-> d.lost] \in [cand: DOMAIN Words, lost: SUBSET Slot]
  BY <1>3 DEF Dump
<1>6. from' \in Seq([cand: DOMAIN Words, lost: SUBSET Slot]) /\ Len(from') = 1
      /\ from'[1].cand = d.cand /\ from'[1].lost = d.lost /\ DOMAIN from' = {1}
  BY <1>1, <1>5
<1>7. TypeOK'
  <2>1. Len(ring') <= RingCap
    BY <1>0, <1>2, EnvAssumption DEF TypeOK
  <2>2. QED
    BY <1>0, <1>1, <1>2, <1>4, <1>6, <2>1 DEF TypeOK, probeVars
<1>8. ProbeInv' /\ RingInv'
  BY <1>0, <1>1, <1>2 DEF ProbeInv, RingInv, probeVars
<1>9. ~Early' /\ OrderInv' /\ FileInv' /\ OutInv'
  BY <1>1, <1>4, <1>6 DEF Early, OrderInv, FileInv, OutInv
<1>10. missed \/ d.cand \in Env
  <2>1. 1 \in 1..Len(ring) /\ ~(\E i \in 1..(1 - 1) : TRUE)
    BY <1>2
  <2>2. QED
    BY <1>0, <1>1, <1>2, <2>1 DEF OrderInv, Early
<1>11. FileIsTable'
  BY <1>1, <1>6, <1>10 DEF FileIsTable
<1>12. QED
  BY <1>7, <1>8, <1>9, <1>11 DEF EnvInv

LEMMA LoadEnv ==
  ASSUME EnvInv, offsetsFromFile
  PROVE  EnvInv'
<1>0. TypeOK
  BY DEF EnvInv
<1>1. /\ phase = "written" /\ phase' = "loaded"
      /\ DOMAIN out' = {e[2] : e \in ValidEntries}
      /\ \A o \in DOMAIN out' : <<out'[o], o>> \in ValidEntries
      /\ UNCHANGED <<sites, probeVars, ring, live, file, ncalls, from, missed>>
  BY DEF offsetsFromFile
<1>2. \A o \in DOMAIN out' : out'[o] \in Slot
  BY <1>0, <1>1 DEF TypeOK, ValidEntries
<1>3. TypeOK'
  BY <1>0, <1>1, <1>2 DEF TypeOK, probeVars
<1>4. OutInv'
  BY <1>1 DEF OutInv, ValidEntries
<1>5. ProbeInv' /\ RingInv' /\ OrderInv' /\ FileInv' /\ FileIsTable'
  BY <1>1 DEF EnvInv, ProbeInv, RingInv, OrderInv, FileInv, FileIsTable, Early, probeVars
<1>6. QED
  BY <1>3, <1>4, <1>5 DEF EnvInv

-----------------------------------------------------------------------------
LEMMA StepEnv == EnvInv /\ [Next]_vars => EnvInv'
<1> SUFFICES ASSUME EnvInv, [Next]_vars PROVE EnvInv'
  OBVIOUS
<1>1. CASE runEnv
  BY <1>1, AttachEnv, SkipEnv, WriteEnv DEF runEnv, Loop
<1>2. CASE offsetsFromFile
  BY <1>2, LoadEnv
<1>3. ASSUME NEW t \in Threads, up_lnl(t) PROVE EnvInv'
  <2>1. PICK x \in LnlArgs : Enter(t, "lnl", <<x[2], x[1]>>)
    BY <1>3 DEF up_lnl
  <2>2. x[2] \in Env /\ x[1] \in Cands /\ x[2] \in Cands
    BY EnvAssumption DEF Cands
  <2>3. QED
    BY <2>1, <2>2, EnterEnv
<1>4. ASSUME NEW t \in Threads, up_cnt(t) PROVE EnvInv'
  <2>1. PICK x \in CntArgs : Enter(t, "cnt", <<x[1], x[2]>>)
    BY <1>4 DEF up_cnt
  <2>2. x[1] \in Env /\ x[1] \in Cands /\ x[2] \in Cands
    BY EnvAssumption DEF Cands
  <2>3. QED
    BY <2>1, <2>2, EnterEnv
<1>5. ASSUME NEW t \in Threads, Probe(t) PROVE EnvInv'
  BY <1>5, EmitEnv, EmitNothingEnv, MarkEnv DEF Probe
<1>6. ASSUME NEW p \in Pids, Exit(p) PROVE EnvInv'
  BY <1>6, ExitEnv
<1>7. CASE UNCHANGED vars
  <2>1. TypeOK'
    BY <1>7 DEF EnvInv, TypeOK, vars, probeVars
  <2>2. QED
    BY <1>7, <2>1, SameEnv DEF vars
<1>8. QED
  BY <1>1, <1>2, <1>3, <1>4, <1>5, <1>6, <1>7 DEF Next

(* The invariant of `jniprobe env', which ties what the probes have yet to *)
(* emit to the order of the dumps that the loop of runEnv has yet to read. *)
THEOREM EnvInvariant == Spec => []EnvInv
  BY InitEnv, StepEnv, PTL DEF Spec

(* Every reachable state of `jniprobe env' has its types.                  *)
THEOREM EnvTypeCorrect == Spec => []TypeOK
<1>1. EnvInv => TypeOK
  BY DEF EnvInv
<1>2. QED
  BY <1>1, EnvInvariant, PTL

(* The file that runEnv writes holds the table of a JNIEnv, in whichever   *)
(* order processes and threads are probed, unless a JNIEnv was missed.     *)
THEOREM FileFromEnv == Spec => []FileIsTable
<1>1. EnvInv => FileIsTable
  BY DEF EnvInv
<1>2. QED
  BY <1>1, EnvInvariant, PTL

LEMMA InvLoaded == EnvInv => LoadedIsTable
<1> SUFFICES ASSUME EnvInv, phase = "loaded" PROVE
      LET w == Words[from[1].cand] IN
      /\ \A o \in DOMAIN out : out[o] < N /\ o = w[out[o]] - Base
      /\ \A i \in (0..(N - 1)) \ from[1].lost : InExec(w[i]) => (w[i] - Base) \in DOMAIN out
  BY DEF LoadedIsTable
<1> DEFINE w == Words[from[1].cand]
<1>1. file = {<<i, w[i] - Base>> : i \in {j \in Slot \ from[1].lost : InExec(w[j])}}
  BY DEF EnvInv, FileInv, FileOf, Early
<1>2. /\ DOMAIN out = {e[2] : e \in ValidEntries}
      /\ \A o \in DOMAIN out : <<out[o], o>> \in ValidEntries
  BY DEF EnvInv, OutInv
<1> HIDE DEF w
<1>3. \A o \in DOMAIN out : out[o] < N /\ o = w[out[o]] - Base
  <2> SUFFICES ASSUME NEW o \in DOMAIN out PROVE out[o] < N /\ o = w[out[o]] - Base
    OBVIOUS
  <2>1. <<out[o], o>> \in file /\ out[o] \in 0..(N - 1)
    BY <1>2 DEF ValidEntries
  <2>2. PICK i \in Slot : <<out[o], o>> = <<i, w[i] - Base>>
    BY <1>1, <2>1
  <2>3. out[o] = i /\ o = w[i] - Base
    BY <2>2
  <2>4. QED
    BY <2>1, <2>3, EnvAssumption
<1>4. ASSUME NEW i \in (0..(N - 1)) \ from[1].lost, InExec(w[i])
      PROVE  (w[i] - Base) \in DOMAIN out
  <2>1. i \in Slot
    BY EnvAssumption DEF Slot
  <2>2. <<i, w[i] - Base>> \in ValidEntries
    BY <1>1, <1>4, <2>1 DEF ValidEntries
  <2>3. QED
    BY <1>2, <2>2
<1>5. QED
  BY <1>3, <1>4 DEF w

(* What a trace loads from the file is the part of the table that the dump *)
(* could read, each function under its own number, and nothing else.       *)
THEOREM LoadedFromTable == Spec => []LoadedIsTable
  BY InvLoaded, EnvInvariant, PTL
=============================================================================
