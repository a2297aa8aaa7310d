-------------------------- MODULE TraceLoopProofs --------------------------
(***************************************************************************)
(* Proofs about TraceLoop, for any threads, functions, filters, commands   *)
(* and numbers of calls.                                                   *)
(***************************************************************************)
EXTENDS TraceLoop, SequenceTheorems, FiniteSetTheorems, TLAPS

(* Where a call is: on the stack of its thread, or in a record at position *)
(* i of the ring buffer.                                                   *)
IsOpen(c) == \E t \in Threads : \E i \in 1..Len(open[t]) : open[t][i] = c

At(kind, c, i) == i \in 1..Len(queue) /\ queue[i].kind = kind /\ queue[i].call = c

Queued(kind, c) == \E i \in 1..Len(queue) : queue[i].kind = kind /\ queue[i].call = c

Present(c) == IsOpen(c) \/ Queued("entry", c) \/ Queued("return", c)

Tracked(c) == c.slot \in retSet

(* A call has its number for itself.                                       *)
IdInv ==
  /\ \A c \in Calls : Present(c) => c.id <= ncalls /\ (IF Tracked(c) THEN c.depth \in Nat ELSE c.depth = NoDepth)
  /\ \A c, d \in Calls : Present(c) /\ Present(d) /\ c.id = d.id => c = d

(* The stack of a thread has calls of that thread, each once; the depth of *)
(* a call is the number of those below it that have a return probe.        *)
Below(t, i) == {j \in 1..(i - 1) : Tracked(open[t][j])}

StackInv ==
  \A t \in Threads :
    /\ \A i \in 1..Len(open[t]) :
         /\ open[t][i].tid = t
         /\ Tracked(open[t][i]) => open[t][i].depth = Cardinality(Below(t, i))
    /\ \A i, j \in 1..Len(open[t]) : open[t][i] = open[t][j] => i = j

(* A call has one record of each kind, its entry first; a return record is *)
(* that of a tracked call that is not on the stack any more, and a tracked *)
(* call that is not on the stack has one.                                  *)
RecordInv ==
  /\ \A c \in Calls, i, j \in Nat, k \in {"entry", "return"} : At(k, c, i) /\ At(k, c, j) => i = j
  /\ \A c \in Calls, j \in Nat :
       At("return", c, j) =>
         /\ Tracked(c) /\ ~IsOpen(c)
         /\ \A i \in Nat : At("entry", c, i) => i < j
  /\ \A c \in Calls : Queued("entry", c) /\ Tracked(c) => IsOpen(c) \/ Queued("return", c)

(* Of two calls with one key the first has returned before the second is   *)
(* entered, and the loop has yet to read both records.                     *)
KeyInv ==
  \A c, d \in Calls :
    Present(c) /\ Present(d) /\ Tracked(c) /\ Tracked(d) /\ Key(c) = Key(d) /\ c.id < d.id =>
      \E i, j \in Nat : At("return", c, i) /\ At("entry", d, j) /\ i < j

(* FramesAreOpenCalls, call by call.                                       *)
Framed(c) == \E k \in DOMAIN frames : frames[k].call = c

FramesInv ==
  /\ \A k \in DOMAIN frames : Key(frames[k].call) = k
  /\ \A c \in Calls :
       Framed(c) <=> Tracked(c) /\ (IsOpen(c) \/ Queued("return", c)) /\ ~Queued("entry", c)

TargetInv == IdInv /\ StackInv /\ RecordInv /\ KeyInv

-----------------------------------------------------------------------------
(* What matchSlot and --max-depth say of a call.                           *)
Passes(g, c) == MatchSlot(g, c.slot) /\ ~TooDeep(c.depth)

(* A frame has no text or that of its own call.                            *)
TextInv ==
  \A k \in DOMAIN frames :
    \/ frames[k].text = frames[k].call.id
    \/ frames[k].text = NoText /\ frames[k].call.slot \in CallSlots

(* Between the two locks: the call has its frame still, respectively had   *)
(* it, and with no command since, the filters let it pass.                 *)
CurInv ==
  /\ pc = "entry" =>
       LET c == cur[1].call IN
       /\ c.id <= ncalls /\ ~Queued("entry", c)
       /\ Key(c) \in DOMAIN frames => frames[Key(c)].call = c
       /\ c.slot \in retSet \/ c.depth = NoDepth
       /\ \A r \in log : r.call # c
       /\ cur[1].since = ncmds => Passes(f, c)
  /\ pc = "return" =>
       LET c == cur[1].call IN
       /\ c.id <= ncalls /\ ~Queued("entry", c)
       /\ cur[1].frame.call = c /\ cur[1].frame.text = c.id
       /\ \A r \in log : r.call = c /\ r.kind = "entry" => r.until <= cur[1].since
       /\ cur[1].since = ncmds => Passes(f, c)

(* The log: the filters are those of the time, and the entry of a call is  *)
(* decided before its return is read.                                      *)
LogInv ==
  /\ \A r \in log : r.call.id <= ncalls /\ ~Queued("entry", r.call)
  /\ \A r \in log : r.since <= r.until /\ (r.until = ncmds => r.by = f)
  /\ \A r, s \in log : r.until = s.until => r.by = s.by
  /\ \A e, r \in log : e.call = r.call /\ e.kind = "entry" /\ r.kind = "return" => e.until <= r.since

(* A frame without a text is that of a call which matchSlot or --max-depth *)
(* has hidden.                                                             *)
HiddenInv ==
  \A k \in DOMAIN frames, e \in log :
    e.kind = "entry" /\ e.call = frames[k].call /\ frames[k].text = NoText =>
      e.since = e.until /\ ~Passes(e.by, e.call)

(* What is decided when no command comes in between.                       *)
ShownEntry(e) ==
  /\ Passes(e.by, e.call)
  /\ e.call.known \/ Verbose
  /\ MatchLine(e.by, e.call.slot, "name", CallWords[e.call.slot], e.call.mod)

ShownReturn(r) ==
  /\ Passes(r.by, r.call)
  /\ MatchLine(r.by, r.call.slot, "text", CallWords[r.call.slot] \cup RetWords[r.call.slot], r.call.mod)

DecisionInv ==
  /\ \A e \in log : e.kind = "entry" /\ e.since = e.until => (e.shown <=> ShownEntry(e))
  /\ \A e, r \in log :
       (/\ e.kind = "entry" /\ r.kind = "return" /\ e.call = r.call
        /\ e.since = e.until /\ e.until = r.until) => (r.shown <=> ShownReturn(r))

LoopInv == TextInv /\ CurInv /\ LogInv /\ HiddenInv /\ DecisionInv /\ ReturnShowsItsCall

TraceInv == TypeOK /\ TargetInv /\ FramesInv /\ LoopInv

-----------------------------------------------------------------------------
(* Lengths are numbers, elements have their types.                         *)
LEMMA SeqFacts ==
  ASSUME TypeOK
  PROVE  /\ Len(queue) \in Nat /\ queue \in Seq([kind: {"entry", "return"}, call: Calls])
         /\ \A i \in 1..Len(queue) : queue[i].call \in Calls /\ queue[i].kind \in {"entry", "return"}
         /\ \A t \in Threads : open[t] \in Seq(Calls) /\ Len(open[t]) \in Nat /\ DOMAIN open[t] = 1..Len(open[t])
         /\ \A t \in Threads : \A i \in 1..Len(open[t]) : open[t][i] \in Calls
         /\ ncalls \in Nat /\ ncmds \in Nat
<1>1. open \in [Threads -> Seq(Calls)] /\ queue \in Seq([kind: {"entry", "return"}, call: Calls])
  BY DEF TypeOK
<1>2. Len(queue) \in Nat
  BY <1>1, LenProperties
<1>3. \A i \in 1..Len(queue) : queue[i] \in [kind: {"entry", "return"}, call: Calls]
  BY <1>1, ElementOfSeq
<1>4. \A t \in Threads : open[t] \in Seq(Calls) /\ Len(open[t]) \in Nat /\ DOMAIN open[t] = 1..Len(open[t])
  BY <1>1, LenProperties
<1>5. \A t \in Threads : \A i \in 1..Len(open[t]) : open[t][i] \in Calls
  BY <1>4, ElementOfSeq
<1>6. ncalls \in Nat /\ ncmds \in Nat
  BY TraceAssumption DEF TypeOK
<1>7. QED
  BY <1>1, <1>2, <1>3, <1>4, <1>5, <1>6

LEMMA QueuedAt ==
  ASSUME TypeOK
  PROVE  \A kind, c : Queued(kind, c) <=> \E i \in Nat : At(kind, c, i)
  BY SeqFacts DEF Queued, At

(* Being somewhere is being a call.                                        *)
LEMMA PlaceTypes ==
  ASSUME TypeOK
  PROVE  /\ \A c : IsOpen(c) => c \in Calls
         /\ \A kind, c, i : At(kind, c, i) => c \in Calls /\ i \in Nat /\ i >= 1 /\ i <= Len(queue)
         /\ \A kind, c : Queued(kind, c) => c \in Calls
  BY SeqFacts DEF IsOpen, At, Queued

(* A record is put at the end of the ring buffer.                          *)
LEMMA AppendEffect ==
  ASSUME TypeOK, NEW kind \in {"entry", "return"}, NEW c \in Calls,
         queue' = Append(queue, [kind |-> kind, call |-> c])
  PROVE  /\ queue' \in Seq([kind: {"entry", "return"}, call: Calls])
         /\ \A k, d, i : At(k, d, i)' <=> At(k, d, i) \/ (k = kind /\ d = c /\ i = Len(queue) + 1)
         /\ \A k, d : Queued(k, d)' <=> Queued(k, d) \/ (k = kind /\ d = c)
<1>1. [kind |-> kind, call |-> c] \in [kind: {"entry", "return"}, call: Calls]
  OBVIOUS
<1>2. /\ queue' \in Seq([kind: {"entry", "return"}, call: Calls])
      /\ Len(queue') = Len(queue) + 1 /\ Len(queue) \in Nat
      /\ \A i \in 1..Len(queue) : queue'[i] = queue[i]
      /\ queue'[Len(queue) + 1] = [kind |-> kind, call |-> c]
  BY <1>1, SeqFacts, AppendProperties
<1>3. \A i : i \in 1..Len(queue') <=> i \in 1..Len(queue) \/ i = Len(queue) + 1
  BY <1>2
<1>4. \A k, d, i : At(k, d, i)' <=> At(k, d, i) \/ (k = kind /\ d = c /\ i = Len(queue) + 1)
  BY <1>2, <1>3 DEF At
<1>5. \A k, d : Queued(k, d)' <=> Queued(k, d) \/ (k = kind /\ d = c)
  BY <1>2, <1>3 DEF Queued
<1>6. QED
  BY <1>2, <1>4, <1>5

(* The first record is read.                                               *)
LEMMA ReadEffect ==
  ASSUME TypeOK, RecordInv, NEW kind, ReadRecord(kind)
  PROVE  /\ queue' \in Seq([kind: {"entry", "return"}, call: Calls])
         /\ Head(queue).call \in Calls /\ At(kind, Head(queue).call, 1) /\ kind \in {"entry", "return"}
         /\ \A k, d : \A i \in Nat : At(k, d, i)' <=> i >= 1 /\ At(k, d, i + 1)
         /\ \A k \in {"entry", "return"} : \A d : Queued(k, d)' <=> Queued(k, d) /\ ~(k = kind /\ d = Head(queue).call)
<1> DEFINE c == Head(queue).call
<1>1. queue # << >> /\ Head(queue).kind = kind /\ queue' = Tail(queue)
  BY DEF ReadRecord
<1>2. /\ queue' \in Seq([kind: {"entry", "return"}, call: Calls])
      /\ Len(queue) \in Nat /\ Len(queue') = Len(queue) - 1 /\ Len(queue) # 0
      /\ \A i \in 1..Len(queue') : queue'[i] = queue[i + 1]
      /\ Head(queue) = queue[1]
  BY <1>1, SeqFacts, HeadTailProperties, EmptySeq
<1>3. 1 \in 1..Len(queue)
  BY <1>2
<1>4. At(kind, c, 1) /\ c \in Calls /\ kind \in {"entry", "return"}
  BY <1>1, <1>2, <1>3, SeqFacts DEF At
<1>5. \A i \in Nat : i \in 1..Len(queue') <=> i >= 1 /\ i + 1 \in 1..Len(queue)
  BY <1>2
<1>6. \A k, d : \A i \in Nat : At(k, d, i)' <=> i >= 1 /\ At(k, d, i + 1)
  BY <1>2, <1>5 DEF At
<1>7. ASSUME NEW k \in {"entry", "return"}, NEW d
      PROVE  Queued(k, d)' <=> Queued(k, d) /\ ~(k = kind /\ d = c)
  <2>1. Queued(k, d)' <=> \E i \in Nat : i >= 1 /\ At(k, d, i + 1)
    <3>1. Queued(k, d)' <=> \E i \in Nat : At(k, d, i)'
      BY <1>2 DEF Queued, At
    <3>2. QED
      BY <1>6, <3>1
  <2>2. ASSUME NEW i \in Nat, i >= 1, At(k, d, i + 1)
        PROVE  Queued(k, d) /\ ~(k = kind /\ d = c)
    <3>1. d \in Calls /\ i + 1 \in Nat /\ i + 1 # 1
      BY <2>2, PlaceTypes
    <3>2. ~(k = kind /\ d = c)
      BY <1>4, <2>2, <3>1 DEF RecordInv
    <3>3. QED
      BY <2>2, <3>1, <3>2, QueuedAt
  <2>3. ASSUME Queued(k, d), ~(k = kind /\ d = c)
        PROVE  \E i \in Nat : i >= 1 /\ At(k, d, i + 1)
    <3>1. PICK i \in Nat : At(k, d, i)
      BY <2>3, QueuedAt
    <3>2. i >= 1
      BY <3>1, PlaceTypes
    <3>3. i # 1
      BY <1>1, <1>2, <2>3, <3>1 DEF At
    <3>4. i - 1 \in Nat /\ i - 1 >= 1 /\ (i - 1) + 1 = i
      BY <3>2, <3>3
    <3>5. At(k, d, (i - 1) + 1)
      BY <3>1, <3>4
    <3>6. QED
      BY <3>4, <3>5
  <2>4. QED
    BY <2>1, <2>2, <2>3
<1>8. QED
  BY <1>2, <1>4, <1>6, <1>7

-----------------------------------------------------------------------------
(* A call: the new record and what it does to the stack.                   *)
Opened(t) == {i \in 1..Len(open[t]) : Tracked(open[t][i])}

NewCall(t, s, mod, known) ==
  [id |-> ncalls + 1, tid |-> t, slot |-> s, mod |-> mod, known |-> known,
   depth |-> IF s \in retSet THEN Cardinality(Opened(t)) ELSE NoDepth]

LEMMA OpenedFinite ==
  ASSUME TypeOK, NEW t \in Threads
  PROVE  /\ IsFiniteSet(Opened(t)) /\ Cardinality(Opened(t)) \in Nat
         /\ \A i \in Opened(t) : Cardinality(Below(t, i)) < Cardinality(Opened(t))
<1>1. Len(open[t]) \in Nat
  BY SeqFacts
<1>2. IsFiniteSet(1..Len(open[t]))
  BY <1>1, FS_Interval
<1>3. IsFiniteSet(Opened(t))
  BY <1>2, FS_Subset DEF Opened
<1>4. ASSUME NEW i \in Opened(t)
      PROVE  Cardinality(Below(t, i)) < Cardinality(Opened(t))
  <2>1. Below(t, i) \subseteq Opened(t) /\ i \notin Below(t, i)
    BY <1>1 DEF Below, Opened
  <2>2. Below(t, i) # Opened(t)
    BY <2>1
  <2>3. IsFiniteSet(Below(t, i)) /\ Cardinality(Below(t, i)) <= Cardinality(Opened(t))
        /\ (Cardinality(Below(t, i)) = Cardinality(Opened(t)) => Below(t, i) = Opened(t))
    BY <1>3, <2>1, FS_Subset
  <2>4. QED
    BY <1>3, <2>2, <2>3, FS_CardinalityType
<1>5. QED
  BY <1>3, <1>4, FS_CardinalityType

LEMMA CallEffect ==
  ASSUME TypeOK, NEW t \in Threads, NEW s \in Slots, NEW mod \in Modules \cup {None},
         NEW known \in BOOLEAN, Call(t, s, mod, known)
  PROVE  LET c == NewCall(t, s, mod, known) IN
         /\ c \in Calls /\ ncalls' = ncalls + 1 /\ ncalls' \in 0..MaxCalls
         /\ open' = [open EXCEPT ![t] = Append(open[t], c)]
         /\ queue' = Append(queue, [kind |-> "entry", call |-> c])
         /\ UNCHANGED <<retSet, loopVars, reader, consoleVars>>
<1> DEFINE c == NewCall(t, s, mod, known)
<1>1. {i \in DOMAIN open[t] : open[t][i].slot \in retSet} = Opened(t)
  BY SeqFacts DEF Opened, Tracked
<1>2. /\ ncalls < MaxCalls /\ ncalls' = ncalls + 1
      /\ open' = [open EXCEPT ![t] = Append(open[t], c)]
      /\ queue' = Append(queue, [kind |-> "entry", call |-> c])
      /\ UNCHANGED <<retSet, loopVars, reader, consoleVars>>
  BY <1>1 DEF Call, NewCall
<1>3. ncalls + 1 \in 1..MaxCalls /\ ncalls' \in 0..MaxCalls
  BY <1>2, TraceAssumption DEF TypeOK
<1>4. c \in Calls
  BY <1>3, OpenedFinite DEF NewCall, Calls
<1>5. QED
  BY <1>2, <1>3, <1>4

(* A call goes on top of the stack of its thread.                          *)
LEMMA PushEffect ==
  ASSUME TypeOK, StackInv, NEW t \in Threads, NEW c \in Calls, UNCHANGED retSet, c.tid = t,
         open' = [open EXCEPT ![t] = Append(open[t], c)], ~IsOpen(c),
         Tracked(c) => c.depth = Cardinality(Opened(t))
  PROVE  /\ open' \in [Threads -> Seq(Calls)]
         /\ \A d : IsOpen(d)' <=> IsOpen(d) \/ d = c
         /\ StackInv'
<1>0. open \in [Threads -> Seq(Calls)]
  BY DEF TypeOK
<1> PICK n \in Nat : n = Len(open[t])
  BY SeqFacts
<1>1. /\ Append(open[t], c) \in Seq(Calls) /\ Len(Append(open[t], c)) = Len(open[t]) + 1
      /\ \A i \in 1..Len(open[t]) : Append(open[t], c)[i] = open[t][i]
      /\ Append(open[t], c)[Len(open[t]) + 1] = c
  BY SeqFacts, AppendProperties
<1>2. /\ Len(open'[t]) = Len(open[t]) + 1 /\ Len(open[t]) \in Nat
      /\ \A i \in 1..Len(open[t]) : open'[t][i] = open[t][i]
      /\ open'[t][Len(open[t]) + 1] = c
      /\ \A u \in Threads \ {t} : open'[u] = open[u]
  BY <1>0, <1>1, SeqFacts
<1>3. open' \in [Threads -> Seq(Calls)]
  BY <1>0, <1>1
<1>4. \A i : i \in 1..Len(open'[t]) <=> i \in 1..Len(open[t]) \/ i = Len(open[t]) + 1
  BY <1>2
<1>5. ASSUME NEW d PROVE IsOpen(d)' <=> IsOpen(d) \/ d = c
  <2>1. IsOpen(d)' => IsOpen(d) \/ d = c
    BY <1>2, <1>4 DEF IsOpen
  <2>2. IsOpen(d) => IsOpen(d)'
    BY <1>2, <1>4 DEF IsOpen
  <2>3. IsOpen(c)'
    BY <1>2, <1>4 DEF IsOpen
  <2>4. QED
    BY <2>1, <2>2, <2>3
<1>6. StackInv'
  <2>1. \A u \in Threads \ {t} : \A i : Below(u, i)' = Below(u, i)
    BY <1>2 DEF Below, Tracked
  <2>2. \A i \in 1..Len(open[t]) : Below(t, i)' = Below(t, i)
    <3> SUFFICES ASSUME NEW i \in 1..Len(open[t]) PROVE Below(t, i)' = Below(t, i)
      OBVIOUS
    <3>1. \A j \in 1..(i - 1) : open'[t][j] = open[t][j]
      BY <1>2
    <3>2. QED
      BY <3>1 DEF Below, Tracked
  <2>3. Below(t, n + 1)' = Opened(t)
    <3>1. \A j \in 1..((n + 1) - 1) : open'[t][j] = open[t][j]
      BY <1>2
    <3>2. QED
      BY <3>1 DEF Below, Opened, Tracked
  <2>4. ASSUME NEW u \in Threads
        PROVE  /\ \A i \in 1..Len(open'[u]) :
                    /\ open'[u][i].tid = u
                    /\ Tracked(open[u][i])' => open'[u][i].depth = Cardinality(Below(u, i)')
               /\ \A i, j \in 1..Len(open'[u]) : open'[u][i] = open'[u][j] => i = j
    <3>1. CASE u # t
      BY <1>2, <2>1, <3>1 DEF StackInv, Tracked
    <3>2. CASE u = t
      <4>1. \A i \in 1..Len(open[t]) : open[t][i] # c
        BY DEF IsOpen
      <4>2. \A i, j \in 1..Len(open'[t]) : open'[t][i] = open'[t][j] => i = j
        BY <1>2, <1>4, <4>1 DEF StackInv
      <4>3. \A i \in 1..Len(open'[t]) : open'[t][i].tid = t
        BY <1>2, <1>4 DEF StackInv
      <4>4. ASSUME NEW i \in 1..Len(open'[t]), Tracked(open[t][i])'
            PROVE  open'[t][i].depth = Cardinality(Below(t, i)')
        <5>1. CASE i \in 1..Len(open[t])
          BY <1>2, <2>2, <4>4, <5>1 DEF StackInv, Tracked
        <5>2. CASE i = n + 1
          BY <1>2, <2>3, <4>4, <5>2 DEF Tracked
        <5>3. QED
          BY <1>4, <5>1, <5>2
      <4>5. QED
        BY <3>2, <4>2, <4>3, <4>4
    <3>3. QED
      BY <3>1, <3>2
  <2>5. QED
    BY <2>4 DEF StackInv
<1>7. QED
  BY <1>3, <1>5, <1>6

(* The call on top leaves the stack.                                       *)
LEMMA PopEffect ==
  ASSUME TypeOK, StackInv, NEW t \in Threads, NEW n \in Nat, n = Len(open[t]), n > 0, UNCHANGED retSet,
         open' = [open EXCEPT ![t] = SubSeq(open[t], 1, n - 1)]
  PROVE  /\ open' \in [Threads -> Seq(Calls)]
         /\ open[t][n] \in Calls /\ IsOpen(open[t][n])
         /\ \A d : IsOpen(d)' <=> IsOpen(d) /\ d # open[t][n]
         /\ StackInv'
<1>0. open \in [Threads -> Seq(Calls)]
  BY DEF TypeOK
<1>1. \A i \in 1..(n - 1) : i \in 1..Len(open[t]) /\ open[t][i] \in Calls
  BY SeqFacts
<1>2. /\ SubSeq(open[t], 1, n - 1) \in Seq(Calls) /\ Len(SubSeq(open[t], 1, n - 1)) = n - 1
      /\ \A i \in 1..(n - 1) : SubSeq(open[t], 1, n - 1)[i] = open[t][i]
  BY <1>1, SubSeqProperties
<1>3. /\ Len(open'[t]) = n - 1
      /\ \A i \in 1..(n - 1) : open'[t][i] = open[t][i]
      /\ \A u \in Threads \ {t} : open'[u] = open[u]
  BY <1>0, <1>2
<1>4. open' \in [Threads -> Seq(Calls)]
  BY <1>0, <1>2
<1>5. open[t][n] \in Calls /\ IsOpen(open[t][n]) /\ n \in 1..Len(open[t])
  BY SeqFacts DEF IsOpen
<1>6. ASSUME NEW d PROVE IsOpen(d)' <=> IsOpen(d) /\ d # open[t][n]
  <2>1. IsOpen(d)' => IsOpen(d)
    BY <1>1, <1>3 DEF IsOpen
  <2>2. ASSUME IsOpen(d)' PROVE d # open[t][n]
    <3>1. PICK u \in Threads : \E i \in 1..Len(open'[u]) : open'[u][i] = d
      BY <2>2 DEF IsOpen
    <3>2. PICK i \in 1..Len(open'[u]) : open'[u][i] = d
      BY <3>1
    <3>3. CASE u = t
      BY <1>1, <1>3, <1>5, <3>2, <3>3 DEF StackInv
    <3>4. CASE u # t
      BY <1>3, <1>5, <3>2, <3>4 DEF StackInv
    <3>5. QED
      BY <3>3, <3>4
  <2>3. ASSUME IsOpen(d), d # open[t][n] PROVE IsOpen(d)'
    <3>1. PICK u \in Threads : \E i \in 1..Len(open[u]) : open[u][i] = d
      BY <2>3 DEF IsOpen
    <3>2. PICK i \in 1..Len(open[u]) : open[u][i] = d
      BY <3>1
    <3>3. CASE u = t
      <4>1. i \in 1..(n - 1)
        BY <2>3, <3>2, <3>3
      <4>2. QED
        BY <1>3, <3>2, <3>3, <4>1 DEF IsOpen
    <3>4. CASE u # t
      BY <1>3, <3>2, <3>4 DEF IsOpen
    <3>5. QED
      BY <3>3, <3>4
  <2>4. QED
    BY <2>1, <2>2, <2>3
<1>7. StackInv'
  <2>1. \A u \in Threads \ {t} : \A i : Below(u, i)' = Below(u, i)
    BY <1>3 DEF Below, Tracked
  <2>2. \A i \in 1..(n - 1) : Below(t, i)' = Below(t, i)
    <3> SUFFICES ASSUME NEW i \in 1..(n - 1) PROVE Below(t, i)' = Below(t, i)
      OBVIOUS
    <3>1. \A j \in 1..(i - 1) : open'[t][j] = open[t][j]
      BY <1>3
    <3>2. QED
      BY <3>1 DEF Below, Tracked
  <2>3. ASSUME NEW u \in Threads
        PROVE  /\ \A i \in 1..Len(open'[u]) :
                    /\ open'[u][i].tid = u
                    /\ Tracked(open[u][i])' => open'[u][i].depth = Cardinality(Below(u, i)')
               /\ \A i, j \in 1..Len(open'[u]) : open'[u][i] = open'[u][j] => i = j
    <3>1. CASE u # t
      BY <1>3, <2>1, <3>1 DEF StackInv, Tracked
    <3>2. CASE u = t
      <4>1. \A i \in 1..(n - 1) :
              /\ i \in 1..Len(open[t]) /\ open'[t][i] = open[t][i]
              /\ open[t][i].tid = t
              /\ Tracked(open[t][i]) => open[t][i].depth = Cardinality(Below(t, i))
        BY <1>1, <1>3 DEF StackInv
      <4>2. \A i \in 1..(n - 1) : Tracked(open[t][i])' <=> Tracked(open[t][i])
        BY <4>1 DEF Tracked
      <4>3. \A i, j \in 1..(n - 1) : open'[t][i] = open'[t][j] => i = j
        BY <4>1 DEF StackInv
      <4>4. QED
        BY <1>3, <2>2, <3>2, <4>1, <4>2, <4>3
    <3>3. QED
      BY <3>1, <3>2
  <2>4. QED
    BY <2>3 DEF StackInv
<1>8. QED
  BY <1>4, <1>5, <1>6, <1>7

-----------------------------------------------------------------------------
(* A call with the key of another finds that one returned.                 *)
LEMMA SameKeyReturned ==
  ASSUME TypeOK, TargetInv, NEW t \in Threads, NEW d \in Calls, Present(d), Tracked(d),
         d.tid = t, d.depth = Cardinality(Opened(t))
  PROVE  Queued("return", d)
<1>1. ~IsOpen(d)
  <2> SUFFICES ASSUME IsOpen(d) PROVE FALSE
    OBVIOUS
  <2>1. PICK u \in Threads : \E i \in 1..Len(open[u]) : open[u][i] = d
    BY DEF IsOpen
  <2>2. PICK i \in 1..Len(open[u]) : open[u][i] = d
    BY <2>1
  <2>3. u = t /\ d.depth = Cardinality(Below(u, i))
    BY <2>2 DEF TargetInv, StackInv
  <2>4. i \in Opened(t)
    BY <2>2, <2>3 DEF Opened
  <2>5. Cardinality(Below(t, i)) < Cardinality(Opened(t)) /\ Cardinality(Opened(t)) \in Nat
    BY <2>4, OpenedFinite
  <2>6. QED
    BY <2>3, <2>5
<1>2. QED
  BY <1>1 DEF Present, TargetInv, RecordInv

LEMMA CallTarget ==
  ASSUME TypeOK, TargetInv, FramesInv, NEW t \in Threads, NEW s \in Slots,
         NEW mod \in Modules \cup {None}, NEW known \in BOOLEAN, Call(t, s, mod, known)
  PROVE  /\ TargetInv' /\ FramesInv' /\ TypeOK'
         /\ \A d \in Calls : d.id <= ncalls /\ ~Queued("entry", d) => ~Queued("entry", d)'
<1> PICK c : c = NewCall(t, s, mod, known)
  OBVIOUS
<1>0. IdInv /\ StackInv /\ RecordInv /\ KeyInv
  BY DEF TargetInv
<1>1. /\ c \in Calls /\ ncalls' = ncalls + 1 /\ ncalls' \in 0..MaxCalls
      /\ open' = [open EXCEPT ![t] = Append(open[t], c)]
      /\ queue' = Append(queue, [kind |-> "entry", call |-> c])
      /\ UNCHANGED <<retSet, loopVars, reader, consoleVars>>
  BY CallEffect
<1>2. c.id = ncalls + 1 /\ c.tid = t /\ c.depth = IF Tracked(c) THEN Cardinality(Opened(t)) ELSE NoDepth
  BY DEF NewCall, Tracked
<1>3. ncalls \in Nat /\ Cardinality(Opened(t)) \in Nat
  BY SeqFacts, OpenedFinite
<1>4. ~Present(c)
  BY <1>0, <1>1, <1>2, <1>3 DEF IdInv
<1>5. /\ open' \in [Threads -> Seq(Calls)]
      /\ \A d : IsOpen(d)' <=> IsOpen(d) \/ d = c
      /\ StackInv'
  BY <1>0, <1>1, <1>2, <1>4, PushEffect DEF Present
<1>6. /\ queue' \in Seq([kind: {"entry", "return"}, call: Calls])
      /\ \A k, d, i : At(k, d, i)' <=> At(k, d, i) \/ (k = "entry" /\ d = c /\ i = Len(queue) + 1)
      /\ \A k, d : Queued(k, d)' <=> Queued(k, d) \/ (k = "entry" /\ d = c)
  BY <1>1, AppendEffect
<1>7. \A d : Present(d)' <=> Present(d) \/ d = c
  BY <1>5, <1>6 DEF Present
<1>8. \A d : Tracked(d)' <=> Tracked(d)
  BY <1>1 DEF Tracked
<1>9. IdInv'
  <2>1. \A d \in Calls : Present(d) => d.id < c.id /\ d.id <= ncalls' /\ d.id # c.id
    BY <1>0, <1>1, <1>2, <1>3 DEF IdInv, Calls
  <2>2. c.id <= ncalls'
    BY <1>1, <1>2, <1>3
  <2>3. QED
    BY <1>0, <1>1, <1>2, <1>3, <1>7, <1>8, <2>1, <2>2 DEF IdInv
<1>10. \A k \in {"entry", "return"} : \A i : ~At(k, c, i)
  BY <1>4, PlaceTypes, QueuedAt DEF Present
<1>11. RecordInv'
  <2>1. \A d \in Calls, i, j \in Nat, k \in {"entry", "return"} : At(k, d, i)' /\ At(k, d, j)' => i = j
    BY <1>0, <1>6, <1>10 DEF RecordInv
  <2>2. \A d \in Calls, j \in Nat :
          At("return", d, j)' =>
            /\ Tracked(d)' /\ ~IsOpen(d)'
            /\ \A i \in Nat : At("entry", d, i)' => i < j
    BY <1>0, <1>5, <1>6, <1>8, <1>10 DEF RecordInv
  <2>3. \A d \in Calls : Queued("entry", d)' /\ Tracked(d)' => IsOpen(d)' \/ Queued("return", d)'
    BY <1>0, <1>5, <1>6, <1>8 DEF RecordInv
  <2>4. QED
    BY <2>1, <2>2, <2>3 DEF RecordInv
<1>12. KeyInv'
  <2> SUFFICES ASSUME NEW d \in Calls, NEW e \in Calls, Present(d)', Present(e)', Tracked(d), Tracked(e),
                      Key(d) = Key(e), d.id < e.id
               PROVE  \E i, j \in Nat : At("return", d, i)' /\ At("entry", e, j)' /\ i < j
    BY <1>8 DEF KeyInv, Key
  <2>1. CASE e # c
    <3>1. d # c
      BY <1>0, <1>2, <1>3, <1>7, <2>1 DEF IdInv, Calls
    <3>2. PICK i, j \in Nat : At("return", d, i) /\ At("entry", e, j) /\ i < j
      BY <1>0, <1>7, <2>1, <3>1 DEF KeyInv
    <3>3. QED
      BY <1>6, <3>2
  <2>2. CASE e = c
    <3>1. d # c
      BY <2>2 DEF Calls
    <3>2. Queued("return", d)
      <4>1. d.tid = t /\ d.depth = Cardinality(Opened(t)) /\ Present(d)
        BY <1>2, <1>7, <2>2, <3>1 DEF Key
      <4>2. QED
        BY <4>1, SameKeyReturned
    <3>3. PICK i \in Nat : At("return", d, i)
      BY <3>2, QueuedAt
    <3>4. i < Len(queue) + 1 /\ Len(queue) + 1 \in Nat
      BY <3>3, PlaceTypes, SeqFacts
    <3>5. QED
      BY <1>6, <2>2, <3>3, <3>4
  <2>3. QED
    BY <2>1, <2>2
<1>13. FramesInv'
  <2>1. \A d : Framed(d)' <=> Framed(d)
    BY <1>1 DEF Framed, loopVars
  <2>2. ~Framed(c)
    BY <1>1, <1>4 DEF FramesInv, Present
  <2>3. \A d \in Calls :
          Framed(d)' <=> Tracked(d)' /\ (IsOpen(d)' \/ Queued("return", d)') /\ ~Queued("entry", d)'
    BY <1>5, <1>6, <1>8, <2>1, <2>2 DEF FramesInv
  <2>4. \A k \in DOMAIN frames' : Key(frames'[k].call) = k
    BY <1>1 DEF FramesInv, loopVars
  <2>5. QED
    BY <2>3, <2>4 DEF FramesInv
<1>14. TypeOK'
  BY <1>1, <1>5, <1>6 DEF TypeOK, loopVars, consoleVars
<1>15. \A d \in Calls : d.id <= ncalls /\ ~Queued("entry", d) => ~Queued("entry", d)'
  BY <1>2, <1>3, <1>6 DEF Calls
<1>16. QED
  BY <1>5, <1>9, <1>11, <1>12, <1>13, <1>14, <1>15 DEF TargetInv

LEMMA ReturnTarget ==
  ASSUME TypeOK, TargetInv, FramesInv, NEW t \in Threads, Return(t)
  PROVE  /\ TargetInv' /\ FramesInv' /\ TypeOK'
         /\ \A d \in Calls : ~Queued("entry", d) => ~Queued("entry", d)'
<1> PICK n \in Nat : n = Len(open[t])
  BY SeqFacts
<1> PICK c : c = open[t][n]
  OBVIOUS
<1>0. IdInv /\ StackInv /\ RecordInv /\ KeyInv
  BY DEF TargetInv
<1>1. /\ n > 0
      /\ open' = [open EXCEPT ![t] = SubSeq(open[t], 1, n - 1)]
      /\ queue' = IF Tracked(c) THEN Append(queue, [kind |-> "return", call |-> c]) ELSE queue
      /\ UNCHANGED <<retSet, ncalls, loopVars, reader, consoleVars>>
  BY DEF Return, Tracked
<1>2. /\ open' \in [Threads -> Seq(Calls)]
      /\ c \in Calls /\ IsOpen(c)
      /\ \A d : IsOpen(d)' <=> IsOpen(d) /\ d # c
      /\ StackInv'
  BY <1>0, <1>1, PopEffect
<1>3. \A d : Tracked(d)' <=> Tracked(d)
  BY <1>1 DEF Tracked
<1>4. /\ queue' \in Seq([kind: {"entry", "return"}, call: Calls])
      /\ \A k, d, i : At(k, d, i)' <=> At(k, d, i) \/ (Tracked(c) /\ k = "return" /\ d = c /\ i = Len(queue) + 1)
      /\ \A k, d : Queued(k, d)' <=> Queued(k, d) \/ (Tracked(c) /\ k = "return" /\ d = c)
  <2>1. CASE Tracked(c)
    <3>1. queue' = Append(queue, [kind |-> "return", call |-> c])
      BY <1>1, <2>1
    <3>2. /\ queue' \in Seq([kind: {"entry", "return"}, call: Calls])
          /\ \A k, d, i : At(k, d, i)' <=> At(k, d, i) \/ (k = "return" /\ d = c /\ i = Len(queue) + 1)
          /\ \A k, d : Queued(k, d)' <=> Queued(k, d) \/ (k = "return" /\ d = c)
      BY <1>2, <3>1, AppendEffect
    <3>3. QED
      BY <2>1, <3>2
  <2>2. CASE ~Tracked(c)
    BY <1>1, <2>2, SeqFacts DEF At, Queued
  <2>3. QED
    BY <2>1, <2>2
<1>5. Len(queue) \in Nat /\ \A k, d, i : At(k, d, i) => i < Len(queue) + 1
  BY PlaceTypes, SeqFacts
<1>6. \A d : Present(d)' => Present(d)
  BY <1>2, <1>4 DEF Present
<1>7. \A i : ~At("return", c, i)
  BY <1>0, <1>2, PlaceTypes DEF RecordInv
<1>8. ~Queued("return", c)
  BY <1>7, QueuedAt
<1>9. IdInv'
  BY <1>0, <1>1, <1>3, <1>6 DEF IdInv
<1>10. RecordInv'
  <2>1. \A d \in Calls, i, j \in Nat, k \in {"entry", "return"} : At(k, d, i)' /\ At(k, d, j)' => i = j
    BY <1>0, <1>4, <1>7 DEF RecordInv
  <2>2. \A d \in Calls, j \in Nat :
          At("return", d, j)' =>
            /\ Tracked(d)' /\ ~IsOpen(d)'
            /\ \A i \in Nat : At("entry", d, i)' => i < j
    BY <1>0, <1>2, <1>3, <1>4, <1>5 DEF RecordInv
  <2>3. \A d \in Calls : Queued("entry", d)' /\ Tracked(d)' => IsOpen(d)' \/ Queued("return", d)'
    BY <1>0, <1>2, <1>3, <1>4 DEF RecordInv
  <2>4. QED
    BY <2>1, <2>2, <2>3 DEF RecordInv
<1>11. KeyInv'
  <2> SUFFICES ASSUME NEW d \in Calls, NEW e \in Calls, Present(d)', Present(e)', Tracked(d), Tracked(e),
                      Key(d) = Key(e), d.id < e.id
               PROVE  \E i, j \in Nat : At("return", d, i)' /\ At("entry", e, j)' /\ i < j
    BY <1>3 DEF KeyInv, Key
  <2>1. PICK i, j \in Nat : At("return", d, i) /\ At("entry", e, j) /\ i < j
    BY <1>0, <1>6 DEF KeyInv
  <2>2. QED
    BY <1>4, <2>1
<1>12. FramesInv'
  <2>1. \A d : Framed(d)' <=> Framed(d)
    BY <1>1 DEF Framed, loopVars
  <2>2. \A d \in Calls :
          Framed(d)' <=> Tracked(d)' /\ (IsOpen(d)' \/ Queued("return", d)') /\ ~Queued("entry", d)'
    BY <1>2, <1>3, <1>4, <2>1 DEF FramesInv
  <2>3. \A k \in DOMAIN frames' : Key(frames'[k].call) = k
    BY <1>1 DEF FramesInv, loopVars
  <2>4. QED
    BY <2>2, <2>3 DEF FramesInv
<1>13. TypeOK'
  BY <1>1, <1>2, <1>4 DEF TypeOK, loopVars, consoleVars
<1>14. \A d \in Calls : ~Queued("entry", d) => ~Queued("entry", d)'
  BY <1>4
<1>15. QED
  BY <1>2, <1>9, <1>10, <1>11, <1>12, <1>13, <1>14 DEF TargetInv

(* Reading a record takes its call away, or only its entry.                *)
LEMMA ReadTarget ==
  ASSUME TypeOK, TargetInv, NEW kind, ReadRecord(kind)
  PROVE  TargetInv'
<1> PICK c : c = Head(queue).call
  OBVIOUS
<1>0. IdInv /\ StackInv /\ RecordInv /\ KeyInv
  BY DEF TargetInv
<1>1. UNCHANGED <<retSet, open, ncalls>>
  BY DEF ReadRecord, targetVars
<1>2. /\ c \in Calls /\ At(kind, c, 1) /\ kind \in {"entry", "return"}
      /\ \A k, d : \A i \in Nat : At(k, d, i)' <=> i >= 1 /\ At(k, d, i + 1)
      /\ \A k \in {"entry", "return"} : \A d : Queued(k, d)' <=> Queued(k, d) /\ ~(k = kind /\ d = c)
  BY <1>0, ReadEffect
<1>3. StackInv' /\ \A d : (Tracked(d)' <=> Tracked(d)) /\ (IsOpen(d)' <=> IsOpen(d))
  <2>1. \A d : (Tracked(d)' <=> Tracked(d)) /\ (IsOpen(d)' <=> IsOpen(d))
    BY <1>1 DEF IsOpen, Tracked
  <2>2. \A t, i : Below(t, i)' = Below(t, i)
    BY <1>1 DEF Below, Tracked
  <2>3. StackInv'
    BY <1>0, <1>1, <2>1, <2>2 DEF StackInv
  <2>4. QED
    BY <2>1, <2>3
<1>4. \A d : Present(d)' => Present(d)
  BY <1>2, <1>3 DEF Present
<1>5. IdInv'
  BY <1>0, <1>1, <1>3, <1>4 DEF IdInv
<1>6. RecordInv'
  <2>1. \A d \in Calls, i, j \in Nat, k \in {"entry", "return"} : At(k, d, i)' /\ At(k, d, j)' => i = j
    <3> SUFFICES ASSUME NEW d \in Calls, NEW i \in Nat, NEW j \in Nat, NEW k \in {"entry", "return"},
                        At(k, d, i)', At(k, d, j)'
                 PROVE  i = j
      OBVIOUS
    <3>1. At(k, d, i + 1) /\ At(k, d, j + 1) /\ i + 1 \in Nat /\ j + 1 \in Nat
      BY <1>2
    <3>2. i + 1 = j + 1
      BY <1>0, <3>1 DEF RecordInv
    <3>3. QED
      BY <3>2
  <2>2. ASSUME NEW d \in Calls, NEW j \in Nat, At("return", d, j)'
        PROVE  /\ Tracked(d)' /\ ~IsOpen(d)'
               /\ \A i \in Nat : At("entry", d, i)' => i < j
    <3>1. At("return", d, j + 1) /\ j + 1 \in Nat
      BY <1>2, <2>2
    <3>2. Tracked(d) /\ ~IsOpen(d) /\ \A i \in Nat : At("entry", d, i) => i < j + 1
      BY <1>0, <3>1 DEF RecordInv
    <3>3. \A i \in Nat : At("entry", d, i)' => At("entry", d, i + 1) /\ i + 1 \in Nat
      BY <1>2
    <3>4. \A i \in Nat : At("entry", d, i)' => i + 1 < j + 1
      BY <3>2, <3>3
    <3>5. QED
      BY <1>3, <3>2, <3>4
  <2>3. \A d \in Calls : Queued("entry", d)' /\ Tracked(d)' => IsOpen(d)' \/ Queued("return", d)'
    <3> SUFFICES ASSUME NEW d \in Calls, Queued("entry", d)', Tracked(d), ~IsOpen(d)
                 PROVE  Queued("return", d)'
      BY <1>3
    <3>1. Queued("entry", d) /\ Queued("return", d)
      BY <1>0, <1>2 DEF RecordInv
    <3>2. ~(kind = "return" /\ d = c)
      <4> SUFFICES ASSUME kind = "return", d = c PROVE FALSE
        OBVIOUS
      <4>1. PICK i \in Nat : At("entry", d, i)
        BY <3>1, QueuedAt
      <4>2. i < 1 /\ i >= 1
        BY <1>0, <1>2, <4>1, PlaceTypes DEF RecordInv
      <4>3. QED
        BY <4>2
    <3>3. QED
      BY <1>2, <3>1, <3>2
  <2>4. QED
    BY <2>1, <2>2, <2>3 DEF RecordInv
<1>7. KeyInv'
  <2> SUFFICES ASSUME NEW d \in Calls, NEW e \in Calls, Present(d)', Present(e)', Tracked(d), Tracked(e),
                      Key(d) = Key(e), d.id < e.id
               PROVE  \E i, j \in Nat : At("return", d, i)' /\ At("entry", e, j)' /\ i < j
    BY <1>3 DEF KeyInv, Key
  <2>1. PICK i, j \in Nat : At("return", d, i) /\ At("entry", e, j) /\ i < j
    BY <1>0, <1>4 DEF KeyInv
  <2>2. i >= 1
    BY <2>1, PlaceTypes
  <2>3. i # 1
    <3> SUFFICES ASSUME i = 1 PROVE FALSE
      OBVIOUS
    <3>1. kind = "return" /\ d = c
      BY <1>2, <2>1 DEF At
    <3>2. Queued("return", d)' \/ IsOpen(d)' \/ Queued("entry", d)'
      BY DEF Present
    <3>3. ~Queued("return", d)' /\ ~IsOpen(d)'
      BY <1>0, <1>2, <1>3, <2>1, <3>1 DEF RecordInv
    <3>4. PICK m \in Nat : At("entry", d, m)
      BY <1>2, <3>2, <3>3, QueuedAt
    <3>5. m < 1 /\ m >= 1
      BY <1>0, <1>2, <3>1, <3>4, PlaceTypes DEF RecordInv
    <3>6. QED
      BY <3>5
  <2>4. i - 1 \in Nat /\ j - 1 \in Nat /\ i - 1 >= 1 /\ j - 1 >= 1 /\ (i - 1) + 1 = i /\ (j - 1) + 1 = j
        /\ i - 1 < j - 1
    BY <2>1, <2>2, <2>3
  <2>5. At("return", d, i - 1)' /\ At("entry", e, j - 1)'
    BY <1>2, <2>1, <2>4
  <2>6. QED
    BY <2>4, <2>5
<1>8. QED
  BY <1>3, <1>5, <1>6, <1>7 DEF TargetInv

-----------------------------------------------------------------------------
(* The key of an entry that is read is free.                               *)
LEMMA KeyFree ==
  ASSUME TypeOK, TargetInv, FramesInv, NEW c \in Calls, At("entry", c, 1), Tracked(c)
  PROVE  Key(c) \notin DOMAIN frames
<1> SUFFICES ASSUME Key(c) \in DOMAIN frames PROVE FALSE
  OBVIOUS
<1> PICK d : d = frames[Key(c)].call
  OBVIOUS
<1>1. d \in Calls /\ Key(d) = Key(c) /\ Framed(d)
  BY DEF TypeOK, FramesInv, Framed
<1>2. Tracked(d) /\ Present(d) /\ ~Queued("entry", d)
  BY <1>1 DEF FramesInv, Present
<1>3. Queued("entry", c) /\ Present(c)
  BY QueuedAt DEF Present
<1>4. d.id # c.id
  BY <1>1, <1>2, <1>3 DEF TargetInv, IdInv
<1>5. CASE c.id < d.id
  BY <1>1, <1>2, <1>3, <1>5, QueuedAt DEF TargetInv, KeyInv
<1>6. CASE d.id < c.id
  <2>1. PICK i, j \in Nat : At("return", d, i) /\ At("entry", c, j) /\ i < j
    BY <1>1, <1>2, <1>3, <1>6 DEF TargetInv, KeyInv
  <2>2. j = 1 /\ i >= 1
    BY <2>1, PlaceTypes DEF TargetInv, RecordInv
  <2>3. QED
    BY <2>1, <2>2
<1>7. QED
  BY <1>1, <1>4, <1>5, <1>6 DEF Calls

(* The frame of a return that is read is there.                            *)
LEMMA FrameThere ==
  ASSUME TypeOK, TargetInv, FramesInv, NEW c \in Calls, At("return", c, 1)
  PROVE  /\ Key(c) \in DOMAIN frames /\ frames[Key(c)].call = c
         /\ ~Queued("entry", c) /\ ~IsOpen(c) /\ Tracked(c) /\ Present(c)
<1>1. Tracked(c) /\ ~IsOpen(c) /\ \A i \in Nat : At("entry", c, i) => i < 1
  BY DEF TargetInv, RecordInv
<1>2. ~Queued("entry", c)
  <2> SUFFICES ASSUME NEW i \in Nat, At("entry", c, i) PROVE FALSE
    BY QueuedAt
  <2>1. i < 1 /\ i >= 1
    BY <1>1, PlaceTypes
  <2>2. QED
    BY <2>1
<1>3. Queued("return", c)
  BY QueuedAt
<1>4. Framed(c)
  BY <1>1, <1>2, <1>3 DEF FramesInv
<1>5. QED
  BY <1>1, <1>2, <1>3, <1>4 DEF Framed, FramesInv, Present

(* What else a step that adds one line to the log has to leave alone.      *)
LEMMA LogStep ==
  ASSUME TypeOK, LogInv, DecisionInv, ReturnShowsItsCall, NEW x,
         log' = log \cup {x}, x.until = ncmds, x.by = f, x.since <= x.until, x.call \in Calls,
         UNCHANGED <<f, ncmds, ncalls>>,
         x.call.id <= ncalls, ~Queued("entry", x.call)',
         \A r \in log : ~Queued("entry", r.call)',
         x.kind = "entry" => \A r \in log : r.call # x.call,
         x.kind = "entry" /\ x.since = x.until => (x.shown <=> ShownEntry(x)),
         x.kind = "return" => /\ \A e \in log : e.call = x.call /\ e.kind = "entry" => e.until <= x.since
                              /\ x.shown => x.text = x.call.id,
         \A e \in log : (/\ e.kind = "entry" /\ x.kind = "return" /\ e.call = x.call
                         /\ e.since = e.until /\ e.until = x.until) => (x.shown <=> ShownReturn(x))
  PROVE  LogInv' /\ DecisionInv' /\ ReturnShowsItsCall'
<1>1. \A r \in log' : r \in log \/ r = x
  OBVIOUS
<1>2. LogInv'
  <2>1. \A r \in log' : r.call.id <= ncalls' /\ ~Queued("entry", r.call)'
    BY <1>1 DEF LogInv
  <2>2. \A r \in log' : r.since <= r.until /\ (r.until = ncmds' => r.by = f')
    BY <1>1 DEF LogInv
  <2>3. \A r, s \in log' : r.until = s.until => r.by = s.by
    BY <1>1 DEF LogInv
  <2>4. \A e, r \in log' :
          e.call = r.call /\ e.kind = "entry" /\ r.kind = "return" => e.until <= r.since
    BY <1>1 DEF LogInv
  <2>5. QED
    BY <2>1, <2>2, <2>3, <2>4 DEF LogInv
<1>3. DecisionInv'
  <2>1. \A e \in log' : e.kind = "entry" /\ e.since = e.until => (e.shown <=> ShownEntry(e))
    BY <1>1 DEF DecisionInv
  <2>2. \A e, r \in log' :
          (/\ e.kind = "entry" /\ r.kind = "return" /\ e.call = r.call
           /\ e.since = e.until /\ e.until = r.until) => (r.shown <=> ShownReturn(r))
    BY <1>1 DEF DecisionInv
  <2>3. QED
    BY <2>1, <2>2 DEF DecisionInv
<1>4. ReturnShowsItsCall'
  BY <1>1 DEF ReturnShowsItsCall
<1>5. QED
  BY <1>2, <1>3, <1>4

LEMMA ReadEntryStep ==
  ASSUME TypeOK, TargetInv, FramesInv, LoopInv, ReadEntry
  PROVE  TypeOK' /\ FramesInv' /\ LoopInv'
<1> PICK c : c = Head(queue).call
  OBVIOUS
<1>0. TextInv /\ CurInv /\ LogInv /\ HiddenInv /\ DecisionInv /\ ReturnShowsItsCall
  BY DEF LoopInv
<1>1. ReadRecord("entry") /\ pc = "read"
  BY DEF ReadEntry, ReadRecord
<1>2. UNCHANGED <<retSet, open, ncalls, reader, f, stats, ncmds>>
  BY <1>1 DEF ReadRecord, targetVars, consoleVars
<1>3. /\ queue' \in Seq([kind: {"entry", "return"}, call: Calls])
      /\ c \in Calls /\ At("entry", c, 1)
      /\ \A k \in {"entry", "return"} : \A d : Queued(k, d)' <=> Queued(k, d) /\ ~(k = "entry" /\ d = c)
  BY <1>1, ReadEffect DEF TargetInv
<1>4. Queued("entry", c) /\ Present(c)
  BY <1>3, QueuedAt DEF Present
<1>5. c.id <= ncalls /\ c.id \in 1..MaxCalls /\ (IF Tracked(c) THEN c.depth \in Nat ELSE c.depth = NoDepth)
  BY <1>3, <1>4 DEF TargetInv, IdInv, Calls
<1>6. PICK fr : fr = [call |-> c, text |-> IF c.slot \in CallSlots THEN NoText ELSE c.id]
  OBVIOUS
<1>7. /\ fr \in [call: Calls, text: 0..MaxCalls] /\ fr.call = c
      /\ fr.text = c.id \/ (fr.text = NoText /\ c.slot \in CallSlots)
  <2>1. NoText \in 0..MaxCalls /\ c.id \in 0..MaxCalls
    BY <1>5, TraceAssumption DEF NoText
  <2>2. (IF c.slot \in CallSlots THEN NoText ELSE c.id) \in 0..MaxCalls
    BY <2>1
  <2>3. QED
    BY <1>3, <1>6, <2>2
<1>8. frames' = IF Tracked(c) THEN Put(frames, Key(c), fr) ELSE frames
  BY <1>5, <1>6 DEF ReadEntry, Tracked, NoDepth
<1>9. /\ \A k : k \in DOMAIN frames' <=> k \in DOMAIN frames \/ (Tracked(c) /\ k = Key(c))
      /\ \A k \in DOMAIN frames : frames'[k] = frames[k]
      /\ Tracked(c) => Key(c) \notin DOMAIN frames /\ frames'[Key(c)] = fr
  BY <1>3, <1>8, KeyFree DEF Put
<1>10. Tracked(c) => Key(c) \in Threads \X Nat
  BY <1>3, <1>5 DEF Key, Calls
<1>11. FramesInv'
  <2>1. \A d : (Tracked(d)' <=> Tracked(d)) /\ (IsOpen(d)' <=> IsOpen(d))
    BY <1>2 DEF Tracked, IsOpen
  <2>2. \A d : Framed(d)' <=> Framed(d) \/ (Tracked(c) /\ d = c)
    BY <1>7, <1>9 DEF Framed
  <2>3. \A k \in DOMAIN frames' : Key(frames'[k].call) = k
    BY <1>7, <1>9 DEF FramesInv
  <2>4. Tracked(c) => IsOpen(c) \/ Queued("return", c)
    BY <1>3, <1>4 DEF TargetInv, RecordInv
  <2>5. \A d \in Calls :
          Framed(d)' <=> Tracked(d)' /\ (IsOpen(d)' \/ Queued("return", d)') /\ ~Queued("entry", d)'
    BY <1>3, <2>1, <2>2, <2>4 DEF FramesInv
  <2>6. QED
    BY <2>3, <2>5 DEF FramesInv
<1>12. TextInv'
  BY <1>0, <1>7, <1>9 DEF TextInv
<1>13. \A r \in log : r.call # c /\ ~Queued("entry", r.call)'
  BY <1>0, <1>3, <1>4 DEF LogInv
<1>14. ~Queued("entry", c)'
  BY <1>3
<1>15. /\ DOMAIN frames' \subseteq Threads \X Nat
       /\ \A k \in DOMAIN frames' : frames'[k] \in [call: Calls, text: 0..MaxCalls]
  BY <1>7, <1>9, <1>10 DEF TypeOK
<1>16. CASE Passes(f, c)
  <2>1. pc' = "entry" /\ cur' = <<[call |-> c, since |-> ncmds]>> /\ log' = log
    BY <1>16 DEF ReadEntry, Passes
  <2>2. Len(cur') = 1 /\ cur'[1].call = c /\ cur'[1].since = ncmds
    BY <2>1
  <2>3. TypeOK'
    <3>1. ncmds \in 0..ncmds'
      BY <1>2, SeqFacts
    <3>2. QED
      BY <1>2, <1>3, <1>15, <2>1, <2>2, <3>1 DEF TypeOK
  <2>4. Key(c) \in DOMAIN frames' => frames'[Key(c)].call = c
    <3>1. ~Tracked(c) => Key(c) \notin DOMAIN frames
      BY <1>5 DEF TypeOK, Key, NoDepth
    <3>2. QED
      BY <1>7, <1>9, <3>1
  <2>5. CurInv'
    BY <1>2, <1>5, <1>13, <1>14, <1>16, <2>1, <2>2, <2>4 DEF CurInv, Tracked
  <2>6. LogInv' /\ DecisionInv' /\ ReturnShowsItsCall'
    BY <1>0, <1>2, <1>13, <2>1 DEF LogInv, DecisionInv, ReturnShowsItsCall
  <2>7. HiddenInv'
    BY <1>0, <1>7, <1>9, <1>13, <2>1 DEF HiddenInv
  <2>8. QED
    BY <1>11, <1>12, <2>3, <2>5, <2>6, <2>7 DEF LoopInv
<1>17. CASE ~Passes(f, c)
  <2> PICK x : x = [kind |-> "entry", call |-> c, text |-> c.id, shown |-> FALSE,
                    since |-> ncmds, until |-> ncmds, by |-> f]
    OBVIOUS
  <2>1. pc' = pc /\ cur' = cur /\ log' = log \cup {x}
    BY <1>17 DEF ReadEntry, Passes, Log
  <2>2. /\ x.kind = "entry" /\ x.call = c /\ x.shown = FALSE /\ x.since = ncmds /\ x.until = ncmds /\ x.by = f
        /\ x.text = c.id
    OBVIOUS
  <2>3. TypeOK'
    <3>1. x \in [kind: {"entry", "return"}, call: Calls, text: 0..MaxCalls, shown: BOOLEAN,
                 since: 0..ncmds', until: 0..ncmds', by: Filters]
      <4>1. ncmds \in 0..ncmds' /\ c.id \in 0..MaxCalls
        BY <1>2, <1>5, SeqFacts
      <4>2. QED
        BY <1>3, <4>1 DEF TypeOK
    <3>2. QED
      BY <1>1, <1>2, <1>3, <1>15, <2>1, <3>1 DEF TypeOK
  <2>4. ~ShownEntry(x)
    BY <1>17, <2>2 DEF ShownEntry
  <2>5. LogInv' /\ DecisionInv' /\ ReturnShowsItsCall'
    <3>1. x.since <= x.until
      BY <2>2, SeqFacts
    <3>2. QED
      BY <1>0, <1>2, <1>3, <1>5, <1>13, <1>14, <2>1, <2>2, <2>4, <3>1, LogStep
  <2>6. HiddenInv'
    BY <1>0, <1>7, <1>9, <1>13, <1>17, <2>1, <2>2 DEF HiddenInv
  <2>7. CurInv'
    BY <1>1, <2>1 DEF CurInv
  <2>8. QED
    BY <1>11, <1>12, <2>3, <2>5, <2>6, <2>7 DEF LoopInv
<1>18. QED
  BY <1>16, <1>17

LEMMA EntryLineStep ==
  ASSUME TypeOK, TargetInv, FramesInv, LoopInv, EntryLine
  PROVE  TypeOK' /\ FramesInv' /\ LoopInv'
<1> PICK c : c = cur[1].call
  OBVIOUS
<1> PICK since : since = cur[1].since
  OBVIOUS
<1>0. TextInv /\ CurInv /\ LogInv /\ HiddenInv /\ DecisionInv /\ ReturnShowsItsCall
  BY DEF LoopInv
<1> DEFINE line == MatchLine(f, c.slot, "name", CallWords[c.slot], c.mod)
           shown == (c.known \/ Verbose) /\ line
           x == [kind |-> "entry", call |-> c, text |-> c.id, shown |-> shown,
                 since |-> since, until |-> ncmds, by |-> f]
<1>1. /\ pc = "entry" /\ pc' \in {"read", "crashed"}
      /\ frames' = IF c.slot \in CallSlots /\ Key(c) \in DOMAIN frames
                     THEN [frames EXCEPT ![Key(c)].text = c.id] ELSE frames
      /\ log' = log \cup {x}
      /\ UNCHANGED <<retSet, open, ncalls, queue, reader, f, stats, ncmds>>
  BY DEF EntryLine, Emit, Log, targetVars, consoleVars
<1>2. c \in Calls /\ since \in 0..ncmds /\ c.id \in 1..MaxCalls
  BY <1>1 DEF TypeOK, Calls
<1>3. /\ c.id <= ncalls /\ ~Queued("entry", c)
      /\ Key(c) \in DOMAIN frames => frames[Key(c)].call = c
      /\ \A r \in log : r.call # c
      /\ since = ncmds => Passes(f, c)
  BY <1>0, <1>1 DEF CurInv
<1>4. \A k, d : Queued(k, d)' <=> Queued(k, d)
  BY <1>1 DEF Queued
<1>5. shown \in BOOLEAN /\ line \in BOOLEAN
  BY DEF MatchLine
<1>6. /\ x.kind = "entry" /\ x.call = c /\ x.since = since /\ x.until = ncmds /\ x.by = f
      /\ x.text = c.id /\ (x.shown <=> shown)
  OBVIOUS
<1>7. x \in [kind: {"entry", "return"}, call: Calls, text: 0..MaxCalls, shown: BOOLEAN,
             since: 0..ncmds, until: 0..ncmds, by: Filters]
  <2>1. ncmds \in 0..ncmds /\ c.id \in 0..MaxCalls /\ f \in Filters
    BY <1>2, SeqFacts DEF TypeOK
  <2> HIDE DEF shown
  <2>2. QED
    BY <1>2, <1>5, <2>1
<1>8. since = ncmds => (x.shown <=> ShownEntry(x))
  BY <1>3, <1>6 DEF ShownEntry
<1> HIDE DEF x, shown, line
<1>9. /\ DOMAIN frames' = DOMAIN frames
      /\ \A k \in DOMAIN frames :
           /\ frames'[k].call = frames[k].call
           /\ frames'[k].text = IF c.slot \in CallSlots /\ k = Key(c) THEN c.id ELSE frames[k].text
           /\ frames'[k] \in [call: Calls, text: 0..MaxCalls]
  <2>1. \A k \in DOMAIN frames : frames[k] \in [call: Calls, text: 0..MaxCalls]
    BY DEF TypeOK
  <2>2. c.id \in 0..MaxCalls
    BY <1>2
  <2>3. QED
    BY <1>1, <2>1, <2>2
<1>10. FramesInv'
  <2>1. \A d : (Tracked(d)' <=> Tracked(d)) /\ (IsOpen(d)' <=> IsOpen(d)) /\ (Framed(d)' <=> Framed(d))
    BY <1>1, <1>9 DEF Tracked, IsOpen, Framed
  <2>2. \A k \in DOMAIN frames' : Key(frames'[k].call) = k
    BY <1>9 DEF FramesInv
  <2>3. QED
    BY <1>4, <2>1, <2>2 DEF FramesInv
<1>11. TypeOK'
  BY <1>1, <1>7, <1>9 DEF TypeOK
<1>12. TextInv'
  BY <1>0, <1>3, <1>9 DEF TextInv
<1>13. CurInv'
  BY <1>1 DEF CurInv
<1>14. LogInv' /\ DecisionInv' /\ ReturnShowsItsCall'
  <2>1. x.since <= x.until
    BY <1>2, <1>6, SeqFacts
  <2>2. \A r \in log : ~Queued("entry", r.call)'
    BY <1>0, <1>4 DEF LogInv
  <2>3. QED
    BY <1>0, <1>1, <1>2, <1>3, <1>4, <1>6, <1>8, <2>1, <2>2, LogStep
<1>15. HiddenInv'
  <2> SUFFICES ASSUME NEW k \in DOMAIN frames, NEW e \in log', e.kind = "entry",
                      e.call = frames'[k].call, frames'[k].text = NoText
               PROVE  e.since = e.until /\ ~Passes(e.by, e.call)
    BY <1>9 DEF HiddenInv
  <2>1. CASE e \in log
    <3>1. frames[k].text = NoText
      BY <1>2, <1>9 DEF NoText
    <3>2. QED
      BY <1>0, <1>9, <2>1, <3>1 DEF HiddenInv
  <2>2. CASE e = x
    <3>1. frames[k].call = c /\ k = Key(c)
      BY <1>6, <1>9, <2>2 DEF FramesInv
    <3>2. c.slot \notin CallSlots /\ frames[k].text = NoText
      BY <1>2, <1>9, <3>1 DEF NoText
    <3>3. QED
      BY <1>0, <1>2, <3>1, <3>2 DEF TextInv, NoText
  <2>3. QED
    BY <1>1, <2>1, <2>2
<1>16. QED
  BY <1>10, <1>11, <1>12, <1>13, <1>14, <1>15 DEF LoopInv

LEMMA ReadReturnStep ==
  ASSUME TypeOK, TargetInv, FramesInv, LoopInv, ReadReturn
  PROVE  TypeOK' /\ FramesInv' /\ LoopInv'
<1> PICK c : c = Head(queue).call
  OBVIOUS
<1>0. TextInv /\ CurInv /\ LogInv /\ HiddenInv /\ DecisionInv /\ ReturnShowsItsCall
  BY DEF LoopInv
<1>1. ReadRecord("return") /\ pc = "read" /\ frames' = Delete(frames, Key(c))
  BY DEF ReadReturn, ReadRecord
<1>2. UNCHANGED <<retSet, open, ncalls, reader, f, stats, ncmds>>
  BY <1>1 DEF ReadRecord, targetVars, consoleVars
<1>3. /\ queue' \in Seq([kind: {"entry", "return"}, call: Calls])
      /\ c \in Calls /\ At("return", c, 1)
      /\ \A k \in {"entry", "return"} : \A d : Queued(k, d)' <=> Queued(k, d) /\ ~(k = "return" /\ d = c)
  BY <1>1, ReadEffect DEF TargetInv
<1>4. /\ Key(c) \in DOMAIN frames /\ frames[Key(c)].call = c
      /\ ~Queued("entry", c) /\ ~IsOpen(c) /\ Tracked(c) /\ Present(c)
  BY <1>3, FrameThere
<1>5. c.id <= ncalls /\ c.id \in 1..MaxCalls
  BY <1>3, <1>4 DEF TargetInv, IdInv, Calls
<1>6. /\ \A k : k \in DOMAIN frames' <=> k \in DOMAIN frames /\ k # Key(c)
      /\ \A k \in DOMAIN frames' : frames'[k] = frames[k]
  BY <1>1 DEF Delete
<1>7. FramesInv'
  <2>1. \A d : (Tracked(d)' <=> Tracked(d)) /\ (IsOpen(d)' <=> IsOpen(d))
    BY <1>2 DEF Tracked, IsOpen
  <2>2. \A d : Framed(d)' <=> Framed(d) /\ d # c
    BY <1>4, <1>6 DEF Framed, FramesInv
  <2>3. \A k \in DOMAIN frames' : Key(frames'[k].call) = k
    BY <1>6 DEF FramesInv
  <2>4. \A d \in Calls :
          Framed(d)' <=> Tracked(d)' /\ (IsOpen(d)' \/ Queued("return", d)') /\ ~Queued("entry", d)'
    BY <1>3, <1>4, <2>1, <2>2 DEF FramesInv
  <2>5. QED
    BY <2>3, <2>4 DEF FramesInv
<1>8. TextInv'
  BY <1>0, <1>6 DEF TextInv
<1>9. ~Queued("entry", c)' /\ \A r \in log : ~Queued("entry", r.call)'
  BY <1>0, <1>3, <1>4 DEF LogInv
<1>10. /\ DOMAIN frames' \subseteq Threads \X Nat
       /\ \A k \in DOMAIN frames' : frames'[k] \in [call: Calls, text: 0..MaxCalls]
  BY <1>6 DEF TypeOK
<1>11. frames[Key(c)] \in [call: Calls, text: 0..MaxCalls]
  BY <1>4 DEF TypeOK
<1>12. \A e \in log : e.until <= ncmds
  BY SeqFacts DEF TypeOK
<1>13. CASE Passes(f, c) /\ frames[Key(c)].text # NoText
  <2>1. /\ pc' = "return" /\ log' = log
        /\ cur' = <<[call |-> c, since |-> ncmds, frame |-> frames[Key(c)]]>>
    BY <1>4, <1>13 DEF ReadReturn, Passes
  <2>2. Len(cur') = 1 /\ cur'[1].call = c /\ cur'[1].since = ncmds /\ cur'[1].frame = frames[Key(c)]
    BY <2>1
  <2>3. frames[Key(c)].text = c.id
    BY <1>0, <1>4, <1>13 DEF TextInv
  <2>4. TypeOK'
    <3>1. ncmds \in 0..ncmds'
      BY <1>2, SeqFacts
    <3>2. frames[Key(c)] \in [call: Calls, text: 1..MaxCalls]
      BY <1>5, <1>11, <2>3
    <3>3. QED
      BY <1>2, <1>3, <1>10, <2>1, <2>2, <3>1, <3>2 DEF TypeOK
  <2>5. CurInv'
    BY <1>2, <1>4, <1>5, <1>9, <1>12, <1>13, <2>1, <2>2, <2>3 DEF CurInv
  <2>6. LogInv' /\ DecisionInv' /\ ReturnShowsItsCall'
    BY <1>0, <1>2, <1>9, <2>1 DEF LogInv, DecisionInv, ReturnShowsItsCall
  <2>7. HiddenInv'
    BY <1>0, <1>6, <2>1 DEF HiddenInv
  <2>8. QED
    BY <1>7, <1>8, <2>4, <2>5, <2>6, <2>7 DEF LoopInv
<1>14. CASE ~(Passes(f, c) /\ frames[Key(c)].text # NoText)
  <2> PICK x : x = [kind |-> "return", call |-> c, text |-> NoText, shown |-> FALSE,
                    since |-> ncmds, until |-> ncmds, by |-> f]
    OBVIOUS
  <2>1. pc' = pc /\ cur' = cur /\ log' = log \cup {x}
    BY <1>4, <1>14 DEF ReadReturn, Passes, Log
  <2>2. /\ x.kind = "return" /\ x.call = c /\ x.shown = FALSE /\ x.since = ncmds /\ x.until = ncmds /\ x.by = f
        /\ x.text = NoText
    OBVIOUS
  <2>3. TypeOK'
    <3>1. x \in [kind: {"entry", "return"}, call: Calls, text: 0..MaxCalls, shown: BOOLEAN,
                 since: 0..ncmds', until: 0..ncmds', by: Filters]
      <4>1. ncmds \in 0..ncmds' /\ NoText \in 0..MaxCalls
        BY <1>2, SeqFacts, TraceAssumption DEF NoText
      <4>2. QED
        BY <1>3, <4>1 DEF TypeOK
    <3>2. QED
      BY <1>1, <1>2, <1>3, <1>10, <2>1, <3>1 DEF TypeOK
  <2>4. \A e \in log : (/\ e.kind = "entry" /\ x.kind = "return" /\ e.call = x.call
                        /\ e.since = e.until /\ e.until = x.until) => (x.shown <=> ShownReturn(x))
    <3> SUFFICES ASSUME NEW e \in log, e.kind = "entry", e.call = c, e.until = ncmds
                 PROVE  ~Passes(f, c)
      BY <2>2 DEF ShownReturn
    <3>1. frames[Key(c)].text = NoText => ~Passes(e.by, c)
      BY <1>0, <1>4 DEF HiddenInv
    <3>2. e.by = f
      BY <1>0 DEF LogInv
    <3>3. QED
      BY <1>14, <3>1, <3>2
  <2>5. LogInv' /\ DecisionInv' /\ ReturnShowsItsCall'
    <3>1. x.since <= x.until
      BY <2>2, SeqFacts
    <3>2. x.kind # "entry" /\ \A e \in log : e.until <= x.since
      BY <1>12, <2>2
    <3>3. QED
      BY <1>0, <1>2, <1>3, <1>5, <1>9, <2>1, <2>2, <2>4, <3>1, <3>2, LogStep
  <2>6. HiddenInv'
    BY <1>0, <1>6, <2>1, <2>2 DEF HiddenInv
  <2>7. CurInv'
    BY <1>1, <2>1 DEF CurInv
  <2>8. QED
    BY <1>7, <1>8, <2>3, <2>5, <2>6, <2>7 DEF LoopInv
<1>15. QED
  BY <1>13, <1>14

LEMMA ReturnLineStep ==
  ASSUME TypeOK, TargetInv, FramesInv, LoopInv, ReturnLine
  PROVE  TypeOK' /\ FramesInv' /\ LoopInv'
<1> PICK c : c = cur[1].call
  OBVIOUS
<1> PICK since : since = cur[1].since
  OBVIOUS
<1>0. TextInv /\ CurInv /\ LogInv /\ HiddenInv /\ DecisionInv /\ ReturnShowsItsCall
  BY DEF LoopInv
<1> DEFINE shown == MatchLine(f, c.slot, "text", CallWords[c.slot] \cup RetWords[c.slot], c.mod)
           x == [kind |-> "return", call |-> c, text |-> c.id, shown |-> shown,
                 since |-> since, until |-> ncmds, by |-> f]
<1>1. pc = "return"
  BY DEF ReturnLine
<1>2. /\ c.id <= ncalls /\ ~Queued("entry", c)
      /\ cur[1].frame.call = c /\ cur[1].frame.text = c.id
      /\ \A r \in log : r.call = c /\ r.kind = "entry" => r.until <= since
      /\ since = ncmds => Passes(f, c)
  BY <1>0, <1>1 DEF CurInv
<1>3. /\ pc' \in {"read", "crashed"}
      /\ log' = log \cup {x}
      /\ UNCHANGED <<retSet, open, ncalls, queue, frames, reader, f, stats, ncmds>>
  BY <1>2 DEF ReturnLine, Emit, Log, targetVars, consoleVars
<1>4. c \in Calls /\ since \in 0..ncmds /\ c.id \in 1..MaxCalls
  BY <1>1 DEF TypeOK, Calls
<1>5. \A k, d : Queued(k, d)' <=> Queued(k, d)
  BY <1>3 DEF Queued
<1>6. shown \in BOOLEAN
  BY DEF MatchLine
<1>7. /\ x.kind = "return" /\ x.call = c /\ x.since = since /\ x.until = ncmds /\ x.by = f
      /\ x.text = c.id /\ (x.shown <=> shown)
  OBVIOUS
<1>8. x \in [kind: {"entry", "return"}, call: Calls, text: 0..MaxCalls, shown: BOOLEAN,
             since: 0..ncmds, until: 0..ncmds, by: Filters]
  <2>1. ncmds \in 0..ncmds /\ c.id \in 0..MaxCalls /\ f \in Filters
    BY <1>4, SeqFacts DEF TypeOK
  <2> HIDE DEF shown
  <2>2. QED
    BY <1>4, <1>6, <2>1
<1>9. since = ncmds => (x.shown <=> ShownReturn(x))
  BY <1>2, <1>7 DEF ShownReturn
<1> HIDE DEF x, shown
<1>10. FramesInv'
  <2>1. \A d : (Tracked(d)' <=> Tracked(d)) /\ (IsOpen(d)' <=> IsOpen(d)) /\ (Framed(d)' <=> Framed(d))
    BY <1>3 DEF Tracked, IsOpen, Framed
  <2>2. QED
    BY <1>3, <1>5, <2>1 DEF FramesInv
<1>11. TypeOK'
  BY <1>3, <1>8 DEF TypeOK
<1>12. TextInv' /\ CurInv'
  BY <1>0, <1>3 DEF TextInv, CurInv
<1>13. LogInv' /\ DecisionInv' /\ ReturnShowsItsCall'
  <2>1. x.since <= x.until
    BY <1>4, <1>7, SeqFacts
  <2>2. \A r \in log : ~Queued("entry", r.call)'
    BY <1>0, <1>5 DEF LogInv
  <2>3. \A e \in log : (/\ e.kind = "entry" /\ x.kind = "return" /\ e.call = x.call
                        /\ e.since = e.until /\ e.until = x.until) => (x.shown <=> ShownReturn(x))
    <3> SUFFICES ASSUME NEW e \in log, e.kind = "entry", e.call = c, e.until = ncmds
                 PROVE  x.shown <=> ShownReturn(x)
      BY <1>7
    <3>1. ncmds <= since
      BY <1>2
    <3>2. since = ncmds
      BY <1>4, <3>1, SeqFacts
    <3>3. QED
      BY <1>9, <3>2
  <2>4. x.kind # "entry"
    BY <1>7
  <2>5. QED
    BY <1>0, <1>2, <1>3, <1>4, <1>5, <1>7, <2>1, <2>2, <2>3, <2>4, LogStep
<1>14. HiddenInv'
  <2>1. \A r \in log' : r \in log \/ (r = x /\ r.kind # "entry")
    BY <1>3, <1>7
  <2>2. QED
    BY <1>0, <1>3, <2>1 DEF HiddenInv
<1>15. QED
  BY <1>10, <1>11, <1>12, <1>13, <1>14 DEF LoopInv

-----------------------------------------------------------------------------
(* The loop does not move: a call, a return, a command, the end of a       *)
(* trace.  A command counts, so nothing decided before it is decided by    *)
(* the new filters.                                                        *)
LEMMA LoopSame ==
  ASSUME TypeOK, LoopInv, UNCHANGED <<frames, cur, log, retSet>>,
         pc' = pc \/ pc' \notin {"entry", "return"},
         (UNCHANGED <<f, ncmds>>) \/ ncmds' = ncmds + 1,
         ncalls' \in Nat, ncalls <= ncalls',
         \A d \in Calls : d.id <= ncalls /\ ~Queued("entry", d) => ~Queued("entry", d)'
  PROVE  LoopInv'
<1> USE DEF LoopInv
<1>1. ncalls \in Nat /\ ncmds \in Nat
  BY SeqFacts
<1>2. \A r \in log : /\ r.call \in Calls /\ r.call.id \in Nat /\ r.until \in 0..ncmds
  BY DEF TypeOK, Calls
<1>3. TextInv'
  BY DEF TextInv
<1>4. HiddenInv' /\ DecisionInv' /\ ReturnShowsItsCall'
  BY DEF HiddenInv, DecisionInv, ReturnShowsItsCall, ShownEntry, ShownReturn
<1>5. LogInv'
  <2>1. \A r \in log : r.call.id <= ncalls' /\ ~Queued("entry", r.call)'
    BY <1>1, <1>2 DEF LogInv
  <2>2. \A r \in log : r.since <= r.until /\ (r.until = ncmds' => r.by = f')
    BY <1>1, <1>2 DEF LogInv
  <2>3. QED
    BY <2>1, <2>2 DEF LogInv
<1>6. CurInv'
  <2>1. CASE pc' \notin {"entry", "return"}
    BY <2>1 DEF CurInv
  <2>2. CASE pc' = pc /\ pc \in {"entry", "return"}
    <3>1. cur[1].call \in Calls /\ cur[1].call.id \in Nat /\ cur[1].since \in 0..ncmds
      BY <2>2 DEF TypeOK, Calls
    <3>2. cur[1].call.id <= ncalls /\ ~Queued("entry", cur[1].call)
      BY <2>2 DEF CurInv
    <3>3. PICK c : c = cur[1].call
      OBVIOUS
    <3>4. c.id <= ncalls' /\ ~Queued("entry", c)'
      BY <1>1, <3>1, <3>2, <3>3
    <3>5. cur[1].since = ncmds' => ncmds' = ncmds /\ f' = f
      BY <1>1, <3>1
    <3>6. cur' = cur /\ cur'[1].call = c
      BY <3>3
    <3>7. QED
      BY <2>2, <3>3, <3>4, <3>5, <3>6 DEF CurInv, Passes, Key
  <2>3. QED
    BY <2>1, <2>2
<1>7. QED
  BY <1>3, <1>4, <1>5, <1>6

(* The target does not move.                                               *)
LEMMA TargetSame ==
  ASSUME TargetInv, UNCHANGED <<open, queue, retSet, ncalls>>
  PROVE  TargetInv' /\ (FramesInv /\ UNCHANGED frames => FramesInv')
<1> USE DEF IsOpen, At, Queued, Present, Tracked
<1>1. IdInv'
  BY DEF TargetInv, IdInv
<1>2. StackInv'
  BY DEF TargetInv, StackInv, Below
<1>3. RecordInv'
  BY DEF TargetInv, RecordInv
<1>4. KeyInv'
  BY DEF TargetInv, KeyInv, Key
<1>5. FramesInv /\ UNCHANGED frames => FramesInv'
  BY DEF FramesInv, Framed, Key
<1>6. QED
  BY <1>1, <1>2, <1>3, <1>4, <1>5 DEF TargetInv

(* The commands leave filters behind.                                      *)
LEMMA CommandFilters ==
  ASSUME TypeOK
  PROVE  /\ \A l \in SlotLists : [f EXCEPT !.only = l] \in Filters /\ [f EXCEPT !.exclude = l] \in Filters
         /\ \A l \in ModuleLists : [f EXCEPT !.from = l] \in Filters
         /\ \A w \in Words \cup {None} : [f EXCEPT !.grep = w] \in Filters
         /\ \A m \in SUBSET (Range(Cat) \cup {"all"}) : [f EXCEPT !.modes = m] \in Filters
         /\ [modes |-> {"all"}, only |-> {}, exclude |-> {}, from |-> {}, grep |-> None, re |-> {}] \in Filters
<1>1. f \in Filters
  BY DEF TypeOK
<1>2. SlotLists \subseteq SUBSET SUBSET Slots /\ ModuleLists \subseteq SUBSET SUBSET Modules
  BY TraceAssumption
<1>3. QED
  BY <1>1, <1>2 DEF Filters

(* The types survive a step of the console, the reader or the end of the   *)
(* loop.                                                                   *)
LEMMA ConsoleTypes ==
  ASSUME TypeOK, UNCHANGED <<open, queue, retSet, ncalls, frames, cur, log>>,
         f' \in Filters, ncmds' = ncmds \/ (ncmds < MaxCmds /\ ncmds' = ncmds + 1),
         stats' \in BOOLEAN, reader' \in {"open", "closed"},
         pc' = pc \/ pc' \in {"done", "exit"}
  PROVE  TypeOK'
<1>1. ncmds \in Nat /\ ncmds' \in 0..MaxCmds /\ ncmds <= ncmds' /\ ncmds' \in Nat
  BY TraceAssumption DEF TypeOK
<1>2. 0..ncmds \subseteq 0..ncmds'
  BY <1>1
<1>3. log' \subseteq [kind: {"entry", "return"}, call: Calls, text: 0..MaxCalls, shown: BOOLEAN,
                      since: 0..ncmds', until: 0..ncmds', by: Filters]
  BY <1>2 DEF TypeOK
<1>4. /\ pc' \in {"read", "entry", "return", "done", "exit", "crashed"}
      /\ pc' \in {"entry", "return"} => pc' = pc
  BY DEF TypeOK
<1>5. /\ pc' \in {"entry", "return"} => Len(cur') = 1 /\ cur'[1].call \in Calls /\ cur'[1].since \in 0..ncmds'
      /\ pc' = "return" => cur'[1].frame \in [call: Calls, text: 1..MaxCalls]
  BY <1>2, <1>4 DEF TypeOK
<1>6. QED
  BY <1>1, <1>3, <1>4, <1>5 DEF TypeOK

LEMMA ConsoleStep ==
  ASSUME TraceInv, UNCHANGED <<open, queue, retSet, ncalls, frames, cur, log>>,
         f' \in Filters, (UNCHANGED <<f, ncmds>>) \/ (ncmds < MaxCmds /\ ncmds' = ncmds + 1),
         stats' \in BOOLEAN, reader' \in {"open", "closed"},
         pc' = pc \/ pc' \in {"done", "exit"}
  PROVE  TraceInv'
<1>1. TypeOK'
  BY ConsoleTypes DEF TraceInv
<1>2. TargetInv' /\ FramesInv'
  BY TargetSame DEF TraceInv
<1>3. \A d \in Calls : ~Queued("entry", d) => ~Queued("entry", d)'
  BY DEF Queued
<1>4. ncalls \in Nat /\ ncalls <= ncalls' /\ ncalls' \in Nat
  BY SeqFacts DEF TraceInv
<1>5. LoopInv'
  BY <1>3, <1>4, LoopSame DEF TraceInv
<1>6. QED
  BY <1>1, <1>2, <1>5 DEF TraceInv

LEMMA InitTrace ==
  ASSUME Init
  PROVE  TraceInv
<1> USE DEF Init
<1>1. f \in Filters
  BY TraceAssumption
<1>2. RetSet(f) \subseteq Slots
  BY DEF RetSet
<1>3. TypeOK
  <2>1. open \in [Threads -> Seq(Calls)] /\ queue \in Seq([kind: {"entry", "return"}, call: Calls])
    BY EmptySeq
  <2>2. DOMAIN frames = {}
    OBVIOUS
  <2>3. ncalls \in 0..MaxCalls /\ ncmds \in 0..MaxCmds
    BY TraceAssumption
  <2>4. log \subseteq [kind: {"entry", "return"}, call: Calls, text: 0..MaxCalls, shown: BOOLEAN,
                      since: 0..ncmds, until: 0..ncmds, by: Filters]
    OBVIOUS
  <2>5. pc = "read"
    OBVIOUS
  <2>6. f \in Filters /\ retSet \subseteq Slots /\ reader = "open" /\ stats \in BOOLEAN
    BY <1>1, <1>2
  <2> HIDE DEF Init
  <2>7. QED
    BY <2>1, <2>2, <2>3, <2>4, <2>5, <2>6 DEF TypeOK
<1>4. Len(queue) = 0 /\ \A t \in Threads : Len(open[t]) = 0
  BY EmptySeq
<1>5. /\ \A c : ~IsOpen(c)
      /\ \A k, c, i : ~At(k, c, i)
      /\ \A k, c : ~Queued(k, c)
      /\ \A c : ~Present(c)
  BY <1>4 DEF IsOpen, At, Queued, Present
<1>6. TargetInv
  BY <1>4, <1>5 DEF TargetInv, IdInv, StackInv, RecordInv, KeyInv
<1>7. FramesInv
  BY <1>5 DEF FramesInv, Framed
<1>8. LoopInv
  BY DEF LoopInv, TextInv, CurInv, LogInv, HiddenInv, DecisionInv, ReturnShowsItsCall
<1>9. QED
  BY <1>3, <1>6, <1>7, <1>8 DEF TraceInv

LEMMA LoopStep ==
  ASSUME TraceInv, Loop
  PROVE  TraceInv'
<1> USE DEF TraceInv
<1>1. CASE ReadEntry
  BY <1>1, ReadEntryStep, ReadTarget DEF ReadEntry
<1>2. CASE EntryLine
  <2>1. UNCHANGED <<open, queue, retSet, ncalls>>
    BY <1>2 DEF EntryLine, targetVars
  <2>2. QED
    BY <1>2, <2>1, EntryLineStep, TargetSame
<1>3. CASE ReadReturn
  BY <1>3, ReadReturnStep, ReadTarget DEF ReadReturn
<1>4. CASE ReturnLine
  <2>1. UNCHANGED <<open, queue, retSet, ncalls>>
    BY <1>4 DEF ReturnLine, targetVars
  <2>2. QED
    BY <1>4, <2>1, ReturnLineStep, TargetSame
<1>5. CASE Done
  <2>1. /\ UNCHANGED <<open, queue, retSet, ncalls, frames, cur, log>>
        /\ UNCHANGED <<f, ncmds>> /\ pc' = "done" /\ stats' = stats /\ reader' = reader
    BY <1>5 DEF Done, targetVars, consoleVars
  <2>2. f' \in Filters /\ stats' \in BOOLEAN /\ reader' \in {"open", "closed"}
    BY <2>1 DEF TypeOK
  <2>3. QED
    BY <2>1, <2>2, ConsoleStep
<1>6. QED
  BY <1>1, <1>2, <1>3, <1>4, <1>5 DEF Loop

LEMMA CommandStep ==
  ASSUME TraceInv, NEW g \in Filters, Command(g)
  PROVE  TraceInv'
<1>1. /\ UNCHANGED <<open, queue, retSet, ncalls, frames, cur, log>>
      /\ f' = g /\ ncmds < MaxCmds /\ ncmds' = ncmds + 1 /\ pc' = pc /\ stats' = stats /\ reader' = reader
  BY DEF Command, targetVars, loopVars
<1>2. stats' \in BOOLEAN /\ reader' \in {"open", "closed"}
  BY <1>1 DEF TraceInv, TypeOK
<1>3. QED
  BY <1>1, <1>2, ConsoleStep

LEMMA ConsoleActions ==
  ASSUME TraceInv, Console \/ Signal \/ Timer \/ UNCHANGED vars
  PROVE  TraceInv'
<1>0. TypeOK /\ f \in Filters /\ stats \in BOOLEAN /\ reader \in {"open", "closed"}
  BY DEF TraceInv, TypeOK
<1>1. CASE CmdOnly
  BY <1>0, <1>1, CommandFilters, CommandStep DEF CmdOnly
<1>2. CASE CmdExclude
  BY <1>0, <1>2, CommandFilters, CommandStep DEF CmdExclude
<1>3. CASE CmdFrom
  BY <1>0, <1>3, CommandFilters, CommandStep DEF CmdFrom
<1>4. CASE CmdGrep
  BY <1>0, <1>4, CommandFilters, CommandStep DEF CmdGrep
<1>5. CASE CmdMode
  BY <1>0, <1>5, CommandFilters, CommandStep DEF CmdMode
<1>6. CASE CmdClear
  BY <1>0, <1>6, CommandFilters, CommandStep DEF CmdClear
<1>7. CASE StatsBegin
  <2>1. /\ UNCHANGED <<open, queue, retSet, ncalls, frames, cur, log>>
        /\ f' = f /\ ncmds < MaxCmds /\ ncmds' = ncmds + 1 /\ pc' = pc /\ reader' = reader
        /\ stats' = Counted
    BY <1>7 DEF StatsBegin, targetVars, loopVars
  <2>2. Counted \in BOOLEAN
    BY TraceAssumption DEF Counted
  <2>3. QED
    BY <1>0, <2>1, <2>2, ConsoleStep
<1>8. CASE StatsEnd
  <2>1. /\ UNCHANGED <<open, queue, retSet, ncalls, frames, cur, log>>
        /\ UNCHANGED <<f, ncmds>> /\ pc' = pc /\ reader' = reader /\ stats' = FALSE
    BY <1>8 DEF StatsEnd, targetVars, loopVars
  <2>2. QED
    BY <1>0, <2>1, ConsoleStep
<1>9. CASE Quit
  <2>1. /\ UNCHANGED <<open, queue, retSet, ncalls, frames, cur, log>>
        /\ f' = f /\ ncmds < MaxCmds /\ ncmds' = ncmds + 1 /\ pc' = "exit" /\ reader' = reader
        /\ stats' = stats
    BY <1>9 DEF Quit, targetVars
  <2>2. QED
    BY <1>0, <2>1, ConsoleStep
<1>10. CASE Signal \/ Timer
  <2>1. /\ UNCHANGED <<open, queue, retSet, ncalls, frames, cur, log>>
        /\ UNCHANGED <<f, ncmds>> /\ pc' = pc /\ reader' = "closed" /\ stats' = stats
    BY <1>10 DEF Signal, Timer, CloseReader, targetVars, loopVars, consoleVars
  <2>2. QED
    BY <1>0, <2>1, ConsoleStep
<1>11. CASE UNCHANGED vars
  <2>1. /\ UNCHANGED <<open, queue, retSet, ncalls, frames, cur, log>>
        /\ UNCHANGED <<f, ncmds>> /\ pc' = pc /\ reader' = reader /\ stats' = stats
    BY <1>11 DEF vars
  <2>2. QED
    BY <1>0, <2>1, ConsoleStep
<1>12. QED
  BY <1>1, <1>2, <1>3, <1>4, <1>5, <1>6, <1>7, <1>8, <1>9, <1>10, <1>11 DEF Console

LEMMA TargetStep ==
  ASSUME TraceInv, Target
  PROVE  TraceInv'
<1>0. TypeOK /\ TargetInv /\ FramesInv /\ LoopInv /\ ncalls \in Nat
  BY SeqFacts DEF TraceInv
<1>1. PICK t \in Threads :
        Return(t) \/ \E s \in Slots, mod \in Modules \cup {None}, known \in BOOLEAN : Call(t, s, mod, known)
  BY DEF Target
<1>2. CASE Return(t)
  <2>1. /\ TargetInv' /\ FramesInv' /\ TypeOK'
        /\ \A d \in Calls : ~Queued("entry", d) => ~Queued("entry", d)'
    BY <1>0, <1>2, ReturnTarget
  <2>2. /\ UNCHANGED <<frames, cur, log, retSet>> /\ UNCHANGED <<f, ncmds>> /\ pc' = pc
        /\ ncalls' = ncalls
    BY <1>2 DEF Return, loopVars, consoleVars
  <2>3. LoopInv'
    BY <1>0, <2>1, <2>2, LoopSame
  <2>4. QED
    BY <2>1, <2>3 DEF TraceInv
<1>3. ASSUME NEW s \in Slots, NEW mod \in Modules \cup {None}, NEW known \in BOOLEAN,
             Call(t, s, mod, known)
      PROVE  TraceInv'
  <2>1. /\ TargetInv' /\ FramesInv' /\ TypeOK'
        /\ \A d \in Calls : d.id <= ncalls /\ ~Queued("entry", d) => ~Queued("entry", d)'
    BY <1>0, <1>3, CallTarget
  <2>2. /\ UNCHANGED <<frames, cur, log, retSet>> /\ UNCHANGED <<f, ncmds>> /\ pc' = pc
        /\ ncalls' = ncalls + 1
    BY <1>3 DEF Call, loopVars, consoleVars
  <2>3. ncalls' \in Nat /\ ncalls <= ncalls'
    BY <1>0, <2>2
  <2>4. LoopInv'
    BY <1>0, <2>1, <2>2, <2>3, LoopSame
  <2>5. QED
    BY <2>1, <2>4 DEF TraceInv
<1>4. QED
  BY <1>1, <1>2, <1>3

(* The inductive invariant: where a call and its two records are, which    *)
(* calls may share a key of frames, and what the log and the loop between  *)
(* its two locks know of them.                                             *)
THEOREM TraceInvariant == Spec => []TraceInv
<1>1. Init => TraceInv
  BY InitTrace
<1>2. TraceInv /\ [Next]_vars => TraceInv'
  BY TargetStep, LoopStep, ConsoleActions DEF Next
<1>3. QED
  BY <1>1, <1>2, PTL DEF Spec

(* Type correctness, with the contents of frames, the records and the log. *)
THEOREM TraceTypeCorrect == Spec => []TypeOK
<1>1. TraceInv => TypeOK
  BY DEF TraceInv
<1>2. QED
  BY <1>1, TraceInvariant, PTL

-----------------------------------------------------------------------------
(* frames holds the calls that have been read entering and not yet         *)
(* returning (runProbe, handleReturn): nothing leaks and nothing is        *)
(* missing, for any number of threads and calls and any commands.          *)
THEOREM FramesHoldOpenCalls == Spec => []FramesAreOpenCalls
<1>1. ASSUME TypeOK, FramesInv
      PROVE  FramesAreOpenCalls
  <2>1. \A c : c \in UNION {Range(open[t]) : t \in Threads} <=> IsOpen(c)
    BY <1>1, SeqFacts DEF Range, IsOpen
  <2>2. DOMAIN queue = 1..Len(queue)
    BY <1>1, SeqFacts, LenProperties
  <2>3. \A k, c : c \in {e.call : e \in {x \in Range(queue) : x.kind = k}} <=> Queued(k, c)
    BY <2>2 DEF Range, Queued
  <2>4. \A c : c \in Unreturned <=> IsOpen(c) \/ Queued("return", c)
    BY <2>1, <2>3 DEF Unreturned
  <2>5. \A c : c \in Unread <=> Queued("entry", c)
    BY <2>3 DEF Unread
  <2>6. \A c : c \in {frames[k].call : k \in DOMAIN frames} <=> Framed(c)
    BY DEF Framed
  <2>7. \A c : Framed(c) => c \in Calls
    BY <1>1 DEF TypeOK, Framed
  <2>8. \A c : IsOpen(c) \/ Queued("return", c) => c \in Calls
    BY <1>1, PlaceTypes
  <2>9. \A c : c \in {frames[k].call : k \in DOMAIN frames} <=>
                 c \in {d \in Unreturned \ Unread : d.slot \in retSet}
    <3>1. \A c \in Calls : Framed(c) <=> Tracked(c) /\ c \in Unreturned /\ c \notin Unread
      BY <1>1, <2>4, <2>5 DEF FramesInv
    <3>2. QED
      BY <2>4, <2>6, <2>7, <2>8, <3>1 DEF Tracked
  <2>10. QED
    BY <1>1, <2>9 DEF FramesAreOpenCalls, FramesInv
<1>2. QED
  BY <1>1, TraceInvariant, PTL DEF TraceInv

(* The second line of a call shows the text of that call (handleReturn),   *)
(* whatever comes between its records and whatever the filters are.        *)
THEOREM ReturnsShowTheirCalls == Spec => []ReturnShowsItsCall
<1>1. TraceInv => ReturnShowsItsCall
  BY DEF TraceInv, LoopInv
<1>2. QED
  BY <1>1, TraceInvariant, PTL

(* Without a command in between the two lines of a call come together:     *)
(* the same filters decide about both (matchSlot and matchLine in runProbe *)
(* and handleReturn).                                                      *)
THEOREM LinesPaired == Spec => []LinesComeInPairs
<1>1. ASSUME TypeOK, LogInv, DecisionInv, NEW e \in log, NEW r \in log,
             e.kind = "entry", r.kind = "return", e.call = r.call, e.since = r.until,
             r.by.re = {} \/ r.call.slot \in CallSlots
      PROVE  /\ e.shown => r.shown
             /\ (/\ r.shown
                 /\ r.call.known \/ Verbose
                 /\ r.by.grep \notin RetWords[r.call.slot] \ CallWords[r.call.slot]) => e.shown
  <2>1. e.since \in Nat /\ e.until \in Nat /\ r.since \in Nat /\ r.until \in Nat
    BY <1>1, SeqFacts DEF TypeOK
  <2>2. e.since <= e.until /\ r.since <= r.until /\ e.until <= r.since
    BY <1>1 DEF LogInv
  <2>3. e.since = e.until /\ e.until = r.until
    BY <1>1, <2>1, <2>2
  <2>4. e.by = r.by
    BY <1>1, <2>3 DEF LogInv
  <2>5. e.shown <=> ShownEntry(e)
    BY <1>1, <2>3 DEF DecisionInv
  <2>6. r.shown <=> ShownReturn(r)
    BY <1>1, <2>3 DEF DecisionInv
  <2>7. (\A x \in r.by.re : ReText(r.call.slot, "name") \in x) <=>
        (\A x \in r.by.re : ReText(r.call.slot, "text") \in x)
    BY <1>1 DEF ReText
  <2>8. QED
    BY <1>1, <2>4, <2>5, <2>6, <2>7 DEF ShownEntry, ShownReturn, MatchLine
<1>2. TypeOK /\ LogInv /\ DecisionInv => LinesComeInPairs
  BY <1>1 DEF LinesComeInPairs
<1>3. TraceInv => LinesComeInPairs
  BY <1>2 DEF TraceInv, LoopInv
<1>4. QED
  BY <1>3, TraceInvariant, PTL
=============================================================================
