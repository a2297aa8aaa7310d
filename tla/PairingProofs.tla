--------------------------- MODULE PairingProofs ---------------------------
(***************************************************************************)
(* Proofs about Pairing, for every number of threads, offsets and calls    *)
(* and every capacity of the ring buffer and of the depth map.             *)
(***************************************************************************)
EXTENDS PairingInv, SequenceTheorems, TLAPS

-----------------------------------------------------------------------------
(* Facts about the operators the actions are made of.                      *)

(* Dropping the last call leaves the others where they are.                *)
LEMMA PopSeq ==
  ASSUME NEW S, NEW s \in Seq(S), s # << >>
  PROVE  /\ SubSeq(s, 1, Len(s) - 1) \in Seq(S)
         /\ Len(SubSeq(s, 1, Len(s) - 1)) = Len(s) - 1
         /\ \A i \in 1..(Len(s) - 1) : SubSeq(s, 1, Len(s) - 1)[i] = s[i]
         /\ Len(s) \in Nat \ {0}
         /\ s[Len(s)] \in S
<1>1. Len(s) \in Nat \ {0}
  BY EmptySeq, LenProperties
<1>2. \A i \in 1..Len(s) : s[i] \in S
  BY ElementOfSeq
<1> DEFINE n == Len(s) - 1
<1>3. n \in Nat /\ \A i \in 1..n : s[i] \in S
  BY <1>1, <1>2
<1> HIDE DEF n
<1>4. /\ SubSeq(s, 1, n) \in Seq(S)
      /\ Len(SubSeq(s, 1, n)) = IF 1 <= n THEN n - 1 + 1 ELSE 0
      /\ \A i \in 1..(n - 1 + 1) : SubSeq(s, 1, n)[i] = s[1 + i - 1]
  BY <1>3, SubSeqProperties
<1>5. /\ SubSeq(s, 1, n) \in Seq(S)
      /\ Len(SubSeq(s, 1, n)) = n
      /\ \A i \in 1..n : SubSeq(s, 1, n)[i] = s[i]
  BY <1>3, <1>4
<1>6. QED
  BY <1>1, <1>2, <1>5 DEF n

(* Appending a call leaves the others where they are.                      *)
LEMMA PushSeq ==
  ASSUME NEW S, NEW s \in Seq(S), NEW e \in S
  PROVE  /\ Append(s, e) \in Seq(S)
         /\ Append(s, e) # << >>
         /\ Len(Append(s, e)) = Len(s) + 1
         /\ \A i \in 1..Len(s) : Append(s, e)[i] = s[i]
         /\ Append(s, e)[Len(s) + 1] = e
         /\ Len(s) \in Nat
  BY AppendProperties, LenProperties

(* Reserving adds one record behind the others.                            *)
LEMMA ReserveFacts ==
  ASSUME ReconTypeOK, NEW t \in Threads, NEW r \in Record, Reserve(t, r)
  PROVE  /\ cons' = cons /\ prod' = prod + 1
         /\ cons' \in Nat /\ prod' \in Nat /\ cons' <= prod' /\ prod' - cons' <= RingCap
         /\ ring' \in [cons'..(prod' - 1) -> Record]
         /\ busy' \in [Threads -> {NoPos} \cup cons'..(prod' - 1)]
         /\ \A p \in cons..(prod - 1) : ring'[p] = ring[p]
         /\ ring'[prod] = r
         /\ busy'[t] = prod
         /\ \A u \in Threads : u # t => busy'[u] = busy[u]
  BY ReconAssumption DEF ReconTypeOK, Reserve, RingFull, NoPos

(* Submitting changes the reserved record alone.                           *)
LEMMA SubmitFacts ==
  ASSUME ReconTypeOK, NEW t \in Threads, busy[t] # NoPos,
         NEW d \in Nat \cup {NoDepth}, Submit(t, d)
  PROVE  /\ cons' = cons /\ prod' = prod
         /\ ring' \in [cons..(prod - 1) -> Record]
         /\ busy' \in [Threads -> {NoPos} \cup cons..(prod - 1)]
         /\ busy[t] \in cons..(prod - 1)
         /\ \A p \in cons..(prod - 1) : p # busy[t] => ring'[p] = ring[p]
         /\ ring'[busy[t]].kind = ring[busy[t]].kind
         /\ ring'[busy[t]].tid = ring[busy[t]].tid
         /\ ring'[busy[t]].call = ring[busy[t]].call
         /\ ring'[busy[t]].off = ring[busy[t]].off
         /\ ring'[busy[t]].depth = d
         /\ ring'[busy[t]].state = "ready"
         /\ busy'[t] = NoPos
         /\ \A u \in Threads : u # t => busy'[u] = busy[u]
<1> DEFINE r == [ring[busy[t]] EXCEPT !.depth = d, !.state = "ready"]
<1>1. busy[t] \in cons..(prod - 1)
  BY DEF ReconTypeOK
<1>2. ring[busy[t]] \in Record
  BY <1>1 DEF ReconTypeOK
<1>3. r \in Record
  BY <1>2 DEF Record, NoDepth
<1>4. /\ r.kind = ring[busy[t]].kind /\ r.tid = ring[busy[t]].tid
      /\ r.call = ring[busy[t]].call /\ r.off = ring[busy[t]].off
      /\ r.depth = d /\ r.state = "ready"
  BY <1>2 DEF Record
<1>5. ring' = [ring EXCEPT ![busy[t]] = r]
  BY DEF Submit
<1>6. ring' \in [cons..(prod - 1) -> Record]
  BY <1>1, <1>3, <1>5 DEF ReconTypeOK
<1>7. ring'[busy[t]] = r
  BY <1>1, <1>5 DEF ReconTypeOK
<1>8. \A p \in cons..(prod - 1) : p # busy[t] => ring'[p] = ring[p]
  BY <1>1, <1>5 DEF ReconTypeOK
<1> HIDE DEF r
<1>9. QED
  BY <1>1, <1>4, <1>6, <1>7, <1>8 DEF ReconTypeOK, Submit

(* Updating the depth of t: its key gets the value, or the map is full and *)
(* stays as it is.  A full map stays full.                                 *)
LEMMA UpdateFacts ==
  ASSUME ReconTypeOK, NEW t \in Threads, NEW nd \in Nat, UpdateDepth(t, nd)
  PROVE  /\ mapped' \subseteq Threads /\ depth' \in [Threads -> Nat]
         /\ t \in mapped => t \in mapped'
         /\ \A u \in Threads : u # t => (u \in mapped' <=> u \in mapped) /\ depth'[u] = depth[u]
         /\ t \in mapped' => depth'[t] = nd
         /\ t \notin mapped' => DepthFull /\ mapped' = mapped /\ depth' = depth
         /\ DepthFull => DepthFull' /\ mapped' = mapped
<1>1. CASE t \in mapped \/ ~DepthFull
  <2>1. /\ mapped' = mapped \cup {t}
        /\ depth' = [depth EXCEPT ![t] = nd]
    BY <1>1 DEF UpdateDepth
  <2>2. DepthFull => mapped' = mapped
    BY <1>1, <2>1
  <2>3. DepthFull => DepthFull'
    BY <2>2 DEF DepthFull
  <2>4. QED
    BY <2>1, <2>2, <2>3 DEF ReconTypeOK
<1>2. CASE t \notin mapped /\ DepthFull
  <2>1. mapped' = mapped /\ depth' = depth
    BY <1>2 DEF UpdateDepth, depthVars
  <2>2. DepthFull => DepthFull'
    BY <2>1 DEF DepthFull
  <2>3. QED
    BY <1>2, <2>1, <2>2 DEF ReconTypeOK
<1>3. QED
  BY <1>1, <1>2

-----------------------------------------------------------------------------
(* Type correctness.                                                       *)

LEMMA NewCallType ==
  ASSUME TypeOK, NEW t \in Threads, NEW off \in Offsets, NewCall(t, off)
  PROVE  /\ rets' \in [Threads -> Seq(Calls)] /\ ncalls' \in 0..MaxCalls
         /\ ncalls + 1 \in Calls
<1>1. ncalls + 1 \in Calls
  BY ReconAssumption DEF TypeOK, ReconTypeOK, NewCall, Calls
<1>2. Append(rets[t], ncalls + 1) \in Seq(Calls)
  BY <1>1, PushSeq DEF TypeOK, ReconTypeOK
<1>3. ncalls' \in 0..MaxCalls
  BY ReconAssumption DEF TypeOK, ReconTypeOK, NewCall
<1>4. rets' = rets \/ rets' = [rets EXCEPT ![t] = Append(rets[t], ncalls + 1)]
  BY DEF NewCall
<1>5. rets' \in [Threads -> Seq(Calls)]
  BY <1>2, <1>4 DEF TypeOK, ReconTypeOK
<1>6. QED
  BY <1>1, <1>3, <1>5

LEMMA PopType ==
  ASSUME TypeOK, NEW t \in Threads, rets[t] # << >>
  PROVE  /\ SubSeq(rets[t], 1, Len(rets[t]) - 1) \in Seq(Calls)
         /\ rets[t][Len(rets[t])] \in Calls
         /\ Pop(t) => rets' \in [Threads -> Seq(Calls)]
<1>1. rets[t] \in Seq(Calls)
  BY DEF TypeOK, ReconTypeOK
<1>2. /\ SubSeq(rets[t], 1, Len(rets[t]) - 1) \in Seq(Calls)
      /\ rets[t][Len(rets[t])] \in Calls
  BY <1>1, PopSeq
<1>3. QED
  BY <1>2 DEF TypeOK, ReconTypeOK, Pop

(* What consuming the head leaves: it is ready, so no thread has it.       *)
LEMMA ConsumeFacts ==
  ASSUME IInv, ReadRecord
  PROVE  /\ cons \in cons..(prod - 1)
         /\ ring[cons] \in Record /\ ring[cons].state = "ready"
         /\ cons' = cons + 1 /\ prod' = prod /\ busy' = busy
         /\ ring' \in [cons'..(prod' - 1) -> Record]
         /\ \A p \in cons'..(prod' - 1) : ring'[p] = ring[p]
         /\ \A t \in Threads : busy[t] # cons
         /\ busy' \in [Threads -> {NoPos} \cup cons'..(prod' - 1)]
         /\ UNCHANGED <<todoUp, todoRet, up, ret, rets, mapped, depth, ncalls, skewed, stray, reader>>
<1>0. ReconTypeOK /\ RingInv
  BY DEF IInv, TypeOK
<1>1. cons \in cons..(prod - 1) /\ ring[cons].state = "ready"
  BY <1>0 DEF ReadRecord, HeadReady, ReconTypeOK
<1>2. \A t \in Threads : busy[t] # cons
  BY <1>0, <1>1 DEF RingInv, ReconTypeOK, NoPos
<1>3. QED
  BY <1>0, <1>1, <1>2
  DEF ReadRecord, ConsumeHead, ReconTypeOK, attachVars, depthVars, ghostVars

(* No action leaves the types.                                             *)
LEMMA TypeInductive ==
  IInv /\ [Next]_vars => TypeOK'
<1> SUFFICES ASSUME IInv, [Next]_vars PROVE TypeOK'
  OBVIOUS
<1>0. ReconTypeOK /\ TypeOK
  BY DEF TypeOK, IInv
<1> USE <1>0
<1>1. ASSUME NEW off \in Offsets, AttachUprobe(off), UNCHANGED loopVars
      PROVE  TypeOK'
  BY <1>1 DEF AttachUprobe, TypeOK, ReconTypeOK, loopVars, ringVars, depthVars, ghostVars
<1>2. ASSUME NEW off \in Offsets, AttachUretprobe(off), UNCHANGED loopVars
      PROVE  TypeOK'
  BY <1>2 DEF AttachUretprobe, TypeOK, ReconTypeOK, loopVars, ringVars, depthVars, ghostVars
<1>3. ASSUME NEW t \in Threads, NEW off \in Offsets, up_all_reserve(t, off), UNCHANGED loopVars
      PROVE  TypeOK'
  <2> DEFINE r == [kind |-> "entry", tid |-> t, call |-> ncalls + 1, off |-> off,
                   depth |-> NoDepth, state |-> "busy"]
  <2>1. NewCall(t, off) /\ Reserve(t, r)
    BY <1>3 DEF up_all_reserve
  <2>2. r \in Record
    BY <2>1, NewCallType DEF Record
  <2> HIDE DEF r
  <2>3. QED
    BY <1>0, <1>3, <2>1, <2>2, NewCallType, ReserveFacts
    DEF up_all_reserve, TypeOK, ReconTypeOK, loopVars, attachVars, depthVars
<1>4. ASSUME NEW t \in Threads, NEW off \in Offsets,
             up_all_full(t, off) \/ UnprobedCall(t, off), UNCHANGED loopVars
      PROVE  TypeOK'
  <2>1. NewCall(t, off)
    BY <1>4 DEF up_all_full, UnprobedCall
  <2>2. skewed' \subseteq Threads
    BY <1>4 DEF up_all_full, UnprobedCall, TypeOK, ReconTypeOK
  <2>3. UNCHANGED <<attachVars, ringVars, depthVars, stray>>
    BY <1>4 DEF up_all_full, UnprobedCall
  <2>4. QED
    BY <1>4, <2>1, <2>2, <2>3, NewCallType
    DEF TypeOK, ReconTypeOK, loopVars, attachVars, ringVars, depthVars
<1>5. ASSUME NEW t \in Threads, up_all_submit(t), UNCHANGED loopVars
      PROVE  TypeOK'
  <2>1. busy[t] # NoPos /\ depth[t] \in Nat
    BY <1>5 DEF up_all_submit, Idle, TypeOK, ReconTypeOK
  <2>2. CASE ring[busy[t]].off \in Tracked
    <3>1. UpdateDepth(t, depth[t] + 1) /\ Submit(t, depth[t])
      BY <1>5, <2>2 DEF up_all_submit
    <3>2. /\ depth[t] \in Nat \cup {NoDepth} /\ depth[t] + 1 \in Nat
      BY <2>1
    <3>3. mapped' \subseteq Threads /\ depth' \in [Threads -> Nat]
      BY <1>0, <3>1, <3>2, UpdateFacts
    <3>4. QED
      BY <1>0, <1>5, <2>1, <3>1, <3>2, <3>3, SubmitFacts
      DEF up_all_submit, TypeOK, ReconTypeOK, loopVars, attachVars, ghostVars
  <2>3. CASE ring[busy[t]].off \notin Tracked
    <3>1. UNCHANGED depthVars /\ Submit(t, NoDepth)
      BY <1>5, <2>3 DEF up_all_submit
    <3>2. QED
      BY <1>0, <1>5, <2>1, <3>1, SubmitFacts
      DEF up_all_submit, TypeOK, ReconTypeOK, loopVars, attachVars, ghostVars, depthVars
  <2>4. QED
    BY <2>2, <2>3
<1>6. ASSUME NEW t \in Threads, up_ret_reserve(t), UNCHANGED loopVars
      PROVE  TypeOK'
  <2> DEFINE c == rets[t][Len(rets[t])]
             r == [kind |-> "return", tid |-> t, call |-> c, off |-> "none",
                   depth |-> NoDepth, state |-> "busy"]
  <2>1. c \in Calls
    BY <1>6, PopType DEF up_ret_reserve
  <2>2. r \in Record
    BY <2>1 DEF Record
  <2>3. Reserve(t, r) /\ stray' = IF t \in skewed THEN stray \cup {c} ELSE stray
    BY <1>6 DEF up_ret_reserve
  <2> HIDE DEF r, c
  <2>4. QED
    BY <1>0, <1>6, <2>1, <2>2, <2>3, ReserveFacts
    DEF up_ret_reserve, TypeOK, ReconTypeOK, loopVars, attachVars, depthVars
<1>7. ASSUME NEW t \in Threads, up_ret_full(t), UNCHANGED loopVars
      PROVE  TypeOK'
  <2>1. rets' \in [Threads -> Seq(Calls)]
    BY <1>7, PopType DEF up_ret_full
  <2>2. QED
    BY <1>7, <2>1
    DEF up_ret_full, TypeOK, ReconTypeOK, loopVars, attachVars, ringVars, depthVars
<1>8. ASSUME NEW t \in Threads, up_ret_submit(t), UNCHANGED loopVars
      PROVE  TypeOK'
  <2> DEFINE nd == IF depth[t] > 0 THEN depth[t] - 1 ELSE 0
  <2>1. busy[t] # NoPos /\ nd \in Nat
    BY <1>8 DEF up_ret_submit, Idle, TypeOK, ReconTypeOK
  <2>2. UpdateDepth(t, nd) /\ Submit(t, nd) /\ Pop(t)
    BY <1>8 DEF up_ret_submit
  <2>3. rets' \in [Threads -> Seq(Calls)]
    <3>1. rets[t] # << >>
      BY <1>8, <2>1 DEF up_ret_submit, IInv, BusyInv
    <3>2. QED
      BY <2>2, <3>1, PopType
  <2> HIDE DEF nd
  <2>4. mapped' \subseteq Threads /\ depth' \in [Threads -> Nat]
    BY <1>0, <2>1, <2>2, UpdateFacts
  <2>5. QED
    BY <1>0, <1>8, <2>1, <2>2, <2>3, <2>4, SubmitFacts
    DEF up_ret_submit, TypeOK, ReconTypeOK, loopVars, attachVars, ghostVars
<1>9. ASSUME OpenReader \/ CloseReader
      PROVE  TypeOK'
  BY <1>9 DEF OpenReader, CloseReader, TypeOK, ReconTypeOK, reconVars, attachVars, ringVars,
              depthVars, ghostVars
<1>10. ASSUME Loop
       PROVE  TypeOK'
  <2>1. ReadRecord
    BY <1>10 DEF Loop, SkipRecord, HandleEntry, handleReturn
  <2>2. ReconTypeOK' /\ reader' = reader
    <3>1. cons' \in Nat /\ prod' \in Nat /\ cons' <= prod' /\ prod' - cons' <= RingCap
      BY <2>1, ConsumeFacts, ReconAssumption DEF ReconTypeOK
    <3>2. QED
      BY <2>1, <3>1, ConsumeFacts DEF ReconTypeOK
  <2>3. /\ ring[cons].tid \in Threads /\ ring[cons].call \in Calls
        /\ ring[cons].depth \in Nat \cup {NoDepth}
        /\ ring[cons].depth >= 0 => ring[cons].depth \in Nat
    BY <2>1, ConsumeFacts DEF Record, NoDepth
  <2>4. CASE SkipRecord
    BY <2>2, <2>4 DEF SkipRecord, TypeOK
  <2>5. CASE HandleEntry
    <3>1. CASE frames' = frames
      BY <2>2, <2>5, <3>1 DEF HandleEntry, TypeOK
    <3>2. CASE Event.depth >= 0 /\ frames' = Put(frames, EventKey, Event.call)
      <4>1. EventKey \in Threads \X Nat /\ Event.call \in Calls
        BY <2>3, <3>2 DEF EventKey, Event
      <4>2. /\ DOMAIN frames' \subseteq Threads \X Nat
            /\ \A k \in DOMAIN frames' : frames'[k] \in Calls
        BY <3>2, <4>1 DEF Put, TypeOK
      <4>3. QED
        BY <2>2, <2>5, <4>2 DEF HandleEntry, TypeOK
    <3>3. QED
      BY <2>5, <3>1, <3>2 DEF HandleEntry
  <2>6. CASE handleReturn
    <3>1. /\ DOMAIN frames' \subseteq Threads \X Nat
          /\ \A k \in DOMAIN frames' : frames'[k] \in Calls
      BY <2>6 DEF handleReturn, Delete, TypeOK
    <3> DEFINE x == IF EventKey \in DOMAIN frames THEN frames[EventKey] ELSE NoCall
    <3>2. x \in Calls \cup {NoCall}
      BY DEF TypeOK
    <3>3. reports' = reports \cup {[tid |-> Event.tid, call |-> Event.call, entry |-> x]}
      BY <2>6 DEF handleReturn
    <3> HIDE DEF x
    <3>4. [tid |-> Event.tid, call |-> Event.call, entry |-> x] \in Report
      BY <2>3, <3>2 DEF Report, Event
    <3>5. QED
      BY <2>2, <3>1, <3>3, <3>4 DEF TypeOK
  <2>7. QED
    BY <1>10, <2>4, <2>5, <2>6 DEF Loop
<1>11. CASE UNCHANGED vars
  BY <1>11 DEF vars, reconVars, loopVars, attachVars, ringVars, depthVars, ghostVars,
               TypeOK, ReconTypeOK
<1>12. QED
  BY <1>1, <1>2, <1>3, <1>4, <1>5, <1>6, <1>7, <1>8, <1>9, <1>10, <1>11
  DEF Next, ReconNext, Attach, Handler, Return, Call

-----------------------------------------------------------------------------
(* What the loop will find, and how the operations on the ring buffer      *)
(* change it.                                                              *)

(* The loop finds one call at most.                                        *)
LEMMA HoldsUnique ==
  ASSUME NEW rg, NEW lo \in Int, NEW fr, NEW p \in Int, NEW t, NEW d, NEW c, NEW c2,
         Holds(rg, lo, fr, p, t, d, c), Holds(rg, lo, fr, p, t, d, c2)
  PROVE  c = c2
  BY DEF Holds

(* At the consumer position it finds what frames has.                      *)
LEMMA HoldsAtHead ==
  ASSUME NEW rg, NEW lo \in Int, NEW fr, NEW t, NEW d, NEW c
  PROVE  Holds(rg, lo, fr, lo, t, d, c) <=> <<t, d>> \in DOMAIN fr /\ fr[<<t, d>>] = c
  BY DEF Holds

(* Positions between b and p without the key make no difference.           *)
LEMMA HoldsSkip ==
  ASSUME NEW rg, NEW lo \in Int, NEW fr, NEW t, NEW d, NEW c, NEW b \in Int, NEW p \in Int,
         lo <= b, b <= p, \A q \in b..(p - 1) : ~HasKey(rg[q], t, d)
  PROVE  Holds(rg, lo, fr, p, t, d, c) <=> Holds(rg, lo, fr, b, t, d, c)
<1>1. ASSUME Holds(rg, lo, fr, p, t, d, c) PROVE Holds(rg, lo, fr, b, t, d, c)
  <2>1. CASE \A q \in lo..(p - 1) : ~HasKey(rg[q], t, d)
    BY <1>1, <2>1 DEF Holds
  <2>2. CASE ~\A q \in lo..(p - 1) : ~HasKey(rg[q], t, d)
    <3>1. PICK q \in lo..(p - 1) :
            /\ HasKey(rg[q], t, d) /\ rg[q].kind = "entry" /\ rg[q].call = c
            /\ \A r \in (q + 1)..(p - 1) : ~HasKey(rg[r], t, d)
      BY <1>1, <2>2 DEF Holds
    <3>2. q \in lo..(b - 1)
      BY <3>1
    <3>3. QED
      BY <3>1, <3>2 DEF Holds
  <2>3. QED
    BY <2>1, <2>2
<1>2. ASSUME Holds(rg, lo, fr, b, t, d, c) PROVE Holds(rg, lo, fr, p, t, d, c)
  BY <1>2 DEF Holds
<1>3. QED
  BY <1>1, <1>2

(* It depends on nothing but the records before p and the frames.          *)
LEMMA HoldsSame ==
  ASSUME NEW rg, NEW rg2, NEW lo \in Int, NEW fr, NEW t, NEW d, NEW c, NEW p \in Int,
         \A q \in lo..(p - 1) :
           /\ HasKey(rg2[q], t, d) <=> HasKey(rg[q], t, d)
           /\ rg2[q].kind = rg[q].kind /\ rg2[q].call = rg[q].call
  PROVE  Holds(rg2, lo, fr, p, t, d, c) <=> Holds(rg, lo, fr, p, t, d, c)
<1>1. \A q \in lo..(p - 1) : \A r \in (q + 1)..(p - 1) : r \in lo..(p - 1)
  OBVIOUS
<1>2. QED
  BY <1>1 DEF Holds

(* A reserved record has no depth yet, so it makes no difference.          *)
LEMMA HoldsAtBusy ==
  ASSUME ReconTypeOK, RingInv, NEW t \in Threads, busy[t] # NoPos, NEW d \in Nat, NEW c
  PROVE  HoldsBefore(prod, t, d, c) <=> HoldsBefore(busy[t], t, d, c)
<1>1. busy[t] \in cons..(prod - 1) /\ busy[t] \in Int /\ prod \in Int /\ cons \in Int
  BY DEF ReconTypeOK
<1>2. \A q \in busy[t]..(prod - 1) : q \in cons..(prod - 1) /\ q >= busy[t]
  BY <1>1
<1>3. \A q \in busy[t]..(prod - 1) : ~HasKey(ring[q], t, d)
  <2>1. TAKE q \in busy[t]..(prod - 1)
  <2>2. q \in cons..(prod - 1) /\ q >= busy[t]
    BY <1>2
  <2>3. ring[q].tid = t => q = busy[t]
    BY <1>1, <2>2 DEF RingInv
  <2>4. ring[busy[t]].depth = NoDepth
    BY <1>1 DEF RingInv
  <2>5. QED
    BY <2>3, <2>4 DEF HasKey, NoDepth
<1>4. QED
  BY <1>1, <1>3, HoldsSkip DEF HoldsBefore

(* Reserving changes nothing for any key.                                  *)
LEMMA HoldsReserve ==
  ASSUME ReconTypeOK, NEW t \in Threads, NEW r \in Record, Reserve(t, r), r.depth = NoDepth,
         NEW u, NEW d \in Nat, NEW c
  PROVE  /\ \A p \in cons..prod :
              Holds(ring', cons', frames, p, u, d, c) <=> Holds(ring, cons, frames, p, u, d, c)
         /\ Holds(ring', cons', frames, prod', u, d, c) <=> Holds(ring, cons, frames, prod, u, d, c)
<1>1. /\ prod \in Nat /\ cons \in Nat /\ cons <= prod /\ prod' = prod + 1 /\ cons' = cons
      /\ \A q \in cons..(prod - 1) : ring'[q] = ring[q]
      /\ ~HasKey(ring'[prod], u, d)
  <2>1. prod \in Nat /\ cons \in Nat /\ cons <= prod
    BY DEF ReconTypeOK
  <2>2. ~HasKey(r, u, d)
    BY DEF HasKey, NoDepth
  <2>3. QED
    BY <2>1, <2>2, ReserveFacts
<1>2. ASSUME NEW p \in cons..prod
      PROVE  Holds(ring', cons, frames, p, u, d, c) <=> Holds(ring, cons, frames, p, u, d, c)
  <2>1. p \in Int /\ cons \in Int /\ \A q \in cons..(p - 1) : ring'[q] = ring[q]
    BY <1>1
  <2>2. QED
    BY <2>1, HoldsSame
<1>3. \A q \in prod..((prod + 1) - 1) : ~HasKey(ring'[q], u, d)
  BY <1>1
<1>4. Holds(ring', cons, frames, prod + 1, u, d, c) <=> Holds(ring', cons, frames, prod, u, d, c)
  <2>1. prod \in Int /\ prod + 1 \in Int /\ cons \in Int /\ prod <= prod + 1
    BY <1>1
  <2>2. QED
    BY <1>1, <1>3, <2>1, HoldsSkip
<1>5. prod \in cons..prod
  BY <1>1
<1>6. QED
  BY <1>1, <1>2, <1>4, <1>5

(* Submitting changes nothing for the keys of other threads, for the other *)
(* depths of the thread, and for the records before the submitted one ...  *)
LEMMA HoldsSubmitOther ==
  ASSUME ReconTypeOK, RingInv, NEW t \in Threads, busy[t] # NoPos, NEW dt \in Nat \cup {NoDepth},
         Submit(t, dt), NEW p \in cons..prod, NEW u, NEW d \in Nat, NEW c,
         u # t \/ d # dt \/ p <= busy[t]
  PROVE  Holds(ring', cons', frames, p, u, d, c) <=> Holds(ring, cons, frames, p, u, d, c)
<1>1. /\ prod' = prod /\ cons' = cons /\ busy[t] \in cons..(prod - 1)
      /\ prod \in Nat /\ cons \in Nat
      /\ \A q \in cons..(prod - 1) : ring'[q].kind = ring[q].kind /\ ring'[q].call = ring[q].call
  BY SubmitFacts DEF ReconTypeOK
<1>2. ring[busy[t]].tid = t /\ ring[busy[t]].depth = NoDepth
  BY <1>1 DEF RingInv
<1>3. \A q \in cons..(prod - 1) : q # busy[t] => (HasKey(ring'[q], u, d) <=> HasKey(ring[q], u, d))
  BY SubmitFacts
<1>4. ~HasKey(ring[busy[t]], u, d)
  BY <1>2 DEF HasKey, NoDepth
<1>5. p <= busy[t] \/ ~HasKey(ring'[busy[t]], u, d)
  BY <1>2, SubmitFacts DEF HasKey
<1>6. \A q \in cons..(p - 1) : HasKey(ring'[q], u, d) <=> HasKey(ring[q], u, d)
  BY <1>1, <1>3, <1>4, <1>5
<1>7. p \in Int /\ cons \in Int /\ \A q \in cons..(p - 1) : q \in cons..(prod - 1)
  BY <1>1
<1>8. QED
  BY <1>1, <1>6, <1>7, HoldsSame

(* ... and for the key it writes, the submitted record is the last one.    *)
LEMMA HoldsSubmitOwn ==
  ASSUME ReconTypeOK, RingInv, NEW t \in Threads, busy[t] # NoPos, NEW d \in Nat,
         Submit(t, d), NEW c
  PROVE  Holds(ring', cons', frames, prod', t, d, c)
           <=> ring[busy[t]].kind = "entry" /\ ring[busy[t]].call = c
<1> DEFINE b == busy[t]
<1>1. /\ prod' = prod /\ cons' = cons /\ b \in cons..(prod - 1)
      /\ prod \in Nat /\ cons \in Nat
      /\ ring'[b].kind = ring[b].kind /\ ring'[b].call = ring[b].call
  BY SubmitFacts DEF ReconTypeOK
<1>2. HasKey(ring'[b], t, d)
  BY SubmitFacts DEF RingInv, HasKey
<1>3. \A q \in cons..(prod - 1) : q > b => ring'[q].tid # t
  BY <1>1, SubmitFacts DEF RingInv
<1> HIDE DEF b
<1>4. \A q \in (b + 1)..(prod - 1) : ~HasKey(ring'[q], t, d)
  BY <1>1, <1>3 DEF HasKey
<1>5. QED
  <2>1. ASSUME Holds(ring', cons, frames, prod, t, d, c)
        PROVE  ring'[b].kind = "entry" /\ ring'[b].call = c
    <3>1. PICK q \in cons..(prod - 1) :
            /\ HasKey(ring'[q], t, d) /\ ring'[q].kind = "entry" /\ ring'[q].call = c
            /\ \A r \in (q + 1)..(prod - 1) : ~HasKey(ring'[r], t, d)
      BY <1>1, <1>2, <2>1 DEF Holds
    <3>2. q = b
      BY <1>1, <1>2, <1>4, <3>1
    <3>3. QED
      BY <3>1, <3>2
  <2>2. ASSUME ring'[b].kind = "entry", ring'[b].call = c
        PROVE  Holds(ring', cons, frames, prod, t, d, c)
    BY <1>1, <1>2, <1>4, <2>2 DEF Holds
  <2>3. QED
    BY <1>1, <2>1, <2>2 DEF b

(* Consuming the head changes nothing if the loop keeps frames in step.    *)
LEMMA HoldsConsume ==
  ASSUME NEW rg, NEW rg2, NEW lo \in Int, NEW fr, NEW fr2, NEW p \in Int, p > lo,
         NEW u, NEW d, NEW c,
         \A q \in (lo + 1)..(p - 1) : rg2[q] = rg[q],
         ~HasKey(rg[lo], u, d) =>
           (<<u, d>> \in DOMAIN fr2 /\ fr2[<<u, d>>] = c <=> <<u, d>> \in DOMAIN fr /\ fr[<<u, d>>] = c),
         HasKey(rg[lo], u, d) =>
           (<<u, d>> \in DOMAIN fr2 /\ fr2[<<u, d>>] = c <=> rg[lo].kind = "entry" /\ rg[lo].call = c)
  PROVE  Holds(rg2, lo + 1, fr2, p, u, d, c) <=> Holds(rg, lo, fr, p, u, d, c)
<1> DEFINE In(q) == /\ HasKey(rg[q], u, d) /\ rg[q].kind = "entry" /\ rg[q].call = c
                    /\ \A r \in (q + 1)..(p - 1) : ~HasKey(rg[r], u, d)
           None  == \A q \in (lo + 1)..(p - 1) : ~HasKey(rg[q], u, d)
           Was   == <<u, d>> \in DOMAIN fr /\ fr[<<u, d>>] = c
           Now   == <<u, d>> \in DOMAIN fr2 /\ fr2[<<u, d>>] = c
<1>1. /\ \A q \in lo..(p - 1) : q = lo \/ q \in (lo + 1)..(p - 1)
      /\ \A q \in (lo + 1)..(p - 1) : q \in lo..(p - 1)
      /\ lo \in lo..(p - 1)
      /\ \A q \in (lo + 1)..(p - 1) : \A r \in (q + 1)..(p - 1) : r \in (lo + 1)..(p - 1)
  OBVIOUS
<1>2. Holds(rg2, lo + 1, fr2, p, u, d, c) <=> (\E q \in (lo + 1)..(p - 1) : In(q)) \/ (None /\ Now)
  BY <1>1 DEF Holds
<1>3. Holds(rg, lo, fr, p, u, d, c)
        <=> \/ \E q \in (lo + 1)..(p - 1) : In(q)
            \/ In(lo)
            \/ None /\ ~HasKey(rg[lo], u, d) /\ Was
  BY <1>1 DEF Holds
<1>4. In(lo) <=> HasKey(rg[lo], u, d) /\ rg[lo].kind = "entry" /\ rg[lo].call = c /\ None
  OBVIOUS
<1>5. QED
  BY <1>2, <1>3, <1>4

-----------------------------------------------------------------------------
(* The parts of the invariant beside the types, and what each action does  *)
(* to them.                                                                *)

Rest == RingInv /\ BusyInv /\ DepthInv /\ OpenInv /\ UnmappedInv /\ ReturnInv /\ ReportInv

LEMMA RestFacts ==
  /\ IInv <=> TypeOK /\ Rest
  /\ IInv => ReconTypeOK /\ WatchTids \subseteq Threads
  BY WatchAssumption DEF IInv, Rest, TypeOK

(* Attaching, opening and closing the reader touch none of it.             *)
LEMMA QuietStep ==
  ASSUME IInv, UNCHANGED <<rets, ring, prod, cons, busy, mapped, depth, skewed, stray, frames, reports>>
  PROVE  Rest'
<1>1. RingInv' /\ BusyInv'
  BY DEF IInv, RingInv, BusyInv, Pending
<1>2. \A p, t, d, c : HoldsBefore(p, t, d, c)' <=> HoldsBefore(p, t, d, c)
  BY DEF HoldsBefore
<1>3. \A t : Pending(t)' <=> Pending(t)
  BY DEF Pending
<1>4. \A t : Pushed(t)' = Pushed(t)
  BY <1>3 DEF Pushed
<1>5. DepthFull' <=> DepthFull
  BY DEF DepthFull
<1>6. DepthInv'
  BY <1>4, <1>5 DEF IInv, DepthInv
<1>7. OpenInv'
  BY <1>2, <1>4 DEF IInv, OpenInv
<1>8. UnmappedInv'
  BY <1>2, <1>3 DEF IInv, UnmappedInv
<1>9. ReturnInv'
  BY <1>2, <1>5 DEF IInv, ReturnInv
<1>10. ReportInv'
  BY <1>5 DEF IInv, ReportInv
<1>11. QED
  BY <1>1, <1>6, <1>7, <1>8, <1>9, <1>10 DEF Rest

LEMMA RingReserve ==
  ASSUME ReconTypeOK, RingInv, NEW t \in Threads, busy[t] = NoPos, NEW r \in Record, Reserve(t, r),
         r.tid = t, r.depth = NoDepth, r.state = "busy"
  PROVE  RingInv'
<1>1. /\ cons \in Nat /\ prod \in Nat /\ cons <= prod /\ cons' = cons /\ prod' = prod + 1
      /\ \A p \in cons'..(prod' - 1) : p = prod \/ p \in cons..(prod - 1)
  BY ReserveFacts DEF ReconTypeOK
<1>2. \A p \in cons..(prod - 1) : ring[p] \in Record /\ (ring[p].tid = t => ring[p].state = "ready")
  BY DEF RingInv, ReconTypeOK, Record, NoPos
<1>3. ASSUME NEW p \in cons'..(prod' - 1)
      PROVE  /\ ring'[p].state = "busy" => busy'[ring'[p].tid] = p /\ ring'[p].depth = NoDepth
             /\ ring'[p].state = "ready" /\ ring'[p].kind = "entry" /\ ring'[p].depth # NoDepth
                  => ring'[p].off \in Tracked
             /\ ring'[p].state = "ready" /\ ring'[p].kind = "return" => ring'[p].depth # NoDepth
  <2>1. CASE p = prod
    BY <2>1, ReserveFacts
  <2>2. CASE p \in cons..(prod - 1)
    <3>1. ring'[p] = ring[p] /\ ring[p].tid \in Threads
      BY <1>2, <2>2, ReserveFacts DEF Record
    <3>2. ring[p].state = "busy" => busy'[ring[p].tid] = busy[ring[p].tid]
      BY <1>2, <2>2, <3>1, ReserveFacts
    <3>3. QED
      BY <2>2, <3>1, <3>2 DEF RingInv
  <2>3. QED
    BY <1>1, <2>1, <2>2
<1>4. ASSUME NEW u \in Threads, busy'[u] # NoPos
      PROVE  /\ ring'[busy'[u]].tid = u
             /\ ring'[busy'[u]].state = "busy"
             /\ \A p \in cons'..(prod' - 1) : ring'[p].tid = u => p <= busy'[u]
  <2>1. CASE u = t
    BY <1>1, <2>1, ReserveFacts
  <2>2. CASE u # t
    <3>0. busy'[u] = busy[u] /\ busy[u] \in {NoPos} \cup cons..(prod - 1)
      BY <2>2, ReserveFacts DEF ReconTypeOK
    <3>1. busy'[u] = busy[u] /\ busy[u] \in cons..(prod - 1) /\ ring'[busy[u]] = ring[busy[u]]
      BY <1>4, <3>0, ReserveFacts
    <3>2. \A p \in cons'..(prod' - 1) : ring'[p].tid = u => p <= busy[u]
      <4>1. \A p \in cons..(prod - 1) : ring[p].tid = u => p <= busy[u]
        BY <1>4, <3>1 DEF RingInv
      <4>2. ring'[prod].tid # u /\ \A p \in cons..(prod - 1) : ring'[p] = ring[p]
        BY <2>2, ReserveFacts
      <4>3. QED
        BY <1>1, <4>1, <4>2
    <3>3. QED
      BY <1>4, <3>1, <3>2 DEF RingInv
  <2>3. QED
    BY <2>1, <2>2
<1>5. QED
  BY <1>3, <1>4 DEF RingInv

LEMMA RingSubmit ==
  ASSUME ReconTypeOK, RingInv, NEW t \in Threads, busy[t] # NoPos,
         NEW d \in Nat \cup {NoDepth}, Submit(t, d),
         ring[busy[t]].kind = "entry" /\ d # NoDepth => ring[busy[t]].off \in Tracked,
         ring[busy[t]].kind = "return" => d # NoDepth
  PROVE  RingInv'
<1>1. /\ cons' = cons /\ prod' = prod /\ busy[t] \in cons..(prod - 1)
      /\ \A p \in cons..(prod - 1) : ring'[p].tid = ring[p].tid
  BY SubmitFacts
<1>2. ASSUME NEW p \in cons..(prod - 1)
      PROVE  /\ ring'[p].state = "busy" => busy'[ring'[p].tid] = p /\ ring'[p].depth = NoDepth
             /\ ring'[p].state = "ready" /\ ring'[p].kind = "entry" /\ ring'[p].depth # NoDepth
                  => ring'[p].off \in Tracked
             /\ ring'[p].state = "ready" /\ ring'[p].kind = "return" => ring'[p].depth # NoDepth
  <2>1. CASE p = busy[t]
    BY <2>1, SubmitFacts
  <2>2. CASE p # busy[t]
    <3>0. ring'[p] = ring[p] /\ ring[p] \in Record
      BY <2>2, SubmitFacts DEF ReconTypeOK
    <3>1. ring'[p] = ring[p] /\ ring[p].tid \in Threads
      BY <3>0 DEF Record
    <3>2. ring[p].state = "busy" => ring[p].tid # t
      BY <2>2 DEF RingInv
    <3>3. ring[p].state = "busy" => busy'[ring[p].tid] = busy[ring[p].tid]
      BY <3>1, <3>2, SubmitFacts
    <3>4. QED
      BY <3>1, <3>3 DEF RingInv
  <2>3. QED
    BY <2>1, <2>2
<1>3. ASSUME NEW u \in Threads, busy'[u] # NoPos
      PROVE  /\ ring'[busy'[u]].tid = u
             /\ ring'[busy'[u]].state = "busy"
             /\ \A p \in cons..(prod - 1) : ring'[p].tid = u => p <= busy'[u]
  <2>1. u # t /\ busy'[u] = busy[u] /\ busy[u] \in cons..(prod - 1)
    BY <1>3, SubmitFacts DEF ReconTypeOK
  <2>2. ring[busy[u]].tid = u /\ ring[busy[t]].tid = t
    BY <1>3, <2>1 DEF RingInv
  <2>3. ring'[busy[u]] = ring[busy[u]]
    BY <2>1, <2>2, SubmitFacts
  <2>4. QED
    BY <1>1, <1>3, <2>1, <2>3 DEF RingInv
<1>4. QED
  BY <1>1, <1>2, <1>3 DEF RingInv

(* A call or a return that leaves no record: the thread is skewed from now *)
(* on if its open calls changed.                                           *)
LEMMA LostStep ==
  ASSUME IInv, NEW t \in Threads, busy[t] = NoPos,
         UNCHANGED <<ring, prod, cons, busy, mapped, depth, stray, frames, reports>>,
         skewed \subseteq skewed', \A u \in Threads : u # t => rets'[u] = rets[u],
         \A u \in skewed' : u \in skewed \/ u = t,
         t \in skewed' \/ rets'[t] = rets[t]
  PROVE  Rest'
<1>1. RingInv'
  BY DEF IInv, RingInv
<1>2. \A u : Pending(u)' <=> Pending(u)
  BY DEF Pending
<1>3. BusyInv'
  BY <1>2 DEF IInv, BusyInv
<1>4. \A p, u, d, c : HoldsBefore(p, u, d, c)' <=> HoldsBefore(p, u, d, c)
  BY DEF HoldsBefore
<1>5. \A u \in Threads : u \notin skewed' => rets'[u] = rets[u] /\ u \notin skewed
  OBVIOUS
<1>6. \A u \in Threads : u \notin skewed' => Pushed(u)' = Pushed(u)
  BY <1>2, <1>5 DEF Pushed
<1>7. DepthFull' <=> DepthFull
  BY DEF DepthFull
<1>8. DepthInv'
  BY <1>5, <1>6, <1>7 DEF IInv, DepthInv
<1>9. OpenInv'
  BY <1>4, <1>5, <1>6, WatchAssumption DEF IInv, OpenInv
<1>10. UnmappedInv'
  BY <1>2, <1>4, <1>5, WatchAssumption DEF IInv, UnmappedInv
<1>11. ReturnInv' /\ ReportInv'
  BY <1>4, <1>7 DEF IInv, ReturnInv, ReportInv
<1>12. QED
  BY <1>1, <1>3, <1>8, <1>9, <1>10, <1>11 DEF Rest

(* A reservation.  Of a balanced thread it leaves the pushed calls alone.  *)
LEMMA ReserveStep ==
  ASSUME IInv, TypeOK', NEW t \in Threads, busy[t] = NoPos, NEW r \in Record, Reserve(t, r),
         r.tid = t, r.depth = NoDepth, r.state = "busy",
         UNCHANGED <<mapped, depth, frames, reports>>,
         stray \subseteq stray', skewed \subseteq skewed',
         \A u \in Threads : u # t => rets'[u] = rets[u] /\ (u \in skewed' => u \in skewed),
         r.kind = "return" =>
           /\ t \in skewed' => r.call \in stray'
           /\ rets'[t] # << >> /\ r.call = rets'[t][Len(rets'[t])],
         r.kind = "entry" /\ r.off \in Tracked /\ t \notin skewed' =>
           /\ rets'[t] # << >> /\ r.call = rets'[t][Len(rets'[t])]
           /\ Len(rets'[t]) - 1 = Len(rets[t])
           /\ \A i \in 1..Len(rets[t]) : rets'[t][i] = rets[t][i],
         ~(r.kind = "entry" /\ r.off \in Tracked) /\ t \notin skewed' => rets'[t] = rets[t]
  PROVE  Rest'
<1>0. ReconTypeOK /\ RingInv /\ WatchTids \subseteq Threads /\ TypeOK
  BY RestFacts DEF IInv
<1>1. RingInv'
  BY <1>0, RingReserve
<1>2. /\ busy'[t] = prod /\ ring'[prod] = r /\ prod # NoPos /\ prod' = prod + 1 /\ cons' = cons
      /\ prod \in Nat /\ cons \in Nat
      /\ \A u \in Threads : u # t => busy'[u] = busy[u]
      /\ \A p \in cons..(prod - 1) : ring'[p] = ring[p]
      /\ \A u \in Threads : busy[u] # NoPos => busy[u] \in cons..(prod - 1)
      /\ \A p \in cons'..(prod' - 1) : p = prod \/ p \in cons..(prod - 1)
  <2>1. /\ prod \in Nat /\ cons \in Nat /\ cons <= prod
        /\ \A u \in Threads : busy[u] # NoPos => busy[u] \in cons..(prod - 1)
    BY <1>0 DEF ReconTypeOK
  <2>2. prod' = prod + 1 /\ cons' = cons
    BY <1>0, ReserveFacts
  <2>3. \A p \in cons'..(prod' - 1) : p = prod \/ p \in cons..(prod - 1)
    BY <2>1, <2>2
  <2>4. prod # NoPos
    BY <2>1 DEF NoPos
  <2>5. QED
    BY <1>0, <2>1, <2>2, <2>3, <2>4, ReserveFacts
<1>3. /\ ~Pending(t)
      /\ Pending(t)' <=> r.kind = "entry" /\ r.off \in Tracked
      /\ \A u \in Threads : u # t => (Pending(u)' <=> Pending(u))
  BY <1>2 DEF Pending
<1>4. BusyInv'
  BY <1>2, <1>3 DEF IInv, BusyInv
<1>5. \A u \in Threads : u # t => Pushed(u)' = Pushed(u)
  BY <1>3 DEF Pushed
<1>6. t \notin skewed' => Pushed(t)' = Pushed(t) /\ Pushed(t) = Len(rets[t])
  BY <1>3 DEF Pushed
<1>7. DepthFull' <=> DepthFull
  BY DEF DepthFull
<1>8. DepthInv'
  BY <1>5, <1>6, <1>7 DEF IInv, DepthInv
<1>9. ASSUME NEW u, NEW d \in Nat, NEW c
      PROVE  HoldsBefore(prod, u, d, c)' <=> HoldsBefore(prod, u, d, c)
  BY <1>0, HoldsReserve DEF HoldsBefore
<1>10. OpenInv'
  <2> SUFFICES ASSUME NEW u \in WatchTids, u \notin skewed', u \in mapped, NEW i \in 1..Pushed(u)'
               PROVE  HoldsBefore(prod, u, i - 1, rets[u][i])'
    BY DEF OpenInv
  <2>1. u \in Threads /\ u \notin skewed /\ i \in 1..Pushed(u) /\ rets'[u][i] = rets[u][i]
    BY <1>0, <1>3, <1>5, <1>6
  <2>2. i - 1 \in Nat
    BY <1>0, <2>1, LenProperties DEF ReconTypeOK, Pushed
  <2>3. HoldsBefore(prod, u, i - 1, rets[u][i])
    BY <2>1 DEF IInv, OpenInv
  <2>4. QED
    BY <1>9, <2>1, <2>2, <2>3 DEF HoldsBefore
<1>11. UnmappedInv'
  <2> SUFFICES ASSUME NEW u \in WatchTids, u \notin skewed', u \notin mapped, ~Pending(u)',
                      NEW c \in Calls, HoldsBefore(prod, u, 0, c)'
               PROVE  rets'[u] # << >> /\ c = rets'[u][Len(rets'[u])]
    BY DEF UnmappedInv
  <2>1. u \in Threads /\ u \notin skewed /\ rets'[u] = rets[u] /\ ~Pending(u)
    BY <1>0, <1>3
  <2>2. HoldsBefore(prod, u, 0, c)
    BY <1>9 DEF HoldsBefore
  <2>3. QED
    BY <2>1, <2>2 DEF IInv, UnmappedInv
<1>12. ReturnInv'
  <2> SUFFICES ASSUME NEW p \in cons'..(prod' - 1), ring'[p].state = "ready", ring'[p].kind = "return",
                      ring'[p].call \notin stray', ring'[p].tid \in WatchTids
               PROVE  /\ ring'[p].tid \in mapped => HoldsBefore(p, ring[p].tid, ring[p].depth, ring[p].call)'
                      /\ ring'[p].tid \notin mapped => DepthFull'
                      /\ \A c \in Calls : HoldsBefore(p, ring[p].tid, ring[p].depth, c)' => c = ring'[p].call
    BY DEF ReturnInv
  <2>1. p \in cons..(prod - 1) /\ p \in cons..prod /\ ring'[p] = ring[p]
    BY <1>2
  <2>2. ring[p].depth \in Nat
    BY <1>0, <2>1 DEF RingInv, ReconTypeOK, Record, NoDepth
  <2>3. \A c : Holds(ring', cons', frames, p, ring[p].tid, ring[p].depth, c)
                <=> Holds(ring, cons, frames, p, ring[p].tid, ring[p].depth, c)
    BY <1>0, <2>1, <2>2, HoldsReserve
  <2>4. QED
    BY <1>7, <2>1, <2>3 DEF IInv, ReturnInv, HoldsBefore
<1>13. ReportInv'
  BY <1>7 DEF IInv, ReportInv
<1>14. QED
  BY <1>1, <1>4, <1>8, <1>10, <1>11, <1>12, <1>13 DEF Rest

(* A submission leaves the other threads alone, and the returns that were  *)
(* submitted before: what is left to show is about the thread itself.      *)
LEMMA SubmitStep ==
  ASSUME IInv, NEW t \in Threads, busy[t] # NoPos, NEW dt \in Nat \cup {NoDepth}, Submit(t, dt),
         UNCHANGED <<skewed, stray, frames, reports>>,
         \A u \in Threads : u # t =>
           rets'[u] = rets[u] /\ (u \in mapped' <=> u \in mapped) /\ depth'[u] = depth[u],
         DepthFull => DepthFull' /\ mapped' = mapped, t \in mapped => t \in mapped',
         ring[busy[t]].kind = "entry" /\ dt # NoDepth => ring[busy[t]].off \in Tracked,
         ring[busy[t]].kind = "return" => dt # NoDepth,
         t \notin mapped' => depth'[t] = 0,
         t \notin skewed /\ t \in mapped' => depth'[t] = Len(rets'[t]),
         t \notin skewed /\ t \notin mapped' => DepthFull' \/ Len(rets'[t]) = 0,
         t \in WatchTids /\ t \notin skewed /\ t \in mapped' =>
           \A i \in 1..Len(rets'[t]) : Holds(ring', cons', frames, prod', t, i - 1, rets'[t][i]),
         t \in WatchTids /\ t \notin skewed /\ t \notin mapped' =>
           \A c \in Calls : Holds(ring', cons', frames, prod', t, 0, c) =>
             rets'[t] # << >> /\ c = rets'[t][Len(rets'[t])],
         ring[busy[t]].kind = "return" /\ ring[busy[t]].call \notin stray /\ t \in WatchTids =>
           /\ t \in mapped' => Holds(ring', cons', frames, busy[t], t, dt, ring[busy[t]].call)
           /\ t \notin mapped' => DepthFull'
           /\ \A c \in Calls : Holds(ring', cons', frames, busy[t], t, dt, c) => c = ring[busy[t]].call
  PROVE  Rest'
<1>0. ReconTypeOK /\ RingInv /\ WatchTids \subseteq Threads /\ TypeOK
  BY RestFacts DEF IInv
<1>1. /\ prod \in Nat /\ cons \in Nat /\ cons <= prod /\ prod \in cons..prod
      /\ \A u \in Threads : busy[u] # NoPos => busy[u] \in cons..(prod - 1)
      /\ \A p \in cons..(prod - 1) : p \in cons..prod
  BY <1>0 DEF ReconTypeOK
<1>2. /\ cons' = cons /\ prod' = prod /\ busy'[t] = NoPos
      /\ \A u \in Threads : u # t => busy'[u] = busy[u]
      /\ \A p \in cons..(prod - 1) : p # busy[t] => ring'[p] = ring[p]
  BY <1>0, SubmitFacts
<1>3. \A u \in Threads : u # t /\ busy[u] # NoPos => ring'[busy'[u]] = ring[busy[u]]
  BY <1>0, <1>1, <1>2 DEF RingInv
<1>4. \A u \in Threads : u # t => (Pending(u)' <=> Pending(u))
  BY <1>2, <1>3 DEF Pending
<1>5. \A u \in Threads : u # t => Pushed(u)' = Pushed(u)
  BY <1>4 DEF Pushed
<1>6. ~Pending(t)' /\ Pushed(t)' = Len(rets'[t])
  BY <1>2 DEF Pending, Pushed
<1>7. BusyInv'
  BY <1>2, <1>3, <1>4 DEF IInv, BusyInv
<1>8. \A u \in Threads : u # t =>
        /\ u \notin mapped' => depth'[u] = 0
        /\ u \notin skewed' /\ u \in mapped' => depth'[u] = Pushed(u)'
        /\ u \notin skewed' /\ u \notin mapped' => DepthFull' \/ Pushed(u)' = 0
  BY <1>5 DEF IInv, DepthInv
<1>9. ASSUME NEW p \in cons..prod, NEW u, u # t \/ p <= busy[t], NEW d \in Nat, NEW c
      PROVE  Holds(ring', cons', frames, p, u, d, c) <=> Holds(ring, cons, frames, p, u, d, c)
  BY <1>0, <1>9, HoldsSubmitOther
<1>10. ASSUME NEW u \in WatchTids, u # t, u \notin skewed', u \in mapped', NEW i \in 1..Pushed(u)'
      PROVE  HoldsBefore(prod, u, i - 1, rets[u][i])'
  <2>1. u \in Threads /\ u \notin skewed /\ u \in mapped /\ i \in 1..Pushed(u) /\ rets'[u] = rets[u]
    BY <1>0, <1>5, <1>10
  <2>2. i - 1 \in Nat
    BY <1>0, <2>1, LenProperties DEF ReconTypeOK, Pushed
  <2>3. Holds(ring, cons, frames, prod, u, i - 1, rets[u][i])
    BY <2>1 DEF IInv, OpenInv, HoldsBefore
  <2>4. Holds(ring', cons', frames, prod, u, i - 1, rets[u][i])
    BY <1>1, <1>9, <1>10, <2>2, <2>3
  <2>5. QED
    BY <1>2, <2>1, <2>4 DEF HoldsBefore
<1>11. ASSUME NEW u \in WatchTids, u # t, u \notin skewed', u \notin mapped', ~Pending(u)',
              NEW c \in Calls, HoldsBefore(prod, u, 0, c)'
       PROVE  rets'[u] # << >> /\ c = rets'[u][Len(rets'[u])]
  <2>1. u \in Threads /\ u \notin skewed /\ u \notin mapped /\ ~Pending(u) /\ rets'[u] = rets[u]
    BY <1>0, <1>4, <1>11
  <2>2. Holds(ring', cons', frames, prod, u, 0, c)
    BY <1>2, <1>11 DEF HoldsBefore
  <2>3. Holds(ring, cons, frames, prod, u, 0, c)
    BY <1>1, <1>9, <1>11, <2>2
  <2>4. QED
    BY <2>1, <2>3 DEF IInv, UnmappedInv, HoldsBefore
<1>12. ASSUME NEW p \in cons..(prod - 1), p # busy[t], ring[p].state = "ready", ring[p].kind = "return",
              ring[p].call \notin stray, ring[p].tid \in WatchTids
       PROVE  /\ ring[p].tid \in mapped'
                   => Holds(ring', cons', frames, p, ring[p].tid, ring[p].depth, ring[p].call)
              /\ ring[p].tid \notin mapped' => DepthFull'
              /\ \A c \in Calls : Holds(ring', cons', frames, p, ring[p].tid, ring[p].depth, c)
                   => c = ring[p].call
  <2>1. ring[p].depth \in Nat /\ ring[p].tid \in Threads
    BY <1>0, <1>12 DEF RingInv, ReconTypeOK, Record, NoDepth
  <2>2. ring[p].tid # t \/ p <= busy[t]
    BY <1>0, <1>12 DEF RingInv
  <2>3. \A c : Holds(ring', cons', frames, p, ring[p].tid, ring[p].depth, c)
                <=> Holds(ring, cons, frames, p, ring[p].tid, ring[p].depth, c)
    BY <1>1, <1>9, <2>1, <2>2
  <2>4. ring[p].tid \notin mapped => DepthFull
    BY <1>12 DEF IInv, ReturnInv
  <2>5. ring[p].tid \in mapped' <=> ring[p].tid \in mapped
    BY <2>1, <2>4
  <2>6. QED
    BY <1>12, <2>3, <2>4, <2>5 DEF IInv, ReturnInv, HoldsBefore
<1>13. ReportInv'
  <2> SUFFICES ASSUME NEW r \in reports, r.call \notin stray
               PROVE  /\ r.tid \in mapped' => r.entry = r.call
                      /\ r.tid \notin mapped' => DepthFull'
                      /\ r.entry \in {r.call, NoCall}
    BY DEF ReportInv
  <2>1. r.tid \in Threads
    BY <1>0 DEF TypeOK, Report
  <2>2. r.tid \notin mapped => DepthFull
    BY DEF IInv, ReportInv
  <2>3. r.tid \in mapped' <=> r.tid \in mapped
    BY <2>1, <2>2
  <2>4. QED
    BY <2>2, <2>3 DEF IInv, ReportInv
<1>14. RingInv'
  BY <1>0, RingSubmit
<1>15. DepthInv'
  BY <1>8, <1>6 DEF DepthInv
<1>16. OpenInv'
  BY <1>10, <1>6 DEF OpenInv, HoldsBefore
<1>17. UnmappedInv'
  BY <1>11 DEF UnmappedInv, HoldsBefore
<1>18. ReturnInv'
  <2> SUFFICES ASSUME NEW p \in cons'..(prod' - 1), ring'[p].state = "ready", ring'[p].kind = "return",
                      ring'[p].call \notin stray', ring'[p].tid \in WatchTids
               PROVE  /\ ring'[p].tid \in mapped' => HoldsBefore(p, ring[p].tid, ring[p].depth, ring[p].call)'
                      /\ ring'[p].tid \notin mapped' => DepthFull'
                      /\ \A c \in Calls : HoldsBefore(p, ring[p].tid, ring[p].depth, c)' => c = ring'[p].call
    BY DEF ReturnInv
  <2>1. p \in cons..(prod - 1)
    BY <1>2
  <2>2. CASE p # busy[t]
    BY <1>2, <1>12, <2>1, <2>2 DEF HoldsBefore
  <2>3. CASE p = busy[t]
    <3>1. /\ ring'[p].tid = t /\ ring'[p].depth = dt
          /\ ring'[p].call = ring[busy[t]].call /\ ring[busy[t]].kind = "return"
      BY <1>0, <2>3, SubmitFacts DEF RingInv
    <3>2. QED
      BY <2>3, <3>1 DEF HoldsBefore
  <2>4. QED
    BY <2>2, <2>3
<1>19. QED
  BY <1>7, <1>13, <1>14, <1>15, <1>16, <1>17, <1>18 DEF Rest

(* The rest of up_all: the call becomes the innermost pushed one.          *)
LEMMA SubmitEntryStep ==
  ASSUME IInv, TypeOK', NEW t \in Threads, up_all_submit(t), UNCHANGED loopVars
  PROVE  Rest'
<1>0. ReconTypeOK /\ RingInv /\ WatchTids \subseteq Threads /\ TypeOK
  BY RestFacts DEF IInv
<1>1. /\ busy[t] # NoPos /\ ring[busy[t]].kind = "entry" /\ depth[t] \in Nat
      /\ rets' = rets /\ UNCHANGED <<skewed, stray, frames, reports>>
      /\ rets[t] \in Seq(Calls) /\ Len(rets[t]) \in Nat
  BY <1>0, LenProperties DEF up_all_submit, Idle, ReconTypeOK, ghostVars, loopVars
<1>2. CASE ring[busy[t]].off \in Tracked
  <2>1. UpdateDepth(t, depth[t] + 1) /\ Submit(t, depth[t])
        /\ depth[t] \in Nat \cup {NoDepth} /\ depth[t] + 1 \in Nat
    BY <1>1, <1>2 DEF up_all_submit
  <2>2. /\ t \in mapped => t \in mapped'
        /\ \A u \in Threads : u # t => (u \in mapped' <=> u \in mapped) /\ depth'[u] = depth[u]
        /\ t \in mapped' => depth'[t] = depth[t] + 1
        /\ t \notin mapped' => DepthFull /\ mapped' = mapped /\ depth' = depth
        /\ DepthFull => DepthFull' /\ mapped' = mapped
    BY <1>0, <2>1, UpdateFacts
  <2>4. /\ cons' = cons /\ prod' = prod /\ busy'[t] = NoPos /\ busy[t] \in cons..(prod - 1)
        /\ \A p \in cons..(prod - 1) : p # busy[t] => ring'[p] = ring[p]
        /\ ring'[busy[t]].kind = "entry"
        /\ prod \in Nat /\ cons \in Nat /\ prod \in cons..prod
    BY <1>0, <1>1, <2>1, SubmitFacts DEF ReconTypeOK
  <2>5. Pending(t) /\ ~Pending(t)' /\ Pushed(t) = Len(rets[t]) - 1 /\ Pushed(t)' = Len(rets[t])
    BY <1>1, <1>2, <2>4 DEF Pending, Pushed
  <2>6. t \notin skewed => /\ rets[t] # << >> /\ ring[busy[t]].call = rets[t][Len(rets[t])]
                           /\ Len(rets[t]) >= 1
    BY <1>1, <2>5, EmptySeq DEF IInv, BusyInv
  <2>7. t \notin mapped' => depth'[t] = 0
    BY <2>2 DEF IInv, DepthInv
  <2>8. t \notin skewed /\ t \in mapped' => depth[t] = Pushed(t)
    BY <1>1, <2>2, <2>5 DEF IInv, DepthInv
  <2>9. \A c : Holds(ring', cons', frames, prod', t, depth[t], c) <=> ring[busy[t]].call = c
    BY <1>0, <1>1, <2>1, HoldsSubmitOwn
  <2>10. ASSUME t \in WatchTids, t \notin skewed, t \in mapped', NEW i \in 1..Len(rets[t])
         PROVE  Holds(ring', cons', frames, prod', t, i - 1, rets[t][i])
    <3>1. i \in Int /\ 1 <= i /\ i <= Len(rets[t]) /\ i - 1 \in Nat
      BY <1>1, <2>5
    <3>2. CASE i = Len(rets[t])
      <4>1. i - 1 = depth[t] /\ rets[t][i] = ring[busy[t]].call
        BY <2>5, <2>6, <2>8, <2>10, <3>2
      <4>2. QED
        BY <2>9, <4>1
    <3>3. CASE i # Len(rets[t])
      <4>1. i \in 1..Pushed(t) /\ i - 1 # depth[t]
        BY <1>1, <2>5, <2>8, <2>10, <3>1, <3>3
      <4>2. t \in mapped
        BY <2>2, <2>5, <2>10, <3>1, <3>3, <1>1 DEF IInv, DepthInv
      <4>3. Holds(ring, cons, frames, prod, t, i - 1, rets[t][i])
        BY <2>10, <4>1, <4>2 DEF IInv, OpenInv, HoldsBefore
      <4>4. Holds(ring', cons', frames, prod, t, i - 1, rets[t][i])
        BY <1>0, <1>1, <2>1, <2>4, <3>1, <4>1, <4>3, HoldsSubmitOther
      <4>5. QED
        BY <2>4, <4>4
    <3>4. QED
      BY <3>2, <3>3
  <2>11. ASSUME t \notin skewed, t \notin mapped', NEW c, Holds(ring', cons', frames, prod', t, 0, c)
         PROVE  rets'[t] # << >> /\ c = rets'[t][Len(rets'[t])]
    <3>1. depth[t] = 0
      BY <2>2, <2>7, <2>11
    <3>2. QED
      BY <1>1, <2>6, <2>9, <2>11, <3>1
  <2>12. QED
    BY <1>1, <1>2, <2>1, <2>2, <2>5, <2>7, <2>8, <2>10, <2>11, SubmitStep
<1>3. CASE ring[busy[t]].off \notin Tracked
  <2>1. Submit(t, NoDepth) /\ UNCHANGED <<mapped, depth>> /\ (DepthFull' <=> DepthFull)
    BY <1>1, <1>3 DEF up_all_submit, depthVars, DepthFull
  <2>2. ~Pending(t) /\ Pushed(t) = Len(rets[t])
    BY <1>3 DEF Pending, Pushed
  <2>3. prod' = prod /\ prod \in cons..prod
    <3>1. prod \in cons..prod
      BY <1>0 DEF ReconTypeOK
    <3>2. QED
      BY <1>0, <1>1, <2>1, <3>1, SubmitFacts
  <2>4. ASSUME NEW d \in Nat, NEW c
        PROVE  Holds(ring', cons', frames, prod', t, d, c) <=> HoldsBefore(prod, t, d, c)
    <3>1. d # NoDepth /\ NoDepth \in Nat \cup {NoDepth}
      BY DEF NoDepth
    <3>2. Holds(ring', cons', frames, prod, t, d, c) <=> Holds(ring, cons, frames, prod, t, d, c)
      BY <1>0, <1>1, <2>1, <2>3, <3>1, HoldsSubmitOther
    <3>3. QED
      BY <2>3, <3>2, Zenon DEF HoldsBefore
  <2>5. \A i \in 1..Len(rets[t]) : i - 1 \in Nat
    BY <1>1
  <2>6. t \in WatchTids /\ t \notin skewed /\ t \in mapped =>
          \A i \in 1..Len(rets[t]) : Holds(ring', cons', frames, prod', t, i - 1, rets[t][i])
    BY <2>2, <2>4, <2>5 DEF IInv, OpenInv
  <2>7. t \in WatchTids /\ t \notin skewed /\ t \notin mapped =>
          \A c \in Calls : Holds(ring', cons', frames, prod', t, 0, c) =>
            rets[t] # << >> /\ c = rets[t][Len(rets[t])]
    BY <2>2, <2>4 DEF IInv, UnmappedInv
  <2>8. /\ t \notin mapped => depth[t] = 0
        /\ t \notin skewed /\ t \in mapped => depth[t] = Len(rets[t])
        /\ t \notin skewed /\ t \notin mapped => DepthFull \/ Len(rets[t]) = 0
    BY <2>2 DEF IInv, DepthInv
  <2>9. QED
    BY <1>1, <2>1, <2>6, <2>7, <2>8, SubmitStep
<1>4. QED
  BY <1>2, <1>3

(* The rest of up_ret: the innermost pushed call is gone, and its record   *)
(* will find the frame that was opened for it.                             *)
LEMMA SubmitReturnStep ==
  ASSUME IInv, NEW t \in Threads, up_ret_submit(t), UNCHANGED loopVars
  PROVE  Rest'
<1> DEFINE nd == IF depth[t] > 0 THEN depth[t] - 1 ELSE 0
           s  == rets[t]
           b  == busy[t]
<1>0. ReconTypeOK /\ RingInv /\ WatchTids \subseteq Threads /\ TypeOK
  BY RestFacts DEF IInv
<1>1. /\ busy[t] # NoPos /\ ring[b].kind = "return" /\ UNCHANGED <<skewed, stray, frames, reports>>
      /\ UpdateDepth(t, nd) /\ Submit(t, nd) /\ rets' = [rets EXCEPT ![t] = SubSeq(s, 1, Len(s) - 1)]
  BY DEF up_ret_submit, Idle, ghostVars, loopVars, Pop
<1>2. nd \in Nat /\ nd \in Nat \cup {NoDepth} /\ nd # NoDepth
  BY <1>0 DEF ReconTypeOK, NoDepth
<1>3. /\ s # << >> /\ s \in Seq(Calls) /\ Len(s) \in Nat \ {0}
      /\ ring[b].call = s[Len(s)] /\ (t \in skewed => ring[b].call \in stray)
      /\ rets \in [Threads -> Seq(Calls)]
  BY <1>0, <1>1, LenProperties, EmptySeq DEF IInv, BusyInv, ReconTypeOK
<1>4. /\ rets'[t] = SubSeq(s, 1, Len(s) - 1) /\ \A u \in Threads : u # t => rets'[u] = rets[u]
  BY <1>1, <1>3
<1>5. Len(rets'[t]) = Len(s) - 1 /\ \A i \in 1..(Len(s) - 1) : rets'[t][i] = s[i]
  BY <1>3, <1>4, PopSeq
<1>6. ~Pending(t) /\ Pushed(t) = Len(s)
  BY <1>1 DEF Pending, Pushed
<1>7. /\ t \notin mapped => depth[t] = 0
      /\ t \notin skewed /\ t \in mapped => depth[t] = Len(s)
      /\ t \notin skewed /\ t \notin mapped => DepthFull
  BY <1>3, <1>6 DEF IInv, DepthInv
<1>8. /\ t \notin skewed /\ t \in mapped => nd = Len(s) - 1
      /\ t \notin mapped => nd = 0
  BY <1>3, <1>7
<1>9. ring[b].call \in Calls
  BY <1>3, PopSeq
<1> HIDE DEF nd, s, b
<1>10. /\ t \in mapped => t \in mapped'
       /\ \A u \in Threads : u # t => (u \in mapped' <=> u \in mapped) /\ depth'[u] = depth[u]
       /\ t \in mapped' => depth'[t] = nd
       /\ t \notin mapped' => DepthFull /\ mapped' = mapped /\ depth' = depth
       /\ DepthFull => DepthFull' /\ mapped' = mapped
  BY <1>0, <1>1, <1>2, UpdateFacts
<1>11. t \notin skewed => (t \in mapped' <=> t \in mapped)
  BY <1>7, <1>10
<1>12. /\ prod' = prod /\ prod \in cons..prod /\ b \in cons..prod /\ b \in Int /\ cons \in Int
  <2>1. b \in cons..(prod - 1) /\ prod \in Nat /\ cons \in Nat /\ cons <= prod
    BY <1>0, <1>1 DEF ReconTypeOK, b
  <2>2. QED
    BY <1>0, <1>1, <1>2, <2>1, SubmitFacts
<1>13. ASSUME NEW i \in 1..Len(rets'[t]), t \in WatchTids, t \notin skewed, t \in mapped'
       PROVE  Holds(ring', cons', frames, prod', t, i - 1, rets'[t][i])
  <2>0. nd = Len(s) - 1 /\ i \in 1..(Len(s) - 1) /\ Len(s) \in Nat
    BY <1>3, <1>5, <1>8, <1>11, <1>13
  <2>1. i \in 1..Len(s) /\ i - 1 \in Nat /\ i - 1 # nd /\ rets'[t][i] = s[i]
    BY <1>5, <2>0
  <2>2. Holds(ring, cons, frames, prod, t, i - 1, s[i])
    BY <1>6, <1>11, <1>13, <2>1 DEF IInv, OpenInv, HoldsBefore, s
  <2>3. Holds(ring', cons', frames, prod, t, i - 1, s[i])
    BY <1>0, <1>1, <1>2, <1>12, <2>1, <2>2, HoldsSubmitOther
  <2>4. QED
    BY <1>12, <2>1, <2>3, Zenon
<1>14. \A c : ~Holds(ring', cons', frames, prod', t, nd, c)
  <2>1. ring[busy[t]].kind # "entry"
    BY <1>1 DEF b
  <2>2. QED
    BY <1>0, <1>1, <1>2, <2>1, HoldsSubmitOwn
<1>15. t \notin skewed /\ t \notin mapped' => \A c : ~Holds(ring', cons', frames, prod', t, 0, c)
  BY <1>8, <1>11, <1>14
<1>16. ASSUME ring[b].call \notin stray, t \in WatchTids
       PROVE  /\ t \in mapped' => Holds(ring', cons', frames, b, t, nd, ring[b].call)
              /\ t \notin mapped' => DepthFull'
              /\ \A c \in Calls : Holds(ring', cons', frames, b, t, nd, c) => c = ring[b].call
  <2>1. t \notin skewed
    BY <1>3, <1>16
  <2>2. \A c : Holds(ring', cons', frames, b, t, nd, c) <=> Holds(ring, cons, frames, b, t, nd, c)
    BY <1>0, <1>1, <1>2, <1>12, HoldsSubmitOther DEF b
  <2>3. \A c : Holds(ring, cons, frames, b, t, nd, c) <=> Holds(ring, cons, frames, prod, t, nd, c)
    BY <1>0, <1>1, <1>2, HoldsAtBusy DEF b, HoldsBefore
  <2>4. CASE t \in mapped
    <3>1. Len(s) \in 1..Pushed(t) /\ nd = Len(s) - 1
      BY <1>3, <1>6, <1>8, <2>1, <2>4
    <3>2. Holds(ring, cons, frames, prod, t, nd, ring[b].call)
      BY <1>3, <1>16, <2>1, <2>4, <3>1 DEF IInv, OpenInv, HoldsBefore, s
    <3>3. Holds(ring, cons, frames, b, t, nd, ring[b].call)
      BY <2>3, <3>2
    <3>4. \A c : Holds(ring, cons, frames, b, t, nd, c) => c = ring[b].call
      BY <1>12, <3>3, HoldsUnique
    <3>5. QED
      BY <1>10, <2>2, <2>4, <3>3, <3>4
  <2>5. CASE t \notin mapped
    <3>1. \A c \in Calls : Holds(ring, cons, frames, prod, t, 0, c) => c = ring[b].call
      BY <1>3, <1>6, <1>16, <2>1, <2>5 DEF IInv, UnmappedInv, HoldsBefore, s
    <3>2. QED
      BY <1>7, <1>8, <1>10, <1>11, <2>1, <2>2, <2>3, <2>5, <3>1
  <2>6. QED
    BY <2>4, <2>5
<1>17. t \notin mapped' => depth'[t] = 0
  BY <1>7, <1>10
<1>18. t \notin skewed /\ t \in mapped' => depth'[t] = Len(rets'[t])
  BY <1>5, <1>8, <1>10, <1>11
<1>19. t \notin skewed /\ t \notin mapped' => DepthFull'
  BY <1>10
<1>20. QED
  BY <1>1, <1>2, <1>4, <1>10, <1>13, <1>15, <1>16, <1>17, <1>18, <1>19, SubmitStep DEF b

(* The loop keeps frames in step with the record it takes off the ring     *)
(* buffer, for the threads it watches.                                     *)
LEMMA FramesInStep ==
  ASSUME IInv, Loop, NEW u \in WatchTids, NEW d \in Nat, NEW c
  PROVE  /\ ~HasKey(ring[cons], u, d) =>
              (<<u, d>> \in DOMAIN frames' /\ frames'[<<u, d>>] = c
                 <=> <<u, d>> \in DOMAIN frames /\ frames[<<u, d>>] = c)
         /\ HasKey(ring[cons], u, d) =>
              (<<u, d>> \in DOMAIN frames' /\ frames'[<<u, d>>] = c
                 <=> ring[cons].kind = "entry" /\ ring[cons].call = c)
<1>0. ReadRecord
  BY DEF Loop, SkipRecord, HandleEntry, handleReturn
<1>1. ring[cons] \in Record /\ ring[cons].state = "ready" /\ cons \in cons..(prod - 1)
  BY <1>0, ConsumeFacts
<1>2. EventKey = <<ring[cons].tid, ring[cons].depth>>
  BY DEF EventKey, Event
<1>3. HasKey(ring[cons], u, d) <=> EventKey = <<u, d>>
  BY <1>2 DEF HasKey
<1>4. CASE SkipRecord
  BY <1>4 DEF SkipRecord, HasKey, Event
<1>5. CASE HandleEntry
  <2>1. CASE Event.off \in Tracked /\ Event.depth >= 0
    <3>1. frames' = Put(frames, EventKey, Event.call)
      BY <1>5, <2>1 DEF HandleEntry
    <3>2. QED
      BY <1>3, <1>5, <3>1 DEF Put, HandleEntry, Event
  <2>2. CASE ~(Event.off \in Tracked /\ Event.depth >= 0)
    <3>1. frames' = frames
      BY <1>5, <2>2 DEF HandleEntry
    <3>2. ring[cons].depth = NoDepth
      BY <1>1, <1>5, <2>2 DEF HandleEntry, Event, IInv, RingInv, Record, NoDepth
    <3>3. ~HasKey(ring[cons], u, d)
      BY <3>2 DEF HasKey, NoDepth
    <3>4. QED
      BY <3>1, <3>3
  <2>3. QED
    BY <2>1, <2>2
<1>6. CASE handleReturn
  <2>1. frames' = Delete(frames, EventKey) /\ ring[cons].kind = "return"
    BY <1>6 DEF handleReturn, Event
  <2>2. QED
    BY <1>3, <2>1 DEF Delete
<1>7. QED
  BY <1>4, <1>5, <1>6 DEF Loop

LEMMA LoopStep ==
  ASSUME IInv, TypeOK', Loop
  PROVE  Rest'
<1>0. ReconTypeOK /\ RingInv /\ WatchTids \subseteq Threads /\ TypeOK
  BY RestFacts DEF IInv
<1>1. ReadRecord
  BY DEF Loop, SkipRecord, HandleEntry, handleReturn
<1>2. /\ cons' = cons + 1 /\ prod' = prod /\ busy' = busy
      /\ \A p \in cons'..(prod' - 1) : ring'[p] = ring[p]
      /\ UNCHANGED <<rets, mapped, depth, skewed, stray>>
      /\ ring[cons] \in Record /\ ring[cons].state = "ready" /\ cons \in cons..(prod - 1)
  BY <1>1, ConsumeFacts
<1>3. /\ prod \in Int /\ cons \in Int /\ prod > cons
      /\ \A p \in cons'..(prod' - 1) : p \in cons..(prod - 1) /\ p \in Int /\ p > cons
  BY <1>0, <1>2 DEF ReconTypeOK
<1>4. \A u \in Threads : busy[u] # NoPos => ring'[busy'[u]] = ring[busy[u]]
  <2>1. \A u \in Threads : busy[u] # NoPos => busy[u] \in cons'..(prod' - 1)
    BY <1>1, ConsumeFacts
  <2>2. QED
    BY <1>2, <2>1
<1>5. RingInv'
  BY <1>0, <1>2, <1>3, <1>4 DEF RingInv
<1>6. \A u \in Threads : Pending(u)' <=> Pending(u)
  BY <1>2, <1>4 DEF Pending
<1>7. \A u \in Threads : Pushed(u)' = Pushed(u)
  BY <1>2, <1>6 DEF Pushed
<1>8. BusyInv'
  BY <1>2, <1>4, <1>6 DEF IInv, BusyInv
<1>9. DepthFull' <=> DepthFull
  BY <1>2 DEF DepthFull
<1>10. DepthInv'
  BY <1>2, <1>7, <1>9 DEF IInv, DepthInv
<1>11. ASSUME NEW p \in Int, p > cons, p <= prod, NEW u \in WatchTids, NEW d \in Nat, NEW c
       PROVE  Holds(ring', cons', frames', p, u, d, c) <=> Holds(ring, cons, frames, p, u, d, c)
  <2>1. \A q \in (cons + 1)..(p - 1) : ring'[q] = ring[q]
    BY <1>2, <1>3, <1>11
  <2>2. Holds(ring', cons + 1, frames', p, u, d, c) <=> Holds(ring, cons, frames, p, u, d, c)
    BY <1>3, <1>11, <2>1, FramesInStep, HoldsConsume
  <2>3. QED
    BY <1>2, <2>2
<1>12. OpenInv'
  <2> SUFFICES ASSUME NEW u \in WatchTids, u \notin skewed, u \in mapped, NEW i \in 1..Pushed(u)
               PROVE  Holds(ring', cons', frames', prod, u, i - 1, rets[u][i])
    BY <1>0, <1>2, <1>7 DEF OpenInv, HoldsBefore
  <2>1. i - 1 \in Nat
    BY <1>0, LenProperties DEF ReconTypeOK, Pushed
  <2>2. Holds(ring, cons, frames, prod, u, i - 1, rets[u][i])
    BY DEF IInv, OpenInv, HoldsBefore
  <2>3. QED
    BY <1>3, <1>11, <2>1, <2>2
<1>13. UnmappedInv'
  <2> SUFFICES ASSUME NEW u \in WatchTids, u \notin skewed, u \notin mapped, ~Pending(u),
                      NEW c \in Calls, Holds(ring', cons', frames', prod, u, 0, c)
               PROVE  rets[u] # << >> /\ c = rets[u][Len(rets[u])]
    BY <1>0, <1>2, <1>6 DEF UnmappedInv, HoldsBefore
  <2>1. Holds(ring, cons, frames, prod, u, 0, c)
    BY <1>3, <1>11
  <2>2. QED
    BY <2>1 DEF IInv, UnmappedInv, HoldsBefore
<1>14. ReturnInv'
  <2> SUFFICES ASSUME NEW p \in cons'..(prod' - 1), ring'[p].state = "ready", ring'[p].kind = "return",
                      ring'[p].call \notin stray, ring'[p].tid \in WatchTids
               PROVE  /\ ring'[p].tid \in mapped
                           => Holds(ring', cons', frames', p, ring'[p].tid, ring'[p].depth, ring'[p].call)
                      /\ ring'[p].tid \notin mapped => DepthFull'
                      /\ \A c \in Calls : Holds(ring', cons', frames', p, ring'[p].tid, ring'[p].depth, c)
                           => c = ring'[p].call
    BY <1>2 DEF ReturnInv, HoldsBefore
  <2>1. p \in cons..(prod - 1) /\ p \in Int /\ p > cons /\ p <= prod /\ ring'[p] = ring[p]
    BY <1>2, <1>3
  <2>2. ring[p].depth \in Nat
    BY <1>0, <2>1 DEF RingInv, ReconTypeOK, Record, NoDepth
  <2>3. \A c : Holds(ring', cons', frames', p, ring[p].tid, ring[p].depth, c)
                <=> Holds(ring, cons, frames, p, ring[p].tid, ring[p].depth, c)
    BY <1>11, <2>1, <2>2
  <2>4. QED
    BY <1>9, <2>1, <2>3 DEF IInv, ReturnInv, HoldsBefore
<1>15. ReportInv'
  <2>1. CASE reports' = reports
    BY <1>2, <1>9, <2>1 DEF IInv, ReportInv
  <2>2. CASE handleReturn
    <3> DEFINE k == <<ring[cons].tid, ring[cons].depth>>
               x == IF k \in DOMAIN frames THEN frames[k] ELSE NoCall
    <3>1. /\ reports' = reports \cup {[tid |-> ring[cons].tid, call |-> ring[cons].call, entry |-> x]}
          /\ ring[cons].kind = "return" /\ ring[cons].tid \in WatchTids
      BY <2>2 DEF handleReturn, Event, EventKey
    <3>2. \A c : Holds(ring, cons, frames, cons, ring[cons].tid, ring[cons].depth, c)
                    <=> k \in DOMAIN frames /\ frames[k] = c
      BY <1>3, HoldsAtHead
    <3>3. k \in DOMAIN frames => frames[k] \in Calls
      BY <1>0 DEF TypeOK
    <3>4. ring[cons].call \notin stray =>
            /\ ring[cons].tid \in mapped => x = ring[cons].call
            /\ ring[cons].tid \notin mapped => DepthFull
            /\ x \in {ring[cons].call, NoCall}
      BY <1>2, <3>1, <3>2, <3>3 DEF IInv, ReturnInv, HoldsBefore
    <3> HIDE DEF x, k
    <3>5. QED
      BY <1>2, <1>9, <3>1, <3>4 DEF IInv, ReportInv
  <2>3. QED
    BY <2>1, <2>2 DEF Loop, SkipRecord, HandleEntry
<1>16. QED
  BY <1>5, <1>8, <1>10, <1>12, <1>13, <1>14, <1>15 DEF Rest

-----------------------------------------------------------------------------
(* The invariant is inductive.                                             *)

LEMMA InitInvariant ==
  Init => IInv
<1> SUFFICES ASSUME Init PROVE IInv
  OBVIOUS
<1> USE DEF Init, ReconInit, NoPos
<1>0. cons..(prod - 1) = {} /\ cons = 0 /\ prod = 0
  OBVIOUS
<1>1. << >> \in Seq(Calls) /\ Len(<< >>) = 0
  BY EmptySeq
<1>2. TypeOK
  BY <1>0, <1>1, ReconAssumption DEF TypeOK, ReconTypeOK
<1>3. RingInv /\ BusyInv /\ ReturnInv /\ ReportInv
  BY <1>0 DEF RingInv, BusyInv, ReturnInv, ReportInv
<1>4. \A t \in Threads : ~Pending(t) /\ Pushed(t) = 0
  BY <1>1 DEF Pending, Pushed
<1>5. DepthInv /\ OpenInv
  BY <1>4, WatchAssumption DEF DepthInv, OpenInv
<1>6. \A t, d, c : ~HoldsBefore(prod, t, d, c)
  BY <1>0 DEF HoldsBefore, Holds
<1>7. UnmappedInv
  BY <1>6 DEF UnmappedInv
<1>8. QED
  BY <1>2, <1>3, <1>5, <1>7 DEF IInv

(* Every step keeps it: one case per action.                               *)
LEMMA StepInvariant ==
  IInv /\ [Next]_vars => IInv'
<1> SUFFICES ASSUME IInv, [Next]_vars PROVE IInv'
  OBVIOUS
<1>0. TypeOK' /\ TypeOK /\ ReconTypeOK
  BY TypeInductive, RestFacts
<1>1. ASSUME NEW off \in Offsets, AttachUprobe(off) \/ AttachUretprobe(off), UNCHANGED loopVars
      PROVE  Rest'
  BY <1>1, QuietStep DEF AttachUprobe, AttachUretprobe, loopVars, ringVars, depthVars, ghostVars
<1>2. ASSUME NEW t \in Threads, NEW off \in Offsets, up_all_reserve(t, off), UNCHANGED loopVars
      PROVE  Rest'
  <2> DEFINE r == [kind |-> "entry", tid |-> t, call |-> ncalls + 1, off |-> off,
                   depth |-> NoDepth, state |-> "busy"]
  <2>1. /\ NewCall(t, off) /\ Reserve(t, r) /\ busy[t] = NoPos
        /\ skewed' = (IF off \in Tracked <=> Armed(t, off) THEN skewed ELSE skewed \cup {t})
        /\ UNCHANGED <<mapped, depth, stray, frames, reports>>
    BY <1>2 DEF up_all_reserve, NewCall, Idle, loopVars, depthVars
  <2>2. /\ r \in Record /\ ncalls + 1 \in Calls
    BY <1>0, <2>1, NewCallType DEF Record
  <2>3. /\ r.kind = "entry" /\ r.tid = t /\ r.depth = NoDepth /\ r.state = "busy"
        /\ r.off = off /\ r.call = ncalls + 1
    OBVIOUS
  <2> HIDE DEF r
  <2>4. rets' = IF Armed(t, off) THEN [rets EXCEPT ![t] = Append(rets[t], ncalls + 1)] ELSE rets
    BY <2>1 DEF NewCall
  <2>5. /\ rets \in [Threads -> Seq(Calls)] /\ rets[t] \in Seq(Calls)
    BY <1>0 DEF ReconTypeOK
  <2>6. \A u \in Threads : u # t => rets'[u] = rets[u] /\ (u \in skewed' => u \in skewed)
    BY <2>1, <2>4, <2>5
  <2>7. ASSUME off \in Tracked, t \notin skewed'
        PROVE  /\ rets'[t] # << >> /\ ncalls + 1 = rets'[t][Len(rets'[t])]
               /\ Len(rets'[t]) - 1 = Len(rets[t])
               /\ \A i \in 1..Len(rets[t]) : rets'[t][i] = rets[t][i]
    <3>1. Armed(t, off)
      BY <2>1, <2>7
    <3>2. rets'[t] = Append(rets[t], ncalls + 1)
      BY <2>4, <2>5, <3>1
    <3>3. QED
      BY <2>2, <2>5, <3>2, PushSeq
  <2>8. off \notin Tracked /\ t \notin skewed' => rets'[t] = rets[t]
    BY <2>1, <2>4
  <2>9. skewed \subseteq skewed' /\ stray \subseteq stray'
    BY <2>1
  <2>10. QED
    BY <1>0, <2>1, <2>2, <2>3, <2>6, <2>7, <2>8, <2>9, ReserveStep
<1>3. ASSUME NEW t \in Threads, NEW off \in Offsets,
             up_all_full(t, off) \/ UnprobedCall(t, off), UNCHANGED loopVars
      PROVE  Rest'
  <2>1. /\ NewCall(t, off) /\ busy[t] = NoPos
        /\ skewed' = skewed \/ skewed' = skewed \cup {t}
        /\ Armed(t, off) => t \in skewed'
        /\ UNCHANGED <<ring, prod, cons, busy, mapped, depth, stray, frames, reports>>
    BY <1>3 DEF up_all_full, UnprobedCall, NewCall, Idle, loopVars, ringVars, depthVars
  <2>2. rets' = IF Armed(t, off) THEN [rets EXCEPT ![t] = Append(rets[t], ncalls + 1)] ELSE rets
    BY <2>1 DEF NewCall
  <2>3. rets \in [Threads -> Seq(Calls)]
    BY <1>0 DEF ReconTypeOK
  <2>4. \A u \in Threads : u # t => rets'[u] = rets[u]
    BY <2>2, <2>3
  <2>5. QED
    BY <2>1, <2>2, <2>4, LostStep
<1>4. ASSUME NEW t \in Threads, up_all_submit(t), UNCHANGED loopVars
      PROVE  Rest'
  BY <1>0, <1>4, SubmitEntryStep
<1>5. ASSUME NEW t \in Threads, up_ret_reserve(t), UNCHANGED loopVars
      PROVE  Rest'
  <2> DEFINE c == rets[t][Len(rets[t])]
             r == [kind |-> "return", tid |-> t, call |-> c, off |-> "none",
                   depth |-> NoDepth, state |-> "busy"]
  <2>1. /\ Reserve(t, r) /\ busy[t] = NoPos /\ rets[t] # << >>
        /\ stray' = (IF t \in skewed THEN stray \cup {c} ELSE stray)
        /\ UNCHANGED <<rets, mapped, depth, skewed, frames, reports>>
    BY <1>5 DEF up_ret_reserve, Idle, loopVars, depthVars
  <2>2. c \in Calls
    BY <1>0, <2>1, PopType
  <2>3. r \in Record
    BY <2>2 DEF Record
  <2>4. r.kind = "return" /\ r.tid = t /\ r.depth = NoDepth /\ r.state = "busy" /\ r.call = c
    OBVIOUS
  <2> HIDE DEF r
  <2>5. QED
    BY <1>0, <2>1, <2>3, <2>4, ReserveStep
<1>6. ASSUME NEW t \in Threads, up_ret_full(t), UNCHANGED loopVars
      PROVE  Rest'
  <2>1. /\ busy[t] = NoPos /\ Pop(t) /\ skewed' = skewed \cup {t}
        /\ UNCHANGED <<ring, prod, cons, busy, mapped, depth, stray, frames, reports>>
    BY <1>6 DEF up_ret_full, Idle, loopVars, ringVars, depthVars
  <2>2. \A u \in Threads : u # t => rets'[u] = rets[u]
    BY <1>0, <2>1 DEF ReconTypeOK, Pop
  <2>3. QED
    BY <2>1, <2>2, LostStep
<1>7. ASSUME NEW t \in Threads, up_ret_submit(t), UNCHANGED loopVars
      PROVE  Rest'
  BY <1>7, SubmitReturnStep
<1>8. ASSUME OpenReader \/ CloseReader
      PROVE  Rest'
  BY <1>8, QuietStep DEF OpenReader, CloseReader, reconVars, ringVars, depthVars, ghostVars
<1>9. ASSUME Loop
      PROVE  Rest'
  BY <1>0, <1>9, LoopStep
<1>10. ASSUME UNCHANGED vars
       PROVE  Rest'
  BY <1>10, QuietStep DEF vars, reconVars, loopVars, ringVars, depthVars, ghostVars
<1>11. Rest'
  BY <1>1, <1>2, <1>3, <1>4, <1>5, <1>6, <1>7, <1>8, <1>9, <1>10
  DEF Next, ReconNext, Attach, Handler, Return, Call
<1>12. QED
  BY <1>0, <1>11 DEF IInv, Rest

(* The trace keeps the inductive invariant: the ring buffer, the depth map *)
(* and the loop's frames agree about the open calls of balanced threads.   *)
THEOREM Invariant == Spec => []IInv
  BY InitInvariant, StepInvariant, PTL DEF Spec

(* Every variable of the probes and of the loop keeps its type; the ring   *)
(* buffer never holds more than RingCap records and busy positions are     *)
(* always inside it.                                                       *)
THEOREM TypeCorrect == Spec => []TypeOK
<1>1. IInv => TypeOK
  BY DEF IInv
<1>2. QED
  BY <1>1, Invariant, PTL

(* A return record of up_ret is joined by handleReturn with its own entry  *)
(* or with none, unless its thread's depth had been unbalanced before.     *)
THEOREM NoMispairing == Spec => []NeverMispaired
<1>1. IInv => NeverMispaired
  BY DEF IInv, ReportInv, NeverMispaired
<1>2. QED
  BY <1>1, Invariant, PTL

(* If the thread has its key in the depth map, handleReturn finds the      *)
(* frame of that very call: nothing is dropped.                            *)
THEOREM MappedPairing == Spec => []PairedWhenMapped
<1>1. IInv => PairedWhenMapped
  BY DEF IInv, ReportInv, PairedWhenMapped
<1>2. QED
  BY <1>1, Invariant, PTL

(* `depth = count of active tracked frames on the thread' (recon.bpf.c):   *)
(* true of every balanced thread with a key, whenever no probe is running. *)
THEOREM DepthIsCount == Spec => []DepthCountsFrames
<1>1. IInv => DepthCountsFrames
  BY DEF IInv, DepthInv, Pushed, Pending, Idle, DepthCountsFrames
<1>2. QED
  BY <1>1, Invariant, PTL

-----------------------------------------------------------------------------
(* No frame of the loop is used for two returns, whatever is lost: a call  *)
(* has its number in one place only, an entry record in the ring buffer, a *)
(* frame or a report.                                                      *)
Positions == cons..(prod - 1)

Entry(p) == ring[p].kind = "entry"

(* No number of a call is in the future ...                                *)
PastInv ==
  /\ \A p \in Positions : Entry(p) => ring[p].call <= ncalls
  /\ \A k \in DOMAIN frames : frames[k] <= ncalls
  /\ \A r \in reports : r.entry <= ncalls

(* ... and none is in two places.                                          *)
OnceInv ==
  /\ \A p, q \in Positions : Entry(p) /\ Entry(q) /\ ring[p].call = ring[q].call => p = q
  /\ \A p \in Positions : Entry(p) =>
       /\ \A k \in DOMAIN frames : frames[k] # ring[p].call
       /\ \A r \in reports : r.entry # ring[p].call
  /\ \A k, l \in DOMAIN frames : frames[k] = frames[l] => k = l
  /\ \A k \in DOMAIN frames, r \in reports : frames[k] # r.entry

UseInv == PastInv /\ OnceInv /\ FrameUsedOnce

(* The numbers compared are integers.                                      *)
LEMMA NumberTypes ==
  ASSUME TypeOK
  PROVE  /\ ncalls \in Int /\ cons \in Int /\ prod \in Int
         /\ \A p \in Positions : ring[p].call \in Int /\ ring[p].call # NoCall
         /\ \A k \in DOMAIN frames : frames[k] \in Int /\ frames[k] # NoCall
         /\ \A r \in reports : r.entry \in Int
  BY ReconAssumption DEF TypeOK, ReconTypeOK, Record, Report, Calls, NoCall, Positions

(* A step that adds no entry record and leaves frames and reports.         *)
LEMMA UseSame ==
  ASSUME UseInv, TypeOK, TypeOK', ncalls <= ncalls', UNCHANGED <<frames, reports>>,
         \A p \in Positions' : Entry(p)' => p \in Positions /\ Entry(p) /\ ring'[p].call = ring[p].call
  PROVE  UseInv'
<1>0. ncalls' \in Int
  BY ReconAssumption DEF TypeOK, ReconTypeOK
<1>1. PastInv'
  BY <1>0, NumberTypes DEF UseInv, PastInv
<1>2. OnceInv'
  BY DEF UseInv, OnceInv
<1>3. FrameUsedOnce'
  BY DEF UseInv, FrameUsedOnce
<1>4. QED
  BY <1>1, <1>2, <1>3 DEF UseInv

(* The number of a new call is in no place yet.                            *)
LEMMA UseCall ==
  ASSUME UseInv, TypeOK, TypeOK', NEW t \in Threads, NEW off \in Offsets,
         up_all_reserve(t, off), UNCHANGED loopVars
  PROVE  UseInv'
<1> DEFINE e == [kind |-> "entry", tid |-> t, call |-> ncalls + 1, off |-> off,
                 depth |-> NoDepth, state |-> "busy"]
<1>0. ReconTypeOK
  BY DEF TypeOK
<1>1. NewCall(t, off) /\ Reserve(t, e) /\ ncalls' = ncalls + 1 /\ UNCHANGED <<frames, reports>>
  BY DEF up_all_reserve, NewCall, loopVars
<1>2. e \in Record
  BY <1>1, NewCallType DEF Record
<1>3. e.call = ncalls + 1
  OBVIOUS
<1> HIDE DEF e
<1>4. /\ cons' = cons /\ prod' = prod + 1 /\ ring'[prod] = e
      /\ \A p \in cons..(prod - 1) : ring'[p] = ring[p]
  BY <1>0, <1>1, <1>2, ReserveFacts
<1>5. /\ Positions' = Positions \cup {prod}
      /\ \A p \in Positions : ring'[p] = ring[p]
      /\ ring'[prod].call = ncalls + 1
  BY <1>0, <1>3, <1>4 DEF Positions, ReconTypeOK
<1>6. PastInv'
  BY <1>1, <1>5, NumberTypes DEF UseInv, PastInv, Entry
<1>7. /\ \A p \in Positions : Entry(p) => ring[p].call # ncalls + 1
      /\ \A k \in DOMAIN frames : frames[k] # ncalls + 1
      /\ \A r \in reports : r.entry # ncalls + 1
  BY NumberTypes DEF UseInv, PastInv
<1>8. OnceInv'
  BY <1>1, <1>5, <1>7 DEF UseInv, OnceInv, Entry
<1>9. FrameUsedOnce'
  BY <1>1 DEF UseInv, FrameUsedOnce
<1>10. QED
  BY <1>6, <1>8, <1>9 DEF UseInv

(* The loop moves a number from the ring buffer to a frame, or from a      *)
(* frame to a report.                                                      *)
LEMMA UseLoop ==
  ASSUME UseInv, IInv, TypeOK', Loop
  PROVE  UseInv'
<1>0. TypeOK
  BY DEF IInv
<1>1. ReadRecord
  BY DEF Loop, SkipRecord, HandleEntry, handleReturn
<1>2. /\ cons \in Positions /\ cons' = cons + 1 /\ prod' = prod /\ ncalls' = ncalls
      /\ \A p \in Positions' : ring'[p] = ring[p]
  BY <1>1, ConsumeFacts DEF Positions
<1>3. \A p \in Positions' : p \in Positions /\ p # cons /\ (Entry(p)' <=> Entry(p))
  BY <1>0, <1>2, NumberTypes DEF Positions, Entry
<1>4. CASE UNCHANGED <<frames, reports>>
  BY <1>0, <1>2, <1>3, <1>4, UseSame, NumberTypes
<1>5. CASE HandleEntry /\ frames' = Put(frames, EventKey, Event.call)
  <2>1. Entry(cons) /\ reports' = reports /\ frames' = Put(frames, EventKey, ring[cons].call)
    BY <1>5 DEF HandleEntry, Event, Entry
  <2>2. \A k \in DOMAIN frames' :
          \/ k = EventKey /\ frames'[k] = ring[cons].call
          \/ k # EventKey /\ k \in DOMAIN frames /\ frames'[k] = frames[k]
    BY <2>1 DEF Put
  <2>3. PastInv'
    BY <1>2, <1>3, <2>1, <2>2 DEF UseInv, PastInv
  <2>4. /\ \A p, q \in Positions' : Entry(p)' /\ Entry(q)' /\ ring'[p].call = ring'[q].call => p = q
        /\ \A p \in Positions' : Entry(p)' => \A r \in reports' : r.entry # ring'[p].call
    BY <1>2, <1>3, <2>1 DEF UseInv, OnceInv
  <2>5. \A p \in Positions' : Entry(p)' => \A k \in DOMAIN frames' : frames'[k] # ring'[p].call
    BY <1>2, <1>3, <2>1, <2>2 DEF UseInv, OnceInv
  <2>6. \A k, l \in DOMAIN frames' : frames'[k] = frames'[l] => k = l
    BY <1>2, <2>1, <2>2 DEF UseInv, OnceInv
  <2>7. \A k \in DOMAIN frames', r \in reports' : frames'[k] # r.entry
    BY <1>2, <2>1, <2>2 DEF UseInv, OnceInv
  <2>8. FrameUsedOnce'
    BY <2>1 DEF UseInv, FrameUsedOnce
  <2>9. QED
    BY <2>3, <2>4, <2>5, <2>6, <2>7, <2>8 DEF UseInv, OnceInv
<1>6. CASE handleReturn
  <2> DEFINE c == IF EventKey \in DOMAIN frames THEN frames[EventKey] ELSE NoCall
             r0 == [tid |-> Event.tid, call |-> Event.call, entry |-> c]
  <2>1. reports' = reports \cup {r0} /\ frames' = Delete(frames, EventKey)
    BY <1>6 DEF handleReturn
  <2>2. /\ DOMAIN frames' = DOMAIN frames \ {EventKey}
        /\ \A k \in DOMAIN frames' : frames'[k] = frames[k]
    BY <2>1 DEF Delete
  <2>3. r0.entry = c
    OBVIOUS
  <2>4. c # NoCall => EventKey \in DOMAIN frames /\ c = frames[EventKey]
    OBVIOUS
  <2>5. c <= ncalls /\ ncalls \in Nat /\ NoCall = 0
    BY <1>0 DEF UseInv, PastInv, NoCall, TypeOK, ReconTypeOK
  <2> HIDE DEF c, r0
  <2>6. PastInv'
    BY <1>2, <1>3, <2>1, <2>2, <2>3, <2>5 DEF UseInv, PastInv
  <2>7. /\ \A p \in Positions : ring[p].call # NoCall
        /\ \A k \in DOMAIN frames : frames[k] # NoCall
    BY <1>0, NumberTypes
  <2>8. /\ \A p \in Positions : Entry(p) => c # ring[p].call
        /\ \A k \in DOMAIN frames' : frames[k] # c
        /\ \A r \in reports : c # NoCall => r.entry # c
    BY <2>2, <2>4, <2>7 DEF UseInv, OnceInv
  <2>9. /\ \A p, q \in Positions' : Entry(p)' /\ Entry(q)' /\ ring'[p].call = ring'[q].call => p = q
        /\ \A p \in Positions' : Entry(p)' => \A k \in DOMAIN frames' : frames'[k] # ring'[p].call
        /\ \A k, l \in DOMAIN frames' : frames'[k] = frames'[l] => k = l
    BY <1>2, <1>3, <2>2 DEF UseInv, OnceInv
  <2>10. \A p \in Positions' : Entry(p)' => \A r \in reports' : r.entry # ring'[p].call
    BY <1>2, <1>3, <2>1, <2>3, <2>8 DEF UseInv, OnceInv
  <2>11. \A k \in DOMAIN frames', r \in reports' : frames'[k] # r.entry
    BY <2>1, <2>2, <2>3, <2>8 DEF UseInv, OnceInv
  <2>12. FrameUsedOnce'
    BY <2>1, <2>3, <2>8 DEF UseInv, FrameUsedOnce
  <2>13. QED
    BY <2>6, <2>9, <2>10, <2>11, <2>12 DEF UseInv, OnceInv
<1>7. QED
  BY <1>4, <1>5, <1>6 DEF Loop, SkipRecord, HandleEntry

LEMMA UseStep == UseInv /\ IInv /\ IInv' /\ [Next]_vars => UseInv'
<1> SUFFICES ASSUME UseInv, IInv, IInv', [Next]_vars PROVE UseInv'
  OBVIOUS
<1>0. TypeOK /\ TypeOK' /\ ReconTypeOK /\ ncalls \in Int
  BY NumberTypes DEF IInv, TypeOK
<1>1. CASE UNCHANGED <<ring, cons, prod, frames, reports>> /\ ncalls <= ncalls'
  BY <1>0, <1>1, UseSame DEF Positions, Entry
<1>2. ASSUME NEW off \in Offsets, AttachUprobe(off) \/ AttachUretprobe(off), UNCHANGED loopVars
      PROVE  UseInv'
  BY <1>0, <1>1, <1>2 DEF AttachUprobe, AttachUretprobe, ringVars, loopVars
<1>3. ASSUME NEW t \in Threads, NEW off \in Offsets, up_all_reserve(t, off), UNCHANGED loopVars
      PROVE  UseInv'
  BY <1>0, <1>3, UseCall
<1>4. ASSUME NEW t \in Threads, NEW off \in Offsets, up_all_full(t, off) \/ UnprobedCall(t, off),
             UNCHANGED loopVars
      PROVE  UseInv'
  BY <1>0, <1>1, <1>4 DEF up_all_full, UnprobedCall, NewCall, ringVars, loopVars
<1>5. ASSUME NEW t \in Threads, up_all_submit(t) \/ up_ret_submit(t), UNCHANGED loopVars
      PROVE  UseInv'
  <2>1. /\ busy[t] # NoPos /\ ncalls' = ncalls /\ UNCHANGED <<frames, reports>>
        /\ depth[t] \in Nat
    BY <1>0, <1>5 DEF up_all_submit, up_ret_submit, Idle, loopVars, ReconTypeOK
  <2>2. \E d \in Nat \cup {NoDepth} : Submit(t, d)
    <3>1. CASE up_all_submit(t)
      BY <2>1, <3>1 DEF up_all_submit
    <3>2. CASE up_ret_submit(t)
      BY <2>1, <3>2 DEF up_ret_submit
    <3>3. QED
      BY <1>5, <3>1, <3>2
  <2>3. /\ cons' = cons /\ prod' = prod
        /\ \A p \in cons..(prod - 1) : ring'[p].kind = ring[p].kind /\ ring'[p].call = ring[p].call
    BY <1>0, <2>1, <2>2, SubmitFacts
  <2>4. QED
    BY <1>0, <2>1, <2>3, UseSame DEF Positions, Entry
<1>6. ASSUME NEW t \in Threads, up_ret_reserve(t), UNCHANGED loopVars
      PROVE  UseInv'
  <2> DEFINE e == [kind |-> "return", tid |-> t, call |-> rets[t][Len(rets[t])], off |-> "none",
                   depth |-> NoDepth, state |-> "busy"]
  <2>1. Reserve(t, e) /\ rets[t] # << >> /\ ncalls' = ncalls /\ UNCHANGED <<frames, reports>>
    BY <1>6 DEF up_ret_reserve, loopVars
  <2>2. rets[t][Len(rets[t])] \in Calls
    BY <1>0, <2>1, PopType
  <2>3. e \in Record /\ e.kind = "return"
    BY <2>2 DEF Record
  <2> HIDE DEF e
  <2>4. /\ cons' = cons /\ prod' = prod + 1 /\ ring'[prod] = e
        /\ \A p \in cons..(prod - 1) : ring'[p] = ring[p]
    BY <1>0, <2>1, <2>3, ReserveFacts
  <2>5. \A p \in Positions' : p = prod \/ p \in Positions
    BY <1>0, <2>4 DEF Positions, ReconTypeOK
  <2>6. QED
    BY <1>0, <2>1, <2>3, <2>4, <2>5, UseSame DEF Positions, Entry
<1>7. ASSUME NEW t \in Threads, up_ret_full(t), UNCHANGED loopVars
      PROVE  UseInv'
  BY <1>0, <1>1, <1>7 DEF up_ret_full, ringVars, loopVars
<1>8. CASE OpenReader \/ CloseReader \/ UNCHANGED vars
  BY <1>0, <1>1, <1>8 DEF OpenReader, CloseReader, vars, reconVars, ringVars, loopVars
<1>9. CASE Loop
  BY <1>0, <1>9, UseLoop
<1>10. QED
  BY <1>2, <1>3, <1>4, <1>5, <1>6, <1>7, <1>8, <1>9
  DEF Next, ReconNext, Attach, Handler, Return, Call

(* handleReturn never uses one frame for two returns, even after records   *)
(* of either kind were dropped and frames were left behind.                *)
THEOREM FramesUsedOnce == Spec => []FrameUsedOnce
<1>1. Init => UseInv
  BY DEF Init, ReconInit, UseInv, PastInv, OnceInv, FrameUsedOnce, Positions
<1>2. UseInv => FrameUsedOnce
  BY DEF UseInv
<1>3. Spec => []IInv
  BY Invariant
<1>4. UseInv /\ IInv /\ IInv' /\ [Next]_vars => UseInv'
  BY UseStep
<1>5. QED
  BY <1>1, <1>2, <1>3, <1>4, PTL DEF Spec
=============================================================================
