------------------------ MODULE PairingRefinesProofs ------------------------
(***************************************************************************)
(* The proof that Pairing implements the lossy CallTrace, for every number *)
(* of threads, functions and calls and every capacity.  The safety of the  *)
(* mapping rests on IInv: RingInv for the order of the returns of a        *)
(* thread, BusyInv for the call a return is about, ReportInv for the entry *)
(* it is joined with.                                                      *)
(***************************************************************************)
EXTENDS PairingRefines, PairingProofs, FiniteSetTheorems

(* A return waits while its record is ready and in the ring buffer.        *)
LEMMA WaitingDef ==
  \A w : w \in Waiting <=>
    \E p \in cons..(prod - 1) :
      /\ ring[p].kind = "return" /\ ring[p].state = "ready"
      /\ w = [ticket |-> p, tid |-> ring[p].tid, call |-> ring[p].call]
  BY DEF Waiting, ReturnsAt

LEMMA WaitingDefNext ==
  \A w : w \in Waiting' <=>
    \E p \in cons'..(prod' - 1) :
      /\ ring'[p].kind = "return" /\ ring'[p].state = "ready"
      /\ w = [ticket |-> p, tid |-> ring'[p].tid, call |-> ring'[p].call]
  BY DEF Waiting, ReturnsAt

(* A record that is only reserved does not wait.                           *)
LEMMA WaitingReserve ==
  ASSUME ReconTypeOK, NEW t \in Threads, NEW r \in Record, r.state = "busy", Reserve(t, r)
  PROVE  Waiting' = Waiting
<1>1. /\ cons' = cons /\ prod' = prod + 1 /\ ring'[prod] = r
      /\ \A p \in cons..(prod - 1) : ring'[p] = ring[p]
  BY ReserveFacts
<1>2. cons \in Nat /\ prod \in Nat /\ cons <= prod
  BY DEF ReconTypeOK
<1>3. cons'..(prod' - 1) = (cons..(prod - 1)) \cup {prod}
  BY <1>1, <1>2
<1>4. \A w : w \in Waiting' <=> w \in Waiting
  BY <1>1, <1>3, WaitingDef, WaitingDefNext
<1>5. QED
  BY <1>4

(* Nor does an entry, whether it is submitted ...                          *)
LEMMA WaitingSubmitEntry ==
  ASSUME ReconTypeOK, NEW t \in Threads, busy[t] # NoPos, ring[busy[t]].kind = "entry",
         NEW d \in Nat \cup {NoDepth}, Submit(t, d)
  PROVE  Waiting' = Waiting
<1>1. /\ cons' = cons /\ prod' = prod
      /\ \A p \in cons..(prod - 1) : p # busy[t] => ring'[p] = ring[p]
      /\ ring'[busy[t]].kind = "entry"
  BY SubmitFacts
<1>2. \A w : w \in Waiting' <=> w \in Waiting
  BY <1>1, WaitingDef, WaitingDefNext
<1>3. QED
  BY <1>2

(* A return waits from the moment it is submitted, behind the others of    *)
(* its thread.                                                             *)
LEMMA WaitingSubmitReturn ==
  ASSUME IInv, NEW t \in Threads, busy[t] # NoPos, ring[busy[t]].kind = "return",
         NEW d \in Nat \cup {NoDepth}, Submit(t, d),
         NEW w, w = [ticket |-> busy[t], tid |-> t, call |-> ring[busy[t]].call]
  PROVE  /\ Waiting' = Waiting \cup {w}
         /\ \A v \in Waiting : v.tid = t => v.ticket < w.ticket
<1>0. ReconTypeOK /\ RingInv
  BY DEF IInv, TypeOK
<1>1. /\ cons' = cons /\ prod' = prod
      /\ busy[t] \in cons..(prod - 1)
      /\ \A p \in cons..(prod - 1) : p # busy[t] => ring'[p] = ring[p]
      /\ ring'[busy[t]].kind = "return" /\ ring'[busy[t]].state = "ready"
      /\ ring'[busy[t]].tid = ring[busy[t]].tid /\ ring'[busy[t]].call = ring[busy[t]].call
  BY <1>0, SubmitFacts
<1>2. /\ ring[busy[t]].tid = t /\ ring[busy[t]].state = "busy"
      /\ \A p \in cons..(prod - 1) : ring[p].tid = t => p <= busy[t]
  BY <1>0 DEF RingInv
<1>3. \A v : v \in Waiting' <=> v \in Waiting \/ v = w
  BY <1>1, <1>2, WaitingDef, WaitingDefNext
<1>4. ASSUME NEW v \in Waiting, v.tid = t PROVE v.ticket < w.ticket
  <2>1. PICK p \in cons..(prod - 1) :
          /\ ring[p].kind = "return" /\ ring[p].state = "ready"
          /\ v = [ticket |-> p, tid |-> ring[p].tid, call |-> ring[p].call]
    BY <1>4, WaitingDef
  <2>2. v.ticket = p /\ v.tid = ring[p].tid /\ w.ticket = busy[t]
    BY <2>1
  <2>3. p <= busy[t] /\ p # busy[t]
    BY <1>2, <1>4, <2>1, <2>2
  <2>4. p \in Int /\ busy[t] \in Int
    BY <1>0, <1>1 DEF ReconTypeOK
  <2>5. QED
    BY <2>2, <2>3, <2>4
<1>5. QED
  BY <1>3, <1>4

(* Reading a record ends the wait of the return at the head, if it is one. *)
LEMMA WaitingConsume ==
  ASSUME IInv, ReadRecord,
         NEW w, w = [ticket |-> cons, tid |-> ring[cons].tid, call |-> ring[cons].call]
  PROVE  /\ ring[cons].kind = "entry" => Waiting' = Waiting
         /\ ring[cons].kind = "return" =>
              /\ w \in Waiting /\ Waiting' = Waiting \ {w}
              /\ \A v \in Waiting : w.ticket <= v.ticket
<1>0. cons \in Nat /\ prod \in Nat /\ cons <= prod
  BY DEF IInv, TypeOK, ReconTypeOK
<1>1. /\ cons \in cons..(prod - 1) /\ ring[cons].state = "ready"
      /\ cons' = cons + 1 /\ prod' = prod
      /\ \A p \in cons'..(prod' - 1) : ring'[p] = ring[p]
  BY ConsumeFacts
<1>2. cons..(prod - 1) = (cons'..(prod' - 1)) \cup {cons} /\ cons \notin cons'..(prod' - 1)
  BY <1>0, <1>1
<1>3. ASSUME ring[cons].kind = "entry" PROVE Waiting' = Waiting
  <2>1. \A v : v \in Waiting' <=> v \in Waiting
    BY <1>1, <1>2, <1>3, WaitingDef, WaitingDefNext
  <2>2. QED
    BY <2>1
<1>4. ASSUME ring[cons].kind = "return"
      PROVE  w \in Waiting /\ Waiting' = Waiting \ {w}
  <2>1. w \in Waiting
    BY <1>1, <1>4, WaitingDef
  <2>2. ASSUME NEW v \in Waiting' PROVE v \in Waiting /\ v # w
    <3>1. PICK p \in cons'..(prod' - 1) :
            /\ ring[p].kind = "return" /\ ring[p].state = "ready"
            /\ v = [ticket |-> p, tid |-> ring[p].tid, call |-> ring[p].call]
      BY <1>1, WaitingDefNext
    <3>2. v.ticket = p /\ w.ticket = cons
      BY <3>1
    <3>3. QED
      BY <1>2, <3>1, <3>2, WaitingDef
  <2>3. ASSUME NEW v \in Waiting, v # w PROVE v \in Waiting'
    <3>1. PICK p \in cons..(prod - 1) :
            /\ ring[p].kind = "return" /\ ring[p].state = "ready"
            /\ v = [ticket |-> p, tid |-> ring[p].tid, call |-> ring[p].call]
      BY WaitingDef
    <3>2. p # cons
      BY <2>3, <3>1
    <3>3. QED
      BY <1>1, <1>2, <3>1, <3>2, WaitingDefNext
  <2>4. QED
    BY <2>1, <2>2, <2>3
<1>5. ASSUME NEW v \in Waiting PROVE w.ticket <= v.ticket
  <2>1. PICK p \in cons..(prod - 1) : v = [ticket |-> p, tid |-> ring[p].tid, call |-> ring[p].call]
    BY WaitingDef
  <2>2. v.ticket = p /\ w.ticket = cons
    BY <2>1
  <2>3. QED
    BY <1>0, <2>2
<1>6. QED
  BY <1>3, <1>4, <1>5

-----------------------------------------------------------------------------
(* Calls: a new number, perhaps an armed return, perhaps a broken thread.  *)
LEMMA CallRefines ==
  ASSUME IInv, NEW t \in Threads, NEW off \in Offsets, Call(t, off), UNCHANGED loopVars
  PROVE  LossyCalls!Enter(t)
<1>0. ReconTypeOK
  BY DEF IInv, TypeOK
<1>1. NewCall(t, off) /\ stray' = stray /\ reports' = reports
  BY DEF Call, up_all_reserve, up_all_full, UnprobedCall, loopVars
<1>2. skewed' = skewed \/ skewed' = skewed \cup {t}
  BY DEF Call, up_all_reserve, up_all_full, UnprobedCall
<1>3. Waiting' = Waiting
  <2>1. CASE up_all_reserve(t, off)
    <3> DEFINE r == [kind |-> "entry", tid |-> t, call |-> ncalls + 1, off |-> off,
                     depth |-> NoDepth, state |-> "busy"]
    <3>1. ncalls + 1 \in Calls
      BY <1>1, NewCallType DEF IInv
    <3>2. r \in Record /\ r.state = "busy" /\ Reserve(t, r)
      BY <2>1, <3>1 DEF up_all_reserve, Record
    <3> HIDE DEF r
    <3>3. QED
      BY <1>0, <3>2, WaitingReserve
  <2>2. CASE up_all_full(t, off) \/ UnprobedCall(t, off)
    BY <2>2 DEF up_all_full, UnprobedCall, ringVars, Waiting, ReturnsAt
  <2>3. QED
    BY <2>1, <2>2 DEF Call
<1>4. QED
  BY <1>1, <1>2, <1>3 DEF LossyCalls!Enter, NewCall

(* The innermost call of a thread, closed.                                 *)
LEMMA PopRefines ==
  ASSUME NEW t \in Threads, rets[t] # << >>, Pop(t)
  PROVE  LossyCalls!Close(t)
  BY DEF Pop, LossyCalls!Close

(* A return is excused, waits or is lost.                                  *)
LEMMA ReturnRefines ==
  ASSUME IInv, NEW t \in Threads, Return(t), UNCHANGED loopVars
  PROVE  [LossyCalls!Next]_LossyCalls!vars
<1>0. ReconTypeOK
  BY DEF IInv, TypeOK
<1>1. CASE up_ret_reserve(t)
  <2> DEFINE c == rets[t][Len(rets[t])]
             r == [kind |-> "return", tid |-> t, call |-> c, off |-> "none",
                   depth |-> NoDepth, state |-> "busy"]
  <2>1. /\ Reserve(t, r) /\ rets[t] # << >>
        /\ stray' = (IF t \in skewed THEN stray \cup {c} ELSE stray)
        /\ UNCHANGED <<rets, ncalls, skewed, reports>>
    BY <1>1 DEF up_ret_reserve, loopVars
  <2>2. c \in Calls
    BY <1>0, <2>1, PopType DEF IInv
  <2>3. r \in Record /\ r.state = "busy"
    BY <2>2 DEF Record
  <2> HIDE DEF r
  <2>4. Waiting' = Waiting
    BY <1>0, <2>1, <2>3, WaitingReserve
  <2>5. CASE t \in skewed
    <3>1. LossyCalls!Excuse(t)
      BY <2>1, <2>4, <2>5 DEF LossyCalls!Excuse, LossyCalls!Innermost
    <3>2. QED
      BY <3>1 DEF LossyCalls!Next
  <2>6. CASE t \notin skewed
    BY <2>1, <2>4, <2>6 DEF LossyCalls!vars
  <2>7. QED
    BY <2>5, <2>6
<1>2. CASE up_ret_full(t)
  <2>1. LossyCalls!Close(t)
    BY <1>2, PopRefines DEF up_ret_full
  <2>2. Waiting' = Waiting
    BY <1>2 DEF up_ret_full, ringVars, Waiting, ReturnsAt
  <2>3. LossyCalls!Lose(t)
    BY <1>2, <2>1, <2>2 DEF up_ret_full, loopVars, LossyCalls!Lose
  <2>4. QED
    BY <2>3 DEF LossyCalls!Next
<1>3. QED
  BY <1>1, <1>2 DEF Return

(* The submit of an entry is not seen, that of a return is Leave.          *)
LEMMA HandlerRefines ==
  ASSUME IInv, NEW t \in Threads, Handler(t), UNCHANGED loopVars
  PROVE  [LossyCalls!Next]_LossyCalls!vars
<1>0. ReconTypeOK /\ BusyInv /\ depth[t] \in Nat
  BY DEF IInv, TypeOK, ReconTypeOK
<1>1. CASE up_all_submit(t)
  <2>1. busy[t] # NoPos /\ ring[busy[t]].kind = "entry" /\ UNCHANGED <<rets, ncalls, skewed, stray, reports>>
    BY <1>1 DEF up_all_submit, Idle, ghostVars, loopVars
  <2>2. \E d \in Nat \cup {NoDepth} : Submit(t, d)
    BY <1>0, <1>1 DEF up_all_submit
  <2>3. Waiting' = Waiting
    BY <1>0, <2>1, <2>2, WaitingSubmitEntry
  <2>4. QED
    BY <2>1, <2>3 DEF LossyCalls!vars
<1>2. CASE up_ret_submit(t)
  <2> DEFINE w == [ticket |-> busy[t], tid |-> t, call |-> ring[busy[t]].call]
  <2>1. /\ busy[t] # NoPos /\ ring[busy[t]].kind = "return" /\ Pop(t)
        /\ UNCHANGED <<ncalls, skewed, stray, reports>>
    BY <1>2 DEF up_ret_submit, Idle, ghostVars, loopVars
  <2>2. \E d \in Nat \cup {NoDepth} : Submit(t, d)
    BY <1>0, <1>2 DEF up_ret_submit
  <2>3. w.tid = t /\ w.call = ring[busy[t]].call
    OBVIOUS
  <2>4. /\ Waiting' = Waiting \cup {w}
        /\ \A v \in Waiting : v.tid = t => v.ticket < w.ticket
    BY <2>1, <2>2, WaitingSubmitReturn
  <2> HIDE DEF w
  <2>5. /\ t \in skewed => ring[busy[t]].call \in stray
        /\ rets[t] # << >>
        /\ ring[busy[t]].call = rets[t][Len(rets[t])]
    BY <1>0, <2>1 DEF BusyInv
  <2>6. LossyCalls!Close(t)
    BY <2>1, <2>5, PopRefines
  <2>7. LossyCalls!Leave(t)
    BY <2>1, <2>3, <2>4, <2>5, <2>6 DEF LossyCalls!Leave, LossyCalls!Innermost
  <2>8. QED
    BY <2>7 DEF LossyCalls!Next
<1>3. QED
  BY <1>1, <1>2 DEF Handler

(* Reading a return is Show, with an entry that ReportInv allows.          *)
LEMMA LoopRefines ==
  ASSUME IInv, IInv', Loop
  PROVE  [LossyCalls!Next]_LossyCalls!vars
<1> DEFINE t == ring[cons].tid
           w == [ticket |-> cons, tid |-> t, call |-> ring[cons].call]
<1>1. ReadRecord
  BY DEF Loop, SkipRecord, HandleEntry, handleReturn
<1>2. /\ ring[cons] \in Record
      /\ UNCHANGED <<rets, ncalls, skewed, stray>>
  BY <1>1, ConsumeFacts
<1>3. t \in Threads /\ ring[cons].kind \in {"entry", "return"}
  BY <1>2 DEF Record
<1>4. /\ ring[cons].kind = "entry" => Waiting' = Waiting
      /\ ring[cons].kind = "return" =>
           /\ w \in Waiting /\ Waiting' = Waiting \ {w}
           /\ \A v \in Waiting : w.ticket <= v.ticket
  BY <1>1, WaitingConsume
<1>5. w.tid = t /\ w.call = ring[cons].call
  OBVIOUS
<1> HIDE DEF w
<1>6. CASE ring[cons].kind = "entry"
  <2>1. reports' = reports
    BY <1>6 DEF Loop, SkipRecord, HandleEntry, handleReturn, Event
  <2>2. QED
    BY <1>2, <1>4, <1>6, <2>1 DEF LossyCalls!vars
<1>7. CASE ring[cons].kind = "return" /\ t \notin WatchTids
  <2>1. reports' = reports
    BY <1>7 DEF Loop, SkipRecord, HandleEntry, handleReturn, Event
  <2>2. LossyCalls!Show(t)
    BY <1>2, <1>4, <1>5, <1>7, <2>1 DEF LossyCalls!Show
  <2>3. QED
    BY <1>3, <2>2 DEF LossyCalls!Next
<1>8. CASE ring[cons].kind = "return" /\ t \in WatchTids
  <2>1. PICK c : reports' = reports \cup {[tid |-> t, call |-> w.call, entry |-> c]}
    BY <1>5, <1>8 DEF Loop, SkipRecord, HandleEntry, handleReturn, Event
  <2> DEFINE r == [tid |-> t, call |-> w.call, entry |-> c]
  <2>2. r \in reports' /\ reports' \subseteq Report /\ ReportInv'
    BY <2>1 DEF IInv, TypeOK
  <2>3. r.call = w.call /\ r.entry = c
    OBVIOUS
  <2>4. c \in Calls \cup {0}
    BY <2>2, <2>3 DEF Report, NoCall
  <2>5. w.call \notin stray => c \in {w.call, 0}
    BY <1>2, <2>2, <2>3 DEF ReportInv, NoCall
  <2>6. c \in LossyCalls!Entries(w.call)
    BY <2>4, <2>5 DEF LossyCalls!Entries
  <2>7. LossyCalls!Show(t)
    BY <1>2, <1>4, <1>5, <1>8, <2>1, <2>6 DEF LossyCalls!Show
  <2>8. QED
    BY <1>3, <2>7 DEF LossyCalls!Next
<1>9. QED
  BY <1>3, <1>6, <1>7, <1>8

LEMMA StepRefines == IInv /\ IInv' /\ [Next]_vars => [LossyCalls!Next]_LossyCalls!vars
<1> SUFFICES ASSUME IInv, IInv', [Next]_vars PROVE [LossyCalls!Next]_LossyCalls!vars
  OBVIOUS
<1>1. ASSUME NEW off \in Offsets, AttachUprobe(off) \/ AttachUretprobe(off), UNCHANGED loopVars
      PROVE  UNCHANGED LossyCalls!vars
  BY <1>1 DEF AttachUprobe, AttachUretprobe, LossyCalls!vars, Waiting, ReturnsAt, loopVars, ringVars, ghostVars
<1>2. ASSUME NEW t \in Threads, NEW off \in Offsets, Call(t, off), UNCHANGED loopVars
      PROVE  LossyCalls!Next
  BY <1>2, CallRefines DEF LossyCalls!Next
<1>3. ASSUME NEW t \in Threads, Return(t), UNCHANGED loopVars
      PROVE  [LossyCalls!Next]_LossyCalls!vars
  BY <1>3, ReturnRefines
<1>4. ASSUME NEW t \in Threads, Handler(t), UNCHANGED loopVars
      PROVE  [LossyCalls!Next]_LossyCalls!vars
  BY <1>4, HandlerRefines
<1>5. CASE OpenReader \/ CloseReader \/ UNCHANGED vars
  BY <1>5 DEF OpenReader, CloseReader, LossyCalls!vars, Waiting, ReturnsAt, vars, reconVars, loopVars,
              ringVars, ghostVars
<1>6. CASE Loop
  BY <1>6, LoopRefines
<1>7. QED
  BY <1>1, <1>2, <1>3, <1>4, <1>5, <1>6 DEF Next, ReconNext, Attach

LEMMA InitRefines == Init => LossyCalls!Init
<1> SUFFICES ASSUME Init PROVE LossyCalls!Init
  OBVIOUS
<1>1. Waiting = {}
  BY DEF Init, ReconInit, Waiting, ReturnsAt
<1>2. QED
  BY <1>1 DEF Init, ReconInit, LossyCalls!Init

(* Whatever up_all, up_ret and the ring buffer lose, a trace implements    *)
(* the lossy CallTrace: the returns of each thread are handled in order,   *)
(* each once, and each is joined with its own entry or with none until     *)
(* that very thread has lost something.                                    *)
THEOREM TraceRefines == Spec => LossyTrace
<1>1. Spec => []IInv
  BY Invariant
<1>2. Init => LossyCalls!Init
  BY InitRefines
<1>3. IInv /\ IInv' /\ [Next]_vars => [LossyCalls!Next]_LossyCalls!vars
  BY StepRefines
<1>4. QED
  BY <1>1, <1>2, <1>3, PTL DEF Spec, LossyTrace, LossyCalls!Spec

-----------------------------------------------------------------------------
(* A trace that loses nothing: the probes are attached, all of them,       *)
(* before the target calls, the depth map has room for every thread, and   *)
(* neither the ring buffer nor the kernel's list of pending returns is     *)
(* ever full.                                                              *)
Quiet ==
  /\ TargetWaits /\ ~AttachErrors
  /\ IsFiniteSet(Threads) /\ Cardinality(Threads) <= DepthCap
  /\ ~RingFull
  /\ \A t \in Threads : Len(rets[t]) < UretCap

(* Then no thread is ever unbalanced.                                      *)
QuietInv ==
  /\ skewed = {} /\ stray = {}
  /\ up = Offsets \ todoUp /\ ret = Tracked \ todoRet

(* Every thread gets its key in the depth map.                             *)
LEMMA DepthRoom ==
  ASSUME ReconTypeOK, Quiet
  PROVE  DepthFull => mapped = Threads
<1>1. mapped \subseteq Threads /\ IsFiniteSet(Threads) /\ Cardinality(Threads) <= DepthCap /\ DepthCap \in Nat
  BY ReconAssumption DEF ReconTypeOK, Quiet
<1>2. /\ IsFiniteSet(mapped) /\ Cardinality(mapped) <= Cardinality(Threads)
      /\ Cardinality(mapped) = Cardinality(Threads) => mapped = Threads
  BY <1>1, FS_Subset
<1>3. Cardinality(mapped) \in Nat /\ Cardinality(Threads) \in Nat
  BY <1>1, <1>2, FS_CardinalityType
<1>4. QED
  BY <1>1, <1>2, <1>3 DEF DepthFull

LEMMA QuietStays == IInv /\ Quiet /\ QuietInv /\ [Next]_vars => QuietInv'
<1> SUFFICES ASSUME IInv, Quiet, QuietInv, [Next]_vars PROVE QuietInv'
  OBVIOUS
<1>1. todoUp \subseteq Offsets /\ todoRet \subseteq Tracked /\ Tracked \subseteq Offsets
  BY ReconAssumption DEF IInv, TypeOK, ReconTypeOK
<1>2. ASSUME NEW off \in Offsets, AttachUprobe(off) \/ AttachUretprobe(off)
      PROVE  QuietInv'
  <2>1. CASE AttachUprobe(off)
    BY <1>1, <2>1 DEF AttachUprobe, QuietInv, Quiet, ghostVars
  <2>2. CASE AttachUretprobe(off)
    BY <1>1, <2>2 DEF AttachUretprobe, QuietInv, Quiet, ghostVars
  <2>3. QED
    BY <1>2, <2>1, <2>2
<1>3. ASSUME NEW t \in Threads, NEW off \in Offsets, Call(t, off)
      PROVE  QuietInv'
  <2>1. NewCall(t, off) /\ UNCHANGED attachVars /\ stray' = stray
    BY <1>3 DEF Call, up_all_reserve, up_all_full, UnprobedCall
  <2>2. up = Offsets /\ ret = Tracked
    BY <2>1 DEF NewCall, Attached, QuietInv, Quiet
  <2>3. up_all_reserve(t, off)
    BY <1>3, <2>2 DEF Call, up_all_full, UnprobedCall, Quiet
  <2>4. off \in Tracked <=> Armed(t, off)
    BY <2>2 DEF Armed, Quiet
  <2>5. skewed' = skewed
    BY <2>3, <2>4 DEF up_all_reserve
  <2>6. QED
    BY <2>1, <2>5 DEF QuietInv, attachVars
<1>4. ASSUME NEW t \in Threads, Return(t)
      PROVE  QuietInv'
  BY <1>4 DEF Return, up_ret_reserve, up_ret_full, QuietInv, Quiet, attachVars
<1>5. ASSUME NEW t \in Threads, Handler(t)
      PROVE  QuietInv'
  BY <1>5 DEF Handler, up_all_submit, up_ret_submit, QuietInv, attachVars, ghostVars
<1>6. CASE OpenReader \/ CloseReader \/ Loop \/ UNCHANGED vars
  BY <1>6 DEF OpenReader, CloseReader, Loop, SkipRecord, HandleEntry, handleReturn, ReadRecord,
              vars, reconVars, QuietInv, attachVars, ghostVars
<1>7. QED
  BY <1>2, <1>3, <1>4, <1>5, <1>6 DEF Next, ReconNext, Attach

LEMMA QuietPairs == IInv /\ Quiet /\ QuietInv => EveryReturnPaired
<1> SUFFICES ASSUME IInv, Quiet, QuietInv, NEW r \in reports PROVE r.entry = r.call
  BY DEF EveryReturnPaired
<1>1. r.call \notin stray /\ r.tid \in Threads
  BY DEF QuietInv, IInv, TypeOK, Report
<1>2. r.tid \in mapped
  BY <1>1, DepthRoom DEF IInv, TypeOK, ReportInv
<1>3. QED
  BY <1>1, <1>2 DEF IInv, ReportInv

LEMMA QuietInvariant == Spec /\ []Quiet => []QuietInv
<1>1. Init => QuietInv
  BY ReconAssumption DEF Init, ReconInit, QuietInv
<1>2. QED
  BY <1>1, Invariant, QuietStays, PTL DEF Spec

(* recon.bpf.c: `depth = count of active tracked frames on the thread, so  *)
(* nested calls pair': they do, each return with its own entry, in every   *)
(* trace that loses nothing.                                               *)
THEOREM QuietTracePairs == Spec /\ []Quiet => []EveryReturnPaired
  BY Invariant, QuietInvariant, QuietPairs, PTL

(* With nothing broken, a step of the lossy CallTrace is one of the exact. *)
LEMMA QuietStepRefines ==
  IInv /\ IInv' /\ EveryReturnPaired' /\ QuietInv /\ QuietInv' /\ [Next]_vars => [ExactCalls!Next]_ExactCalls!vars
<1> SUFFICES ASSUME IInv, IInv', EveryReturnPaired', QuietInv, QuietInv', [Next]_vars
             PROVE  [ExactCalls!Next]_ExactCalls!vars
  OBVIOUS
<1>1. skewed = {} /\ skewed' = {} /\ stray = {}
  BY DEF QuietInv
<1>2. \A r \in reports' : r.entry = r.call
  BY DEF EveryReturnPaired
<1>3. [LossyCalls!Next]_LossyCalls!vars
  BY StepRefines
<1>4. CASE UNCHANGED LossyCalls!vars
  BY <1>4 DEF LossyCalls!vars, ExactCalls!vars
<1>5. ASSUME NEW t \in Threads, LossyCalls!Enter(t)
      PROVE  ExactCalls!Enter(t)
  BY <1>1, <1>5 DEF LossyCalls!Enter, ExactCalls!Enter
<1>6. ASSUME NEW t \in Threads, LossyCalls!Leave(t)
      PROVE  ExactCalls!Leave(t)
  BY <1>6 DEF LossyCalls!Leave, ExactCalls!Leave, LossyCalls!Close, ExactCalls!Close,
              LossyCalls!Innermost, ExactCalls!Innermost
<1>7. ASSUME NEW t \in Threads
      PROVE  ~LossyCalls!Excuse(t) /\ ~LossyCalls!Lose(t)
  BY <1>1 DEF LossyCalls!Excuse, LossyCalls!Lose
<1>8. ASSUME NEW t \in Threads, LossyCalls!Show(t)
      PROVE  ExactCalls!Show(t)
  <2>1. PICK w \in Waiting :
          /\ w.tid = t
          /\ \A v \in Waiting : v.tid = t => w.ticket <= v.ticket
          /\ Waiting' = Waiting \ {w}
          /\ IF t \in WatchTids
               THEN \E c \in LossyCalls!Entries(w.call) :
                      reports' = reports \cup {[tid |-> t, call |-> w.call, entry |-> c]}
               ELSE reports' = reports
          /\ UNCHANGED <<ncalls, rets, skewed, stray>>
    BY <1>8 DEF LossyCalls!Show
  <2>2. CASE t \in WatchTids
    <3>1. PICK c : reports' = reports \cup {[tid |-> t, call |-> w.call, entry |-> c]}
      BY <2>1, <2>2
    <3>2. c = w.call
      <4>1. [tid |-> t, call |-> w.call, entry |-> c] \in reports'
        BY <3>1
      <4>2. [tid |-> t, call |-> w.call, entry |-> c].entry = [tid |-> t, call |-> w.call, entry |-> c].call
        BY <1>2, <4>1
      <4>3. QED
        BY <4>2
    <3>3. c \in ExactCalls!Entries(w.call)
      BY <1>1, <3>2 DEF ExactCalls!Entries
    <3>4. QED
      BY <2>1, <2>2, <3>1, <3>3 DEF ExactCalls!Show
  <2>3. CASE t \notin WatchTids
    BY <2>1, <2>3 DEF ExactCalls!Show
  <2>4. QED
    BY <2>2, <2>3
<1>9. QED
  BY <1>3, <1>4, <1>5, <1>6, <1>7, <1>8 DEF LossyCalls!Next, ExactCalls!Next

(* Such a trace implements the exact CallTrace: the returns of each thread *)
(* are shown in their order, each once and each with its own entry, and    *)
(* none is lost.                                                           *)
THEOREM QuietTraceRefines == Spec /\ []Quiet => ExactTrace
<1>1. Init => ExactCalls!Init
  <2>1. Init => LossyCalls!Init
    BY InitRefines
  <2>2. QED
    BY <2>1 DEF LossyCalls!Init, ExactCalls!Init
<1>2. IInv /\ IInv' /\ EveryReturnPaired' /\ QuietInv /\ QuietInv' /\ [Next]_vars => [ExactCalls!Next]_ExactCalls!vars
  BY QuietStepRefines
<1>3. QED
  BY <1>1, <1>2, Invariant, QuietInvariant, QuietTracePairs, PTL DEF Spec, ExactTrace, ExactCalls!Spec
=============================================================================
