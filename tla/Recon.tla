------------------------------- MODULE Recon -------------------------------
(***************************************************************************)
(* The kernel side of a jniprobe trace: the threads of the traced process  *)
(* calling JNI functions, the uprobe program up_all and the uretprobe      *)
(* program up_ret of bpf/recon.bpf.c, the ring buffer `events' and the     *)
(* hash map `depth' that they share, and the loop of loader/trace.go that  *)
(* attaches the probes one by one while the target is already running.     *)
(*                                                                         *)
(* A BPF program is two steps: bpf_ringbuf_reserve, and everything up to   *)
(* bpf_ringbuf_submit.  Between the two the record is busy, other threads  *)
(* may reserve behind it, and the consumer cannot pass it.                 *)
(*                                                                         *)
(* A call is identified by a number (its entry timestamp e->ts).  The      *)
(* field `call' of a return record and the variables skewed and stray are  *)
(* ghosts: the program has none of them, and no guard reads them.          *)
(***************************************************************************)
EXTENDS Integers, Sequences, FiniteSets

CONSTANTS
  Threads,       \* the tids of the target
  Offsets,       \* the file offsets that get a uprobe: the keys of `offsets'
  Tracked,       \* those put into the map hasret: they also get a uretprobe
  RingCap,       \* how many records the ring buffer holds
  DepthCap,      \* max_entries of the map depth
  UretCap,       \* the kernel's limit on pending return probes of a thread
  AttachErrors,  \* whether attaching a probe may fail
  TargetWaits,   \* whether the target calls nothing until attaching is over
  MaxCalls       \* bound of the model: how many JNI calls are made

ASSUME ReconAssumption ==
  /\ Tracked \subseteq Offsets
  /\ RingCap \in Nat \ {0} /\ DepthCap \in Nat /\ UretCap \in Nat
  /\ AttachErrors \in BOOLEAN /\ TargetWaits \in BOOLEAN
  /\ MaxCalls \in Nat

VARIABLES
  todoUp,  \* offsets the first attach loop has not reached yet
  todoRet, \* offsets the second attach loop has not reached yet
  up,      \* offsets with a uprobe
  ret,     \* offsets with a uretprobe
  rets,    \* per thread, its calls whose return is armed, innermost last
  ring,    \* the records at positions cons .. prod-1
  prod,    \* producer position
  cons,    \* consumer position
  busy,    \* per thread, the position it has reserved, or NoPos
  mapped,  \* the keys of the map depth
  depth,   \* its values, and 0 where there is no key
  ncalls,  \* number of calls made so far
  skewed,  \* ghost: threads that had a call pushed and not popped, or reversed
  stray    \* ghost: calls that returned on a skewed thread

attachVars == <<todoUp, todoRet, up, ret>>
ringVars   == <<ring, prod, cons, busy>>
depthVars  == <<mapped, depth>>
ghostVars  == <<skewed, stray>>
reconVars  == <<attachVars, rets, ringVars, depthVars, ncalls, ghostVars>>

NoPos   == -1
NoDepth == -1
NoCall  == 0

Calls == 1..MaxCalls

(* struct evt_t, less the arguments: `state' is the busy bit of the header *)
(* of the record, which bpf_ringbuf_submit clears.                         *)
Record ==
  [kind: {"entry", "return"}, tid: Threads, call: Calls, off: Offsets \cup {"none"},
   depth: Nat \cup {NoDepth}, state: {"busy", "ready"}]

ReconTypeOK ==
  /\ todoUp \subseteq Offsets /\ todoRet \subseteq Tracked
  /\ up \subseteq Offsets /\ ret \subseteq Tracked
  /\ rets \in [Threads -> Seq(Calls)]
  /\ cons \in Nat /\ prod \in Nat /\ cons <= prod /\ prod - cons <= RingCap
  /\ ring \in [cons..(prod - 1) -> Record]
  /\ busy \in [Threads -> {NoPos} \cup cons..(prod - 1)]
  /\ mapped \subseteq Threads
  /\ depth \in [Threads -> Nat]
  /\ ncalls \in 0..MaxCalls
  /\ skewed \subseteq Threads /\ stray \subseteq Calls

ReconInit ==
  /\ todoUp = Offsets /\ todoRet = Tracked
  /\ up = {} /\ ret = {}
  /\ rets = [t \in Threads |-> << >>]
  /\ ring = [p \in 0..NoPos |-> NoPos] /\ prod = 0 /\ cons = 0
  /\ busy = [t \in Threads |-> NoPos]
  /\ mapped = {} /\ depth = [t \in Threads |-> 0]
  /\ ncalls = 0
  /\ skewed = {} /\ stray = {}

-----------------------------------------------------------------------------
(* Attaching: first every uprobe, in the random order of a Go map, then    *)
(* every uretprobe.  An error of either call is dropped and the loop goes  *)
(* on; the entry of the offset in hasret stays.                            *)

Attached == todoUp = {} /\ todoRet = {}

AttachUprobe(off) ==
  /\ off \in todoUp
  /\ todoUp' = todoUp \ {off}
  /\ \/ up' = up \cup {off}
     \/ AttachErrors /\ up' = up
  /\ UNCHANGED <<todoRet, ret, rets, ringVars, depthVars, ncalls, ghostVars>>

AttachUretprobe(off) ==
  /\ todoUp = {}
  /\ off \in todoRet
  /\ todoRet' = todoRet \ {off}
  /\ \/ ret' = ret \cup {off}
     \/ AttachErrors /\ ret' = ret
  /\ UNCHANGED <<todoUp, up, rets, ringVars, depthVars, ncalls, ghostVars>>

-----------------------------------------------------------------------------
(* The ring buffer.  A reservation fails when the buffer is full; records  *)
(* keep the order of their reservations.                                   *)

(* A mutant: room for one record too many.                                 *)
RingFullLate == prod - cons > RingCap

RingFull == prod - cons >= RingCap

Reserve(t, r) ==
  /\ ~RingFull
  /\ ring' = [p \in cons..prod |-> IF p = prod THEN r ELSE ring[p]]
  /\ prod' = prod + 1
  /\ busy' = [busy EXCEPT ![t] = prod]
  /\ cons' = cons

Submit(t, d) ==
  /\ ring' = [ring EXCEPT ![busy[t]] = [@ EXCEPT !.depth = d, !.state = "ready"]]
  /\ busy' = [busy EXCEPT ![t] = NoPos]
  /\ UNCHANGED <<prod, cons>>

(* bpf_map_update_elem(&depth, &tid, &nd, BPF_ANY): a new key does not fit *)
(* into a full map, and the result of the call is not looked at.           *)
DepthFull == Cardinality(mapped) >= DepthCap

UpdateDepth(t, nd) ==
  IF t \in mapped \/ ~DepthFull
    THEN /\ mapped' = mapped \cup {t}
         /\ depth' = [depth EXCEPT ![t] = nd]
    ELSE UNCHANGED depthVars

-----------------------------------------------------------------------------
(* A thread calls the function at off.  The kernel decides in the entry    *)
(* breakpoint whether the call will also fire the uretprobe.               *)

Idle(t) == busy[t] = NoPos

Armed(t, off) == off \in ret /\ Len(rets[t]) < UretCap

NewCall(t, off) ==
  /\ Idle(t)
  /\ ncalls < MaxCalls
  /\ TargetWaits => Attached
  /\ ncalls' = ncalls + 1
  /\ rets' = IF Armed(t, off) THEN [rets EXCEPT ![t] = Append(@, ncalls + 1)] ELSE rets

(* up_all up to a successful bpf_ringbuf_reserve.  The depth will be       *)
(* pushed if the offset is tracked and popped if the return is armed.      *)
up_all_reserve(t, off) ==
  /\ off \in up
  /\ NewCall(t, off)
  /\ Reserve(t, [kind |-> "entry", tid |-> t, call |-> ncalls + 1, off |-> off,
                 depth |-> NoDepth, state |-> "busy"])
  /\ skewed' = IF off \in Tracked <=> Armed(t, off) THEN skewed ELSE skewed \cup {t}
  /\ UNCHANGED <<attachVars, depthVars, stray>>

(* up_all when the ring buffer is full: `if (!e) return 0', before the     *)
(* depth is touched.                                                       *)
up_all_full(t, off) ==
  /\ off \in up
  /\ RingFull
  /\ NewCall(t, off)
  /\ skewed' = IF Armed(t, off) THEN skewed \cup {t} ELSE skewed
  /\ UNCHANGED <<attachVars, ringVars, depthVars, stray>>

(* A call of a function whose uprobe is missing and whose uretprobe is not.*)
UnprobedCall(t, off) ==
  /\ off \notin up
  /\ Armed(t, off)
  /\ NewCall(t, off)
  /\ skewed' = skewed \cup {t}
  /\ UNCHANGED <<attachVars, ringVars, depthVars, stray>>

(* Mutants of up_all_submit: the entry carries the depth after the push    *)
(* (`e->depth = nd'); the test of hasret is missing; a function that is    *)
(* not tracked returns before bpf_ringbuf_submit.                          *)
up_all_after_push(t) ==
  /\ ~Idle(t)
  /\ ring[busy[t]].kind = "entry"
  /\ IF ring[busy[t]].off \in Tracked
       THEN UpdateDepth(t, depth[t] + 1) /\ Submit(t, depth[t] + 1)
       ELSE UNCHANGED depthVars /\ Submit(t, NoDepth)
  /\ UNCHANGED <<attachVars, rets, ncalls, ghostVars>>

up_all_push_all(t) ==
  /\ ~Idle(t)
  /\ ring[busy[t]].kind = "entry"
  /\ UpdateDepth(t, depth[t] + 1) /\ Submit(t, depth[t])
  /\ UNCHANGED <<attachVars, rets, ncalls, ghostVars>>

up_all_no_submit(t) ==
  /\ ~Idle(t)
  /\ ring[busy[t]].kind = "entry"
  /\ ring[busy[t]].off \in Tracked
  /\ UpdateDepth(t, depth[t] + 1) /\ Submit(t, depth[t])
  /\ UNCHANGED <<attachVars, rets, ncalls, ghostVars>>

(* The rest of up_all: push a tracked call, and submit.                    *)
up_all_submit(t) ==
  /\ ~Idle(t)
  /\ ring[busy[t]].kind = "entry"
  /\ IF ring[busy[t]].off \in Tracked
       THEN UpdateDepth(t, depth[t] + 1) /\ Submit(t, depth[t])
       ELSE UNCHANGED depthVars /\ Submit(t, NoDepth)
  /\ UNCHANGED <<attachVars, rets, ncalls, ghostVars>>

(* The innermost armed call of t returns: up_ret up to a successful        *)
(* reservation.  The ip of a return is the return address, so the record   *)
(* does not say which function returned.                                   *)
up_ret_reserve(t) ==
  /\ Idle(t)
  /\ rets[t] # << >>
  /\ Reserve(t, [kind |-> "return", tid |-> t, call |-> rets[t][Len(rets[t])],
                 off |-> "none", depth |-> NoDepth, state |-> "busy"])
  /\ stray' = IF t \in skewed THEN stray \cup {rets[t][Len(rets[t])]} ELSE stray
  /\ UNCHANGED <<attachVars, rets, depthVars, ncalls, skewed>>

Pop(t) == rets' = [rets EXCEPT ![t] = SubSeq(@, 1, Len(@) - 1)]

(* up_ret when the ring buffer is full: the frame is never popped.         *)
up_ret_full(t) ==
  /\ Idle(t)
  /\ rets[t] # << >>
  /\ RingFull
  /\ Pop(t)
  /\ skewed' = skewed \cup {t}
  /\ UNCHANGED <<attachVars, ringVars, depthVars, ncalls, stray>>

(* A mutant: the popped depth is not written back.                         *)
up_ret_no_pop(t) ==
  LET nd == IF depth[t] > 0 THEN depth[t] - 1 ELSE 0 IN
  /\ ~Idle(t)
  /\ ring[busy[t]].kind = "return"
  /\ Submit(t, nd)
  /\ Pop(t)
  /\ UNCHANGED <<attachVars, depthVars, ncalls, ghostVars>>

(* The rest of up_ret: pop one frame off this thread's depth, not below 0. *)
up_ret_submit(t) ==
  LET nd == IF depth[t] > 0 THEN depth[t] - 1 ELSE 0 IN
  /\ ~Idle(t)
  /\ ring[busy[t]].kind = "return"
  /\ UpdateDepth(t, nd)
  /\ Submit(t, nd)
  /\ Pop(t)
  /\ UNCHANGED <<attachVars, ncalls, ghostVars>>

Attach == \E off \in Offsets : AttachUprobe(off) \/ AttachUretprobe(off)

Handler(t) == up_all_submit(t) \/ up_ret_submit(t)

Call(t, off) == up_all_reserve(t, off) \/ up_all_full(t, off) \/ UnprobedCall(t, off)

Return(t) == up_ret_reserve(t) \/ up_ret_full(t)

ReconNext ==
  \/ Attach
  \/ \E t \in Threads : Handler(t) \/ Return(t) \/ \E off \in Offsets : Call(t, off)

-----------------------------------------------------------------------------
(* The record at the consumer position, once its producer submitted it.    *)
HeadReady == cons < prod /\ ring[cons].state = "ready"

ConsumeHead ==
  /\ cons' = cons + 1
  /\ ring' = [p \in (cons + 1)..(prod - 1) |-> ring[p]]
  /\ UNCHANGED <<prod, busy>>
=============================================================================
