----------------------------- MODULE PairingInv -----------------------------
(***************************************************************************)
(* The inductive invariant behind the pairing properties of Pairing.       *)
(*                                                                         *)
(* The loop lags behind the probes, so the frame a return will be joined   *)
(* with depends on what is still in the ring buffer.  HoldsBefore says     *)
(* which call the loop will have under a key by the time it reads position *)
(* p, without running the loop: the entry last written under the key       *)
(* before p, or what frames has now if the ring buffer has no record of it.*)
(***************************************************************************)
EXTENDS Pairing

HasKey(e, t, d) == e.tid = t /\ e.depth = d

(* Of the records rg[lo], rg[lo+1], ... and the frames fr, both arguments, *)
(* so that a step can be discussed in both of its states.                  *)
Holds(rg, lo, fr, p, t, d, c) ==
  \/ \E q \in lo..(p - 1) :
       /\ HasKey(rg[q], t, d) /\ rg[q].kind = "entry" /\ rg[q].call = c
       /\ \A r \in (q + 1)..(p - 1) : ~HasKey(rg[r], t, d)
  \/ /\ \A q \in lo..(p - 1) : ~HasKey(rg[q], t, d)
     /\ <<t, d>> \in DOMAIN fr
     /\ fr[<<t, d>>] = c

HoldsBefore(p, t, d, c) == Holds(ring, cons, frames, p, t, d, c)

(* t is inside up_all for a tracked function: its call is in rets, and not *)
(* yet in the depth.                                                       *)
Pending(t) ==
  /\ busy[t] # NoPos
  /\ ring[busy[t]].kind = "entry"
  /\ ring[busy[t]].off \in Tracked

Pushed(t) == IF Pending(t) THEN Len(rets[t]) - 1 ELSE Len(rets[t])

(* A thread has one reserved record at most, behind all its other records. *)
RingInv ==
  /\ \A p \in cons..(prod - 1) :
       /\ ring[p].state = "busy" => busy[ring[p].tid] = p /\ ring[p].depth = NoDepth
       /\ ring[p].state = "ready" /\ ring[p].kind = "entry" /\ ring[p].depth # NoDepth
            => ring[p].off \in Tracked
       /\ ring[p].state = "ready" /\ ring[p].kind = "return" => ring[p].depth # NoDepth
  /\ \A t \in Threads : busy[t] # NoPos =>
       /\ ring[busy[t]].tid = t
       /\ ring[busy[t]].state = "busy"
       /\ \A p \in cons..(prod - 1) : ring[p].tid = t => p <= busy[t]

(* The record a thread is about to submit is about its innermost call.     *)
BusyInv ==
  \A t \in Threads : busy[t] # NoPos =>
    /\ ring[busy[t]].kind = "return" =>
         /\ t \in skewed => ring[busy[t]].call \in stray
         /\ rets[t] # << >>
         /\ ring[busy[t]].call = rets[t][Len(rets[t])]
    /\ Pending(t) /\ t \notin skewed =>
         /\ rets[t] # << >>
         /\ ring[busy[t]].call = rets[t][Len(rets[t])]

DepthInv ==
  \A t \in Threads :
    /\ t \notin mapped => depth[t] = 0
    /\ t \notin skewed /\ t \in mapped => depth[t] = Pushed(t)
    /\ t \notin skewed /\ t \notin mapped => DepthFull \/ Pushed(t) = 0

(* Each open call of a balanced thread will be found under its own depth.  *)
OpenInv ==
  \A t \in WatchTids : t \notin skewed /\ t \in mapped =>
    \A i \in 1..Pushed(t) : HoldsBefore(prod, t, i - 1, rets[t][i])

(* A thread with no key in the map writes everything under depth 0: what   *)
(* is found there is the innermost call, or about to be overwritten.       *)
UnmappedInv ==
  \A t \in WatchTids : t \notin skewed /\ t \notin mapped /\ ~Pending(t) =>
    \A c \in Calls : HoldsBefore(prod, t, 0, c) =>
      rets[t] # << >> /\ c = rets[t][Len(rets[t])]

(* Each return in the ring buffer will find its own call, or nothing.      *)
ReturnInv ==
  \A p \in cons..(prod - 1) :
    LET e == ring[p] IN
    e.state = "ready" /\ e.kind = "return" /\ e.call \notin stray /\ e.tid \in WatchTids =>
      /\ e.tid \in mapped => HoldsBefore(p, e.tid, e.depth, e.call)
      /\ e.tid \notin mapped => DepthFull
      /\ \A c \in Calls : HoldsBefore(p, e.tid, e.depth, c) => c = e.call

ReportInv ==
  \A r \in reports : r.call \notin stray =>
    /\ r.tid \in mapped => r.entry = r.call
    /\ r.tid \notin mapped => DepthFull
    /\ r.entry \in {r.call, NoCall}

(* The pairing of a balanced thread, as an inductive invariant: what the   *)
(* ring buffer, the depth map and the frames say together about the calls  *)
(* that are open in the target.                                            *)
IInv ==
  /\ TypeOK
  /\ RingInv
  /\ BusyInv
  /\ DepthInv
  /\ OpenInv
  /\ UnmappedInv
  /\ ReturnInv
  /\ ReportInv
=============================================================================
