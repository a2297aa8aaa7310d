------------------------------ MODULE ModCache ------------------------------
(***************************************************************************)
(* The module map of a trace (modCache in loader/trace.go): a snapshot of  *)
(* /proc/<pid>/maps behind a mutex, with which the event loop names the    *)
(* library a call came from (of, for --from) and the frames of its stack   *)
(* (lookup).  A goroutine reloads it every two seconds; `of' reloads it    *)
(* itself when it does not find an address and the snapshot is older than  *)
(* 300 ms.  The goroutine reads the maps before it takes the lock and `of' *)
(* while it holds it, so either may come between two steps of the other.   *)
(*                                                                         *)
(* The maps change whenever the target loads or unloads a library, and     *)
(* cannot be read any more once it has exited.  hist has all the contents  *)
(* they ever had, and a snapshot is the number of one of them.  since,     *)
(* round and the numbers in an answer or a frame are ghosts.               *)
(***************************************************************************)
EXTENDS Integers, Sequences

CONSTANTS
  Addrs,      \* addresses that calls come from
  Libs,       \* libraries
  StartMaps,  \* what the target has loaded when the trace starts
  MaxChanges, \* bound on the changes of the maps
  MaxEvents   \* bound on the events

NoModule == "none"  \* the empty name

Maps == [Addrs -> Libs \cup {NoModule}]  \* the module of each address

ASSUME ModAssumption ==
  /\ NoModule \notin Libs
  /\ StartMaps \in Maps
  /\ MaxChanges \in Nat /\ MaxEvents \in Nat

VARIABLES
  hist,    \* the contents of the maps, the present one last
  ranges,  \* the snapshot in the cache, a number of hist
  bias,    \* the snapshot of the load addresses, stored next
  fresh,   \* whether the snapshot was stored within the last 300 ms
  lock,    \* who holds mu: "none", "reload" or "of"
  gpc,     \* the goroutine: "sleep", "load", "lock", "ranges", "bias"
  gver,    \* the snapshot it has read
  pc,      \* the event loop: "idle", "find", "retry", "load", "ranges", "bias", "name", "line", "stack"
  addr,    \* the address the loop asks for
  over,    \* the snapshot that `of' has read
  answer,  \* what `of' said for the last event, << >> before
  frame,   \* the last frame of a stack, << >> before
  nevents,
  since,   \* the present snapshot's number in hist when `of' began to reload
  round    \* that of the last reload by the goroutine that is over

goVars   == <<gpc, gver, round>>
cacheVars == <<ranges, bias, fresh>>
loopVars == <<pc, addr, over, answer, frame, nevents, since>>
vars     == <<hist, cacheVars, lock, goVars, loopVars>>

Now == Len(hist)

moduleOf(v, a) == hist[v][a]

None == << >>

Answers ==
  [name: Libs \cup {NoModule}, from: 1..(MaxChanges + 1), reloaded: BOOLEAN, since: 1..(MaxChanges + 1)]
Frames  == [name: Libs, from: 1..(MaxChanges + 1), bias: 1..(MaxChanges + 1)]

(* The snapshots are contents the maps had, and the states of the two      *)
(* goroutines are those of their code.                                     *)
TypeOK ==
  /\ hist \in Seq(Maps) /\ Now \in 1..(MaxChanges + 1)
  /\ ranges \in 1..Now /\ bias \in 1..Now /\ fresh \in BOOLEAN
  /\ lock \in {"none", "reload", "of"}
  /\ gpc \in {"sleep", "load", "lock", "ranges", "bias"} /\ gver \in 1..Now
  /\ pc \in {"idle", "find", "retry", "load", "ranges", "bias", "name", "line", "stack"}
  /\ addr \in Addrs /\ over \in 1..Now
  /\ answer \in Answers \cup {None} /\ frame \in Frames \cup {None}
  /\ nevents \in 0..MaxEvents
  /\ since \in 1..Now /\ round \in 1..Now

(* mc.reload(pid) runs once before the goroutine is started.               *)
Init ==
  /\ hist = <<StartMaps>>
  /\ ranges = 1 /\ bias = 1 /\ fresh = TRUE
  /\ lock = "none"
  /\ gpc = "sleep" /\ gver = 1 /\ round = 1
  /\ pc = "idle" /\ addr \in Addrs /\ over = 1 /\ answer = None /\ frame = None
  /\ nevents = 0 /\ since = 1

-----------------------------------------------------------------------------
(* The target: dlopen and dlclose, and its end, after which loadModules    *)
(* returns nothing.                                                        *)
Gone == [a \in Addrs |-> NoModule]

Change(a, x) ==
  /\ Now <= MaxChanges
  /\ x # hist[Now][a]
  /\ hist' = Append(hist, [hist[Now] EXCEPT ![a] = x])
  /\ UNCHANGED <<cacheVars, lock, goVars, loopVars>>

Exit ==
  /\ Now <= MaxChanges
  /\ hist[Now] # Gone
  /\ hist' = Append(hist, Gone)
  /\ UNCHANGED <<cacheVars, lock, goVars, loopVars>>

(* 300 ms pass.                                                            *)
Age ==
  /\ fresh
  /\ fresh' = FALSE
  /\ UNCHANGED <<hist, ranges, bias, lock, goVars, loopVars>>

-----------------------------------------------------------------------------
(* The mutex; a critical section that is one step only asks whether it is  *)
(* free.                                                                   *)
Free      == lock = "none"
Lock(who) == Free /\ lock' = who
Unlock    == lock' = "none"

-----------------------------------------------------------------------------
(* The goroutine: sleep, then reload.                                      *)
Wake ==
  /\ gpc = "sleep" /\ gpc' = "load"
  /\ UNCHANGED <<hist, cacheVars, lock, gver, round, loopVars>>

(* A mutant: the maps are only read if nothing was found before.           *)
ReloadReadOnce ==
  /\ gpc = "load" /\ gpc' = "lock"
  /\ gver' = IF \E a \in Addrs : moduleOf(ranges, a) # NoModule THEN ranges ELSE Now
  /\ UNCHANGED <<hist, cacheVars, lock, round, loopVars>>

(* loadModules, without the lock.                                          *)
ReloadRead ==
  /\ gpc = "load" /\ gpc' = "lock"
  /\ gver' = Now
  /\ UNCHANGED <<hist, cacheVars, lock, round, loopVars>>

ReloadLock ==
  /\ gpc = "lock" /\ gpc' = "ranges"
  /\ Lock("reload")
  /\ UNCHANGED <<hist, cacheVars, gver, round, loopVars>>

ReloadRanges ==
  /\ gpc = "ranges" /\ gpc' = "bias"
  /\ ranges' = gver
  /\ UNCHANGED <<hist, bias, fresh, lock, gver, round, loopVars>>

ReloadBias ==
  /\ gpc = "bias" /\ gpc' = "sleep"
  /\ bias' = gver /\ fresh' = TRUE
  /\ Unlock
  /\ round' = gver
  /\ UNCHANGED <<hist, ranges, gver, loopVars>>

Reload == Wake \/ ReloadRead \/ ReloadLock \/ ReloadRanges \/ ReloadBias

-----------------------------------------------------------------------------
(* The event loop asks for the module of the caller: mc.of(e.Caller).      *)
Event(a) ==
  /\ pc = "idle" /\ pc' = "find"
  /\ nevents < MaxEvents /\ nevents' = nevents + 1
  /\ addr' = a
  /\ answer' = None /\ frame' = None
  /\ UNCHANGED <<hist, cacheVars, lock, goVars, over, since>>

(* The end of `of'.  With --stack, if the record has a stack and its line  *)
(* is shown, the stack is printed next.                                    *)
Answer(v, reloaded) ==
  /\ pc' \in {"line", "stack"}
  /\ answer' = [name |-> moduleOf(v, addr), from |-> v, reloaded |-> reloaded, since |-> since]

(* The first critical section of `of': the name, and whether to reload.    *)
OfFind ==
  /\ pc = "find"
  /\ Free
  /\ IF moduleOf(ranges, addr) = NoModule /\ ~fresh
       THEN pc' = "retry" /\ UNCHANGED answer
       ELSE Answer(ranges, FALSE)
  /\ UNCHANGED <<hist, cacheVars, lock, goVars, addr, over, frame, nevents, since>>

(* A mutant: like the goroutine, `of' goes on without the lock.            *)
OfLockNot ==
  /\ pc = "retry" /\ pc' = "load"
  /\ lock' = lock
  /\ since' = Now
  /\ UNCHANGED <<hist, cacheVars, goVars, addr, over, answer, frame, nevents>>

(* The second: it reads the maps with the lock held.                       *)
OfLock ==
  /\ pc = "retry" /\ pc' = "load"
  /\ Lock("of")
  /\ since' = Now
  /\ UNCHANGED <<hist, cacheVars, goVars, addr, over, answer, frame, nevents>>

OfRead ==
  /\ pc = "load" /\ pc' = "ranges"
  /\ over' = Now
  /\ UNCHANGED <<hist, cacheVars, lock, goVars, addr, answer, frame, nevents, since>>

OfRanges ==
  /\ pc = "ranges" /\ pc' = "bias"
  /\ ranges' = over
  /\ UNCHANGED <<hist, bias, fresh, lock, goVars, addr, over, answer, frame, nevents, since>>

OfBias ==
  /\ pc = "bias" /\ pc' = "name"
  /\ bias' = over /\ fresh' = TRUE
  /\ UNCHANGED <<hist, ranges, lock, goVars, addr, over, answer, frame, nevents, since>>

(* A mutant: an early return that leaves the lock held.                    *)
OfNameLocked ==
  /\ pc = "name"
  /\ Answer(ranges, TRUE)
  /\ IF moduleOf(ranges, addr) = NoModule THEN lock' = lock ELSE Unlock
  /\ UNCHANGED <<hist, cacheVars, goVars, addr, over, frame, nevents, since>>

OfName ==
  /\ pc = "name"
  /\ Answer(ranges, TRUE)
  /\ Unlock
  /\ UNCHANGED <<hist, cacheVars, goVars, addr, over, frame, nevents, since>>

(* What lookup says of an address: its module, and where that is loaded.   *)
Frame(v, b, a) == [name |-> moduleOf(v, a), from |-> v, bias |-> b]

(* A mutant: a frame is printed as a module and an offset without the test *)
(* for an empty name.                                                      *)
LookupNoTest(a) ==
  /\ pc = "stack" /\ pc' = "idle"
  /\ Free
  /\ frame' = Frame(ranges, bias, a)
  /\ UNCHANGED <<hist, cacheVars, lock, goVars, addr, over, answer, nevents, since>>

(* A frame of the stack: lookup, a critical section of its own, and what   *)
(* is printed, a module and an offset, or the address alone.               *)
Lookup(a) ==
  /\ pc = "stack" /\ pc' = "idle"
  /\ Free
  /\ frame' = IF moduleOf(ranges, a) = NoModule THEN None ELSE Frame(ranges, bias, a)
  /\ UNCHANGED <<hist, cacheVars, lock, goVars, addr, over, answer, nevents, since>>

NoStack ==
  /\ pc = "line" /\ pc' = "idle"
  /\ UNCHANGED <<hist, cacheVars, lock, goVars, addr, over, answer, frame, nevents, since>>

Of == OfFind \/ OfLock \/ OfRead \/ OfRanges \/ OfBias \/ OfName

PrintStack == NoStack \/ \E a \in Addrs : Lookup(a)

Next ==
  \/ \E a \in Addrs, x \in Libs \cup {NoModule} : Change(a, x)
  \/ Exit \/ Age
  \/ Reload
  \/ \E a \in Addrs : Event(a)
  \/ Of \/ PrintStack

Spec == Init /\ [][Next]_vars

(* The goroutine and the loop wait for nothing but the lock, and Go's      *)
(* mutex lets no goroutine wait for it for ever; the sleep ends.           *)
Fairness ==
  /\ WF_vars(Wake \/ ReloadRead \/ ReloadRanges \/ ReloadBias) /\ SF_vars(ReloadLock)
  /\ WF_vars(OfRead \/ OfRanges \/ OfBias \/ OfName) /\ SF_vars(OfFind \/ OfLock)
  /\ WF_vars(NoStack) /\ SF_vars(\E a \in Addrs : Lookup(a))

FairSpec == Spec /\ Fairness

-----------------------------------------------------------------------------
(* The cache is never older than what the goroutine stored last: an        *)
(* address is named by the maps as they were at most one round ago,        *)
(* although `of' stores snapshots too, at any time.                        *)
NotOlderThanReload == ranges >= round

(* A miss of a snapshot older than 300 ms, which is the only kind that     *)
(* makes `of' reload, is answered by the maps as they were when it began   *)
(* to, or later: a library that was there by then is found, even if the    *)
(* goroutine is about to store an older snapshot.  A miss of a younger     *)
(* snapshot is final, and nothing is said of it.                           *)
MissIsNamedNow == answer # None => (answer.reloaded => answer.from >= answer.since)

(* A frame of a stack is shown as library and offset by the ranges and the *)
(* load addresses of one snapshot, though they are stored one by one.      *)
FrameOfOneSnapshot == frame # None => frame.from = frame.bias

(* When the target loads nothing any more, the cache becomes what the maps *)
(* are and stays so, though an older snapshot may still replace it once.   *)
CatchesUp == <>[](ranges = Now)

(* Every event gets its answer and the frames of its stack: the lock is    *)
(* always given back.                                                      *)
EventsAnswered == pc = "find" ~> pc = "idle"
=============================================================================
