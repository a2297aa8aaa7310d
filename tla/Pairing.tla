------------------------------ MODULE Pairing ------------------------------
(***************************************************************************)
(* A whole trace: the probes of Recon and the event loop of runProbe       *)
(* (loader/trace.go), which keeps the open calls in the Go map `frames',   *)
(* keyed by (tid, depth), and joins a return record with the frame under   *)
(* the same key (handleReturn).  What the loop prints and caches is left   *)
(* out here: a report says which call returned and which call the loader   *)
(* took it for.                                                            *)
(***************************************************************************)
EXTENDS Recon

CONSTANT WatchTids  \* the threads --tid lets through: all of them without the flag

ASSUME WatchAssumption == WatchTids \subseteq Threads

VARIABLES
  reader,   \* the ring buffer reader: "off", "open" or "closed"
  frames,   \* (tid, depth) -> call, for the calls seen entering
  reports   \* the return records handled so far

loopVars == <<reader, frames, reports>>
vars     == <<reconVars, loopVars>>

(* `entry' is the call of the frame that was found, NoCall if none was.    *)
Report == [tid: Threads, call: Calls, entry: Calls \cup {NoCall}]

(* Every record and map of the trace keeps its type, and the ring buffer   *)
(* never holds more than RingCap records.                                  *)
TypeOK ==
  /\ ReconTypeOK
  /\ reader \in {"off", "open", "closed"}
  /\ DOMAIN frames \subseteq Threads \X Nat
  /\ \A k \in DOMAIN frames : frames[k] \in Calls
  /\ reports \subseteq Report

Init ==
  /\ ReconInit
  /\ reader = "off"
  /\ frames = [k \in {} |-> NoCall]
  /\ reports = {}

(* The reader is created once all the probes are attached; until then the  *)
(* records pile up.                                                        *)
OpenReader ==
  /\ reader = "off"
  /\ Attached
  /\ reader' = "open"
  /\ UNCHANGED <<reconVars, frames, reports>>

(* A signal, or the timer of --run, closes it; the loop then ends and what *)
(* is left in the ring buffer is not read.                                 *)
CloseReader ==
  /\ reader = "open"
  /\ reader' = "closed"
  /\ UNCHANGED <<reconVars, frames, reports>>

Put(f, k, v) == [x \in DOMAIN f \cup {k} |-> IF x = k THEN v ELSE f[x]]

(* A mutant: the frame is found and stays.                                 *)
DeleteNothing(f, k) == f

Delete(f, k) == [x \in DOMAIN f \ {k} |-> f[x]]

Event    == ring[cons]
EventKey == <<Event.tid, Event.depth>>

(* The head of an iteration of the loop: rd.Read.                          *)
ReadRecord ==
  /\ reader = "open"
  /\ HeadReady
  /\ ConsumeHead
  /\ UNCHANGED <<attachVars, rets, depthVars, ncalls, ghostVars, reader>>

(* A record of a thread that --tid filters out.                            *)
SkipRecord ==
  /\ ReadRecord
  /\ Event.tid \notin WatchTids
  /\ UNCHANGED <<frames, reports>>

(* A mutant: depth 0 is taken for "not tracked".                           *)
HandleEntryAbove0 ==
  /\ ReadRecord
  /\ Event.tid \in WatchTids
  /\ Event.kind = "entry"
  /\ frames' = IF Event.off \in Tracked /\ Event.depth > 0
                 THEN Put(frames, EventKey, Event.call) ELSE frames
  /\ UNCHANGED reports

(* An entry opens a frame, over any frame left under its key, when its     *)
(* function is tracked.                                                    *)
HandleEntry ==
  /\ ReadRecord
  /\ Event.tid \in WatchTids
  /\ Event.kind = "entry"
  /\ frames' = IF Event.off \in Tracked /\ Event.depth >= 0
                 THEN Put(frames, EventKey, Event.call) ELSE frames
  /\ UNCHANGED reports

(* A return closes the frame under its key, or is dropped if there is none.*)
handleReturn ==
  LET found == EventKey \in DOMAIN frames IN
  /\ ReadRecord
  /\ Event.tid \in WatchTids
  /\ Event.kind = "return"
  /\ frames' = Delete(frames, EventKey)
  /\ reports' = reports \cup {[tid |-> Event.tid, call |-> Event.call,
                               entry |-> IF found THEN frames[EventKey] ELSE NoCall]}

Loop == SkipRecord \/ HandleEntry \/ handleReturn

Next ==
  \/ ReconNext /\ UNCHANGED loopVars
  \/ OpenReader
  \/ CloseReader
  \/ Loop

Spec == Init /\ [][Next]_vars

(* The attach loop and the event loop are straight-line code that waits    *)
(* for nothing but the ring buffer, and the verifier lets no BPF program   *)
(* load that might not end.  The target owes nothing.                      *)
Fairness ==
  /\ WF_vars(Attach /\ UNCHANGED loopVars)
  /\ WF_vars(OpenReader)
  /\ WF_vars(Loop)
  /\ \A t \in Threads : WF_vars(Handler(t) /\ UNCHANGED loopVars)

FairSpec == Spec /\ Fairness

-----------------------------------------------------------------------------
(* A return is joined with its own entry, or with none, unless an earlier  *)
(* call of its thread unbalanced the depth (stray).  This is what `paired   *)
(* by (tid, depth)' is worth: it holds whatever the other threads lose, in *)
(* a full depth map as well, and for records that are read long after.     *)
NeverMispaired ==
  \A r \in reports : r.call \notin stray => r.entry \in {r.call, NoCall}

(* If the thread also got its entry in the depth map, the frame is always  *)
(* found: no return of it is dropped.                                      *)
PairedWhenMapped ==
  \A r \in reports : r.call \notin stray /\ r.tid \in mapped => r.entry = r.call

(* No frame is ever used for two returns, whatever was lost: handleReturn  *)
(* deletes the frame it finds, and a call enters once.                     *)
FrameUsedOnce ==
  \A r, s \in reports : r.entry = s.entry /\ r.entry # NoCall => r = s

(* recon.bpf.c says `depth = count of active tracked frames on the         *)
(* thread'.  For a balanced thread with a key in the map, between two      *)
(* probes, the value is the number of calls it has open.                   *)
DepthCountsFrames ==
  \A t \in Threads : Idle(t) /\ t \notin skewed /\ t \in mapped => depth[t] = Len(rets[t])

(* recon.bpf.c goes on: `so nested calls pair'.  Read without exceptions,  *)
(* no return is ever joined with the entry of another call ...             *)
NestedCallsPair ==
  \A r \in reports : r.entry \in {r.call, NoCall}

(* ... and none is dropped.                                                *)
EveryReturnPaired ==
  \A r \in reports : r.entry = r.call

(* Every record is read, or the trace is stopped: a reserved record never  *)
(* stays busy, so the reader never waits behind it for good.               *)
EveryRecordRead ==
  \A p \in 0..(2 * MaxCalls - 1) : prod > p ~> (cons > p \/ reader = "closed")
=============================================================================
