--------------------------- MODULE ModCacheProofs ---------------------------
(***************************************************************************)
(* Proofs about ModCache, for any addresses, libraries and numbers of      *)
(* events and changes of the maps.                                         *)
(***************************************************************************)
EXTENDS ModCache, SequenceTheorems, TLAPS

(* Who holds the lock is who is between Lock and Unlock.                   *)
LockInv ==
  /\ lock = "reload" <=> gpc \in {"ranges", "bias"}
  /\ lock = "of" <=> pc \in {"load", "ranges", "bias", "name"}

(* Ranges and load addresses differ only while the lock is held.           *)
SnapshotInv ==
  /\ lock = "none" => ranges = bias
  /\ gpc = "bias" => ranges = gver
  /\ pc = "bias" => ranges = over
  /\ pc = "name" => ranges = over /\ bias = over

(* No snapshot that is about to be stored is older than the last reload by *)
(* the goroutine, and that of `of' is not older than its own beginning.    *)
OrderInv ==
  /\ gver >= round /\ ranges >= round
  /\ pc \in {"ranges", "bias", "name"} => over >= round /\ over >= since

CacheInv ==
  /\ TypeOK
  /\ LockInv
  /\ SnapshotInv
  /\ OrderInv
  /\ MissIsNamedNow
  /\ FrameOfOneSnapshot

(* A snapshot is one of the contents that the maps had.                    *)
LEMMA NowFacts ==
  ASSUME TypeOK
  PROVE  /\ hist \in Seq(Maps) /\ Now \in Nat /\ Now >= 1 /\ Now <= MaxChanges + 1
         /\ \A v \in 1..Now : v \in 1..(MaxChanges + 1) /\ hist[v] \in Maps
<1>1. hist \in Seq(Maps) /\ Now \in 1..(MaxChanges + 1)
  BY DEF TypeOK
<1>2. \A v \in 1..Now : hist[v] \in Maps
  BY <1>1, ElementOfSeq DEF Now
<1>3. QED
  BY <1>1, <1>2, ModAssumption

(* The maps of the target change to one content at a time.                 *)
LEMMA HistFacts ==
  ASSUME TypeOK, Now <= MaxChanges, NEW c \in Maps, hist' = Append(hist, c)
  PROVE  hist' \in Seq(Maps) /\ Now' = Now + 1 /\ Now' \in 1..(MaxChanges + 1)
<1>1. hist' \in Seq(Maps) /\ Len(hist') = Len(hist) + 1
  BY NowFacts, AppendProperties
<1>2. Now' = Now + 1
  BY <1>1 DEF Now
<1>3. QED
  BY <1>1, <1>2, NowFacts, ModAssumption

(* What a snapshot says about an address is the name of a library or none. *)
LEMMA ModuleType ==
  ASSUME TypeOK, NEW v \in 1..Now, NEW a \in Addrs
  PROVE  moduleOf(v, a) \in Libs \cup {NoModule}
<1>1. hist[v] \in Maps
  BY NowFacts
<1>2. QED
  BY <1>1 DEF moduleOf, Maps

LEMMA InitCache == Init => CacheInv
<1> SUFFICES ASSUME Init PROVE CacheInv
  OBVIOUS
<1>1. hist \in Seq(Maps) /\ Len(hist) = 1
  BY ModAssumption DEF Init
<1>2. TypeOK
  BY <1>1, ModAssumption DEF Init, TypeOK, Now
<1>3. QED
  BY <1>2 DEF Init, CacheInv, LockInv, SnapshotInv, OrderInv, MissIsNamedNow, FrameOfOneSnapshot, None, TypeOK

(* The steps that change neither the cache nor its readers.                *)
LEMMA TargetStep ==
  ASSUME CacheInv, NEW a \in Addrs, NEW x \in Libs \cup {NoModule}, Change(a, x) \/ Exit \/ Age
  PROVE  CacheInv'
<1> USE DEF CacheInv
<1>1. CASE Change(a, x)
  <2>1. hist[Now] \in Maps
    BY NowFacts
  <2>2. [hist[Now] EXCEPT ![a] = x] \in Maps
    BY <2>1 DEF Maps
  <2>3. hist' \in Seq(Maps) /\ Now' = Now + 1 /\ Now' \in 1..(MaxChanges + 1)
    BY <1>1, <2>2, HistFacts DEF Change
  <2>4. TypeOK'
    BY <1>1, <2>3, NowFacts DEF Change, TypeOK, cacheVars, goVars, loopVars
  <2>5. QED
    BY <1>1, <2>4 DEF Change, LockInv, SnapshotInv, OrderInv, MissIsNamedNow, FrameOfOneSnapshot, cacheVars, goVars, loopVars
<1>2. CASE Exit
  <2>1. Gone \in Maps
    BY DEF Gone, Maps
  <2>2. hist' \in Seq(Maps) /\ Now' = Now + 1 /\ Now' \in 1..(MaxChanges + 1)
    BY <1>2, <2>1, HistFacts DEF Exit
  <2>3. TypeOK'
    BY <1>2, <2>2, NowFacts DEF Exit, TypeOK, cacheVars, goVars, loopVars
  <2>4. QED
    BY <1>2, <2>3 DEF Exit, LockInv, SnapshotInv, OrderInv, MissIsNamedNow, FrameOfOneSnapshot, cacheVars, goVars, loopVars
<1>3. CASE Age
  BY <1>3 DEF Age, TypeOK, Now, LockInv, SnapshotInv, OrderInv, MissIsNamedNow, FrameOfOneSnapshot, goVars, loopVars
<1>4. QED
  BY <1>1, <1>2, <1>3

(* The goroutine may have read an old snapshot, but none older than round. *)
LEMMA ReloadStep ==
  ASSUME CacheInv, Reload
  PROVE  CacheInv'
<1> USE DEF CacheInv, LockInv, SnapshotInv, OrderInv, MissIsNamedNow, FrameOfOneSnapshot, loopVars, cacheVars
<1>1. CASE Wake
  BY <1>1 DEF Wake, TypeOK, Now
<1>2. CASE ReloadRead
  BY <1>2 DEF ReloadRead, TypeOK, Now
<1>3. CASE ReloadLock
  BY <1>3 DEF ReloadLock, TypeOK, Now, Lock, Free
<1>4. CASE ReloadRanges
  BY <1>4 DEF ReloadRanges, TypeOK, Now
<1>5. CASE ReloadBias
  BY <1>5 DEF ReloadBias, TypeOK, Now, Unlock
<1>6. QED
  BY <1>1, <1>2, <1>3, <1>4, <1>5 DEF Reload

(* An answer is about the snapshot it was looked up in.                    *)
LEMMA AnswerFacts ==
  ASSUME TypeOK, NEW v \in 1..Now, NEW b \in BOOLEAN, Answer(v, b)
  PROVE  /\ answer' \in Answers /\ pc' \in {"line", "stack"}
         /\ answer'.reloaded = b /\ answer'.from = v /\ answer'.since = since
<1>1. moduleOf(v, addr) \in Libs \cup {NoModule}
  BY ModuleType DEF TypeOK
<1>2. v \in 1..(MaxChanges + 1) /\ since \in 1..(MaxChanges + 1)
  BY NowFacts DEF TypeOK
<1>3. QED
  BY <1>1, <1>2 DEF Answer, Answers

LEMMA OfStep ==
  ASSUME CacheInv, Of
  PROVE  CacheInv'
<1> USE DEF CacheInv, LockInv, SnapshotInv, OrderInv, MissIsNamedNow, FrameOfOneSnapshot, goVars, cacheVars
<1>1. CASE OfFind
  <2>1. CASE moduleOf(ranges, addr) = NoModule /\ ~fresh
    BY <1>1, <2>1 DEF OfFind, TypeOK, Now
  <2>2. CASE ~(moduleOf(ranges, addr) = NoModule /\ ~fresh)
    <3>1. answer' \in Answers /\ answer'.reloaded = FALSE /\ pc' \in {"line", "stack"}
      BY <1>1, <2>2, AnswerFacts DEF OfFind, TypeOK
    <3>2. QED
      BY <1>1, <2>2, <3>1 DEF OfFind, TypeOK, Now
  <2>3. QED
    BY <2>1, <2>2
<1>2. CASE OfLock
  BY <1>2 DEF OfLock, TypeOK, Now, Lock, Free
<1>3. CASE OfRead
  BY <1>3 DEF OfRead, TypeOK, Now
<1>4. CASE OfRanges
  BY <1>4 DEF OfRanges, TypeOK, Now
<1>5. CASE OfBias
  BY <1>5 DEF OfBias, TypeOK, Now
<1>6. CASE OfName
  <2>1. /\ answer' \in Answers /\ answer'.from = ranges /\ answer'.since = since
        /\ pc' \in {"line", "stack"}
    BY <1>6, AnswerFacts DEF OfName, TypeOK
  <2>2. QED
    BY <1>6, <2>1 DEF OfName, TypeOK, Now, Unlock
<1>7. QED
  BY <1>1, <1>2, <1>3, <1>4, <1>5, <1>6 DEF Of

(* A frame is looked up while the lock is free, so from one snapshot.      *)
LEMMA EventStep ==
  ASSUME CacheInv, NEW a \in Addrs, Event(a) \/ NoStack \/ Lookup(a)
  PROVE  CacheInv'
<1> USE DEF CacheInv, LockInv, SnapshotInv, OrderInv, MissIsNamedNow, FrameOfOneSnapshot, goVars, cacheVars
<1>1. CASE Event(a)
  BY <1>1, ModAssumption DEF Event, TypeOK, Now
<1>2. CASE NoStack
  BY <1>2 DEF NoStack, TypeOK, Now
<1>3. CASE Lookup(a)
  <2>1. moduleOf(ranges, a) \in Libs \cup {NoModule}
    BY ModuleType DEF TypeOK
  <2>2. ranges \in 1..(MaxChanges + 1) /\ bias \in 1..(MaxChanges + 1)
    BY NowFacts DEF TypeOK
  <2>3. /\ frame' \in Frames \cup {None}
        /\ frame' # None => frame'.from = frame'.bias
    BY <1>3, <2>1, <2>2 DEF Lookup, Free, Frames, Frame
  <2>4. QED
    BY <1>3, <2>3 DEF Lookup, TypeOK, Now
<1>4. QED
  BY <1>1, <1>2, <1>3

LEMMA StepCache == CacheInv /\ [Next]_vars => CacheInv'
<1> SUFFICES ASSUME CacheInv, [Next]_vars PROVE CacheInv'
  OBVIOUS
<1>1. CASE UNCHANGED vars
  BY <1>1 DEF vars, CacheInv, TypeOK, Now, LockInv, SnapshotInv, OrderInv, MissIsNamedNow, FrameOfOneSnapshot,
              cacheVars, goVars, loopVars
<1>2. ASSUME NEW a \in Addrs, NEW x \in Libs \cup {NoModule}, Change(a, x) PROVE CacheInv'
  BY <1>2, TargetStep
<1>3. CASE Exit \/ Age
  <2>1. addr \in Addrs /\ NoModule \in Libs \cup {NoModule}
    BY DEF CacheInv, TypeOK
  <2>2. QED
    BY <1>3, <2>1, TargetStep
<1>4. CASE Reload
  BY <1>4, ReloadStep
<1>5. CASE Of
  BY <1>5, OfStep
<1>6. ASSUME NEW a \in Addrs, Event(a) PROVE CacheInv'
  BY <1>6, EventStep
<1>7. CASE PrintStack
  <2>1. addr \in Addrs
    BY DEF CacheInv, TypeOK
  <2>2. QED
    BY <1>7, <2>1, EventStep DEF PrintStack
<1>8. QED
  BY <1>1, <1>2, <1>3, <1>4, <1>5, <1>6, <1>7 DEF Next

(* The invariant of modCache: what lock, snapshots and readers have to do  *)
(* with each other at every point of reload and of.                        *)
THEOREM CacheInvariant == Spec => []CacheInv
<1>1. QED
  BY InitCache, StepCache, PTL DEF Spec

(* Every reachable state of the module cache has its types.                *)
THEOREM CacheTypeCorrect == Spec => []TypeOK
<1>1. CacheInv => TypeOK
  BY DEF CacheInv
<1>2. QED
  BY <1>1, CacheInvariant, PTL

(* However reload and of interleave, the cache is not older than what the  *)
(* goroutine stored last.                                                  *)
THEOREM CacheNotOlder == Spec => []NotOlderThanReload
<1>1. CacheInv => NotOlderThanReload
  BY DEF CacheInv, OrderInv, NotOlderThanReload
<1>2. QED
  BY <1>1, CacheInvariant, PTL

(* An address that of did not find in a snapshot older than 300 ms is      *)
(* answered from maps that were read after the miss.                       *)
THEOREM MissesNamed == Spec => []MissIsNamedNow
<1>1. CacheInv => MissIsNamedNow
  BY DEF CacheInv
<1>2. QED
  BY <1>1, CacheInvariant, PTL

(* lookup never joins the ranges of one snapshot with the load addresses   *)
(* of another.                                                             *)
THEOREM FramesConsistent == Spec => []FrameOfOneSnapshot
<1>1. CacheInv => FrameOfOneSnapshot
  BY DEF CacheInv
<1>2. QED
  BY <1>1, CacheInvariant, PTL
=============================================================================
