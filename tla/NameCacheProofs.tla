-------------------------- MODULE NameCacheProofs --------------------------
(***************************************************************************)
(* Proofs about NameCache, for any heap, any references, buffers and ids,  *)
(* any number of threads and of operations of the target.                  *)
(*                                                                         *)
(* A reference that was never given away stands for one object all its     *)
(* life, also after it was deleted and its slot cleared, when the state no *)
(* longer shows which.  The invariant therefore says that there is such a  *)
(* history h, from references to objects, with which the slots, the        *)
(* records and the caches agree.                                           *)
(***************************************************************************)
EXTENDS NameCache, SequenceTheorems, TLAPS

(* v was o, unless it was given to a second object.                        *)
Was(h, v, o) == v \in used /\ (v \notin reused => h[v] = o)

SlotInv(h) ==
  /\ h \in [Handles -> Objects \cup {None}]
  /\ live \subseteq used
  /\ \A v \in live : slot[v] \in Objects
  /\ \A v \in used : v \notin reused => slot[v] \in {h[v], None}

(* What a record has, by its function.                                     *)
ShapeOK(e) ==
  /\ e.kind = "call" <=> e.fn = "CallMethod" \/ (e.fn = "NewObject" /\ e.rc = None)
  /\ e.kind = "call" =>
       /\ e.a1 \in Handles /\ e.a2 \in Ids /\ e.a3 \in Handles
       /\ e.obj.a1 \in Objects /\ e.obj.a3 \in Objects /\ e.obj.rc = None
  /\ e.kind = "return" /\ e.fn = "FindClass" => e.a1 \in Bufs /\ e.rc \in Refs /\ e.obj.rc \in Classes
  /\ e.kind = "return" /\ e.fn \in {"GetObjectClass", "NewObject"} =>
       e.a1 \in Handles /\ e.rc \in Refs /\ e.obj.rc \in Objects
  /\ e.kind = "return" /\ e.fn = "NewStringUTF" => e.a1 \in Bufs /\ e.rc \in Refs /\ e.obj.rc \in Strings
  /\ e.kind = "return" /\ e.fn = "GetMethodID" =>
       /\ e.a1 \in Handles /\ e.a2 \in Bufs /\ e.a3 \in Bufs /\ e.rc \in Ids
       /\ e.obj.a1 = Decl[e.rc] /\ e.obj.rc = None
  /\ e.kind = "return" /\ e.fn = "GetStringUTFChars" =>
       e.a1 \in Handles /\ e.rc \in Bufs /\ e.obj.a1 \in Strings /\ e.obj.rc = None

(* The references of a record were the objects it has noted.               *)
RefsOK(h, e) ==
  /\ e.kind = "call" => Was(h, e.a1, e.obj.a1) /\ Was(h, e.a3, e.obj.a3)
  /\ e.kind = "return" /\ e.fn \in {"FindClass", "GetObjectClass", "NewObject", "NewStringUTF"} =>
       Was(h, e.rc, e.obj.rc)
  /\ e.kind = "return" /\ e.fn \in {"GetMethodID", "GetStringUTFChars"} => Was(h, e.a1, e.obj.a1)

(* Its buffers still have their texts unless it is late.                   *)
TextsOK(e) ==
  e.kind = "return" /\ ~e.late =>
    /\ e.fn = "FindClass" => buf[e.a1] = NameOf[e.obj.rc]
    /\ e.fn = "NewStringUTF" => buf[e.a1] = TextOf[e.obj.rc]
    /\ e.fn = "GetStringUTFChars" => buf[e.rc] = TextOf[e.obj.a1]
    /\ e.fn = "GetMethodID" => buf[e.a2] = IdName[e.rc] /\ buf[e.a3] = IdSig[e.rc]

RecordInv(h) ==
  \A i \in 1..Len(queue) : ShapeOK(queue[i]) /\ RefsOK(h, queue[i]) /\ TextsOK(queue[i])

(* What the caches hold is right, unless it was read too late or belongs   *)
(* to a reference that was given away.                                     *)
CacheInv(h) ==
  /\ \A v \in DOMAIN classNames :
       /\ v \in used
       /\ v \notin reused => h[v] \in Classes /\ (v \notin tainted => classNames[v] = Dotted(NameOf[h[v]]))
  /\ \A v \in DOMAIN jstr :
       /\ v \in used
       /\ v \notin reused => h[v] \in Strings /\ (v \notin tainted => jstr[v] = TextOf[h[v]])
  /\ \A m \in DOMAIN idClass : Was(h, idClass[m], Decl[m])
  /\ \A c \in DOMAIN nameByClass : c \notin tainted => c \in Classes /\ nameByClass[c] = Dotted(NameOf[c])
  /\ \A m \in DOMAIN idName : m \in DOMAIN idClass /\ (m \notin tainted => idName[m] = <<IdName[m], IdSig[m]>>)

(* An id that a watched thread has got is known, or its record is pending, *)
(* in front of every call that was made with it since.                     *)
Known(m) == ~mem \/ m \in DOMAIN idName \/ m \in torn

Pends(m, j) ==
  \E i \in 1..Len(queue) :
    /\ i < j /\ queue[i].kind = "return" /\ queue[i].fn = "GetMethodID"
    /\ queue[i].tid \in WatchTids /\ queue[i].rc = m

GotInv ==
  /\ \A m \in got : Known(m) \/ Pends(m, Len(queue) + 1)
  /\ \A j \in 1..Len(queue) :
       queue[j].kind = "call" /\ queue[j].got => Known(queue[j].a2) \/ Pends(queue[j].a2, j)

ShownInv == CallShownRight /\ RefsShownRight /\ AttachedIdsKnown

HistInv == \E h \in [Handles -> Objects \cup {None}] : SlotInv(h) /\ RecordInv(h) /\ CacheInv(h)

NameInv == TypeOK /\ HistInv /\ GotInv /\ ShownInv

-----------------------------------------------------------------------------
(* Sequences of records.                                                   *)
LEMMA QueueFacts ==
  ASSUME TypeOK
  PROVE  /\ queue \in Seq(Record) /\ Len(queue) \in Nat /\ DOMAIN queue = 1..Len(queue)
         /\ \A i \in 1..Len(queue) : queue[i] \in Record
<1>1. queue \in Seq(Record)
  BY DEF TypeOK
<1>2. QED
  BY <1>1, LenProperties, ElementOfSeq

LEMMA AppendFacts ==
  ASSUME TypeOK, NEW e \in Record, queue' = Append(queue, e)
  PROVE  /\ queue' \in Seq(Record) /\ Len(queue') = Len(queue) + 1
         /\ \A i \in 1..Len(queue) : queue'[i] = queue[i]
         /\ queue'[Len(queue) + 1] = e
  BY QueueFacts, AppendProperties

LEMMA AppendTwo ==
  ASSUME TypeOK, NEW d \in Record, NEW e \in Record, queue' = queue \o <<d, e>>
  PROVE  /\ queue' \in Seq(Record) /\ Len(queue') = Len(queue) + 2
         /\ \A i \in 1..Len(queue) : queue'[i] = queue[i]
         /\ queue'[Len(queue) + 1] = d /\ queue'[Len(queue) + 2] = e
<1>1. <<d, e>> \in Seq(Record) /\ Len(<<d, e>>) = 2 /\ <<d, e>>[1] = d /\ <<d, e>>[2] = e
  OBVIOUS
<1>2. queue \in Seq(Record) /\ Len(queue) \in Nat
  BY QueueFacts
<1>3. /\ queue' \in Seq(Record) /\ Len(queue') = Len(queue) + Len(<<d, e>>)
      /\ \A i \in 1..(Len(queue) + Len(<<d, e>>)) :
           queue'[i] = IF i <= Len(queue) THEN queue[i] ELSE <<d, e>>[i - Len(queue)]
  BY <1>1, <1>2, ConcatProperties
<1>4. /\ Len(queue) + 1 \in 1..(Len(queue) + 2) /\ Len(queue) + 2 \in 1..(Len(queue) + 2)
      /\ ~(Len(queue) + 1 <= Len(queue)) /\ ~(Len(queue) + 2 <= Len(queue))
      /\ (Len(queue) + 1) - Len(queue) = 1 /\ (Len(queue) + 2) - Len(queue) = 2
      /\ \A i \in 1..Len(queue) : i \in 1..(Len(queue) + 2) /\ i <= Len(queue)
  BY <1>2
<1>5. QED
  BY <1>1, <1>3, <1>4

(* Overwriting a buffer only makes records late.                           *)
LEMMA OverwriteFacts ==
  ASSUME TypeOK, NEW b, NEW x
  PROVE  /\ Overwrite(queue, b, x) \in Seq(Record) /\ Len(Overwrite(queue, b, x)) = Len(queue)
         /\ \A i \in 1..Len(queue) :
              LET d == Overwrite(queue, b, x)[i]
                  e == queue[i] IN
              /\ d \in Record
              /\ d.kind = e.kind /\ d.tid = e.tid /\ d.fn = e.fn /\ d.a1 = e.a1 /\ d.a2 = e.a2 /\ d.a3 = e.a3
              /\ d.rc = e.rc /\ d.obj = e.obj /\ d.got = e.got
              /\ ~d.late => ~e.late /\ (b \in {e.a1, e.a2, e.a3, e.rc} => buf[b] = x)
<1> DEFINE q == Overwrite(queue, b, x)
<1>1. /\ queue \in Seq(Record) /\ Len(queue) \in Nat /\ DOMAIN queue = 1..Len(queue)
      /\ \A i \in 1..Len(queue) : queue[i] \in Record
  BY QueueFacts
<1>2. q = [i \in 1..Len(queue) |-> IF b \in {queue[i].a1, queue[i].a2, queue[i].a3, queue[i].rc} /\ buf[b] # x
                                     THEN [queue[i] EXCEPT !.late = TRUE] ELSE queue[i]]
  BY <1>1 DEF Overwrite
<1>3. \A i \in 1..Len(queue) :
        LET d == q[i]
            e == queue[i] IN
        /\ d \in Record
        /\ d.kind = e.kind /\ d.tid = e.tid /\ d.fn = e.fn /\ d.a1 = e.a1 /\ d.a2 = e.a2 /\ d.a3 = e.a3
        /\ d.rc = e.rc /\ d.obj = e.obj /\ d.got = e.got
        /\ ~d.late => ~e.late /\ (b \in {e.a1, e.a2, e.a3, e.rc} => buf[b] = x)
  <2> HIDE DEF q
  <2> SUFFICES ASSUME NEW i \in 1..Len(queue)
               PROVE  LET d == q[i]
                          e == queue[i] IN
                      /\ d \in Record
                      /\ d.kind = e.kind /\ d.tid = e.tid /\ d.fn = e.fn /\ d.a1 = e.a1 /\ d.a2 = e.a2 /\ d.a3 = e.a3
                      /\ d.rc = e.rc /\ d.obj = e.obj /\ d.got = e.got
                      /\ ~d.late => ~e.late /\ (b \in {e.a1, e.a2, e.a3, e.rc} => buf[b] = x)
    OBVIOUS
  <2>1. PICK e \in Record : e = queue[i]
    BY <1>1
  <2>2. q[i] = IF b \in {e.a1, e.a2, e.a3, e.rc} /\ buf[b] # x THEN [e EXCEPT !.late = TRUE] ELSE e
    BY <1>2, <2>1
  <2>3. PICK d : d = q[i]
    OBVIOUS
  <2>4. CASE b \in {e.a1, e.a2, e.a3, e.rc} /\ buf[b] # x
    <3>1. d = [e EXCEPT !.late = TRUE]
      BY <2>2, <2>3, <2>4
    <3>2. /\ d \in Record /\ d.late = TRUE
          /\ d.kind = e.kind /\ d.tid = e.tid /\ d.fn = e.fn /\ d.a1 = e.a1 /\ d.a2 = e.a2 /\ d.a3 = e.a3
          /\ d.rc = e.rc /\ d.obj = e.obj /\ d.got = e.got
      BY <3>1 DEF Record
    <3>3. QED
      BY <2>1, <2>3, <3>2
  <2>5. CASE ~(b \in {e.a1, e.a2, e.a3, e.rc} /\ buf[b] # x)
    BY <2>1, <2>2, <2>3, <2>5
  <2>6. QED
    BY <2>4, <2>5
<1>4. q \in Seq(Record) /\ Len(q) = Len(queue)
  <2>1. DOMAIN q = 1..Len(queue)
    BY <1>2
  <2>2. \A i \in 1..Len(queue) : q[i] \in Record
    BY <1>3
  <2> HIDE DEF q
  <2>3. q \in [1..Len(queue) -> Record]
    BY <1>2, <2>2
  <2>4. QED
    BY <1>1, <2>1, <2>3, IsASeq, LenProperties
<1>5. QED
  BY <1>3, <1>4

-----------------------------------------------------------------------------
(* The history.  It may be extended for references that were not used or   *)
(* are given away.                                                         *)
Extends(h, g) ==
  /\ used \subseteq used' /\ reused \subseteq reused'
  /\ \A v \in used : v \notin reused' => g[v] = h[v]

LEMMA WasGrows ==
  ASSUME NEW h, NEW g, Extends(h, g)
  PROVE  \A v, o : Was(h, v, o) => Was(g, v, o)'
  BY DEF Extends, Was

LEMMA RefsGrow ==
  ASSUME NEW h, NEW g, Extends(h, g)
  PROVE  \A e : RefsOK(h, e) => RefsOK(g, e)'
  BY WasGrows DEF RefsOK

LEMMA CacheKept ==
  ASSUME NEW h, NEW g, Extends(h, g), CacheInv(h), UNCHANGED <<cacheVars, tainted>>
  PROVE  CacheInv(g)'
<1>1. UNCHANGED <<idName, idClass, classNames, nameByClass, jstr>>
  BY DEF cacheVars
<1>2. \A m \in DOMAIN idClass : Was(g, idClass[m], Decl[m])'
  BY <1>1, WasGrows DEF CacheInv
<1>3. \A v \in DOMAIN classNames :
       /\ v \in used'
       /\ v \notin reused' => g[v] \in Classes /\ (v \notin tainted => classNames[v] = Dotted(NameOf[g[v]]))
  BY DEF CacheInv, Extends
<1>4. \A v \in DOMAIN jstr :
       /\ v \in used'
       /\ v \notin reused' => g[v] \in Strings /\ (v \notin tainted => jstr[v] = TextOf[g[v]])
  BY DEF CacheInv, Extends
<1>5. QED
  BY <1>1, <1>2, <1>3, <1>4 DEF CacheInv

(* Records in front of the new ones are what they were.                    *)
LEMMA RecordsKept ==
  ASSUME TypeOK, NEW h, NEW g, Extends(h, g), RecordInv(h), UNCHANGED buf,
         NEW n \in Nat, Len(queue') = Len(queue) + n,
         \A i \in 1..Len(queue) : queue'[i] = queue[i],
         \A i \in 1..n : \A e :
           e = queue'[Len(queue) + i] => ShapeOK(e) /\ RefsOK(g, e)' /\ TextsOK(e)
  PROVE  RecordInv(g)'
<1>1. Len(queue) \in Nat
  BY QueueFacts
<1>2. ASSUME NEW i \in 1..Len(queue')
      PROVE  (ShapeOK(queue[i]) /\ RefsOK(g, queue[i]) /\ TextsOK(queue[i]))'
  <2>0. \A e : TextsOK(e)' <=> TextsOK(e)
    BY DEF TextsOK
  <2>1. CASE i \in 1..Len(queue)
    <3>1. PICK e : e = queue[i] /\ e = queue'[i]
      BY <2>1
    <3>2. ShapeOK(e) /\ RefsOK(h, e) /\ TextsOK(e)
      BY <2>1, <3>1 DEF RecordInv
    <3>3. RefsOK(g, e)'
      BY <3>2, RefsGrow
    <3>4. QED
      BY <2>0, <3>1, <3>2, <3>3
  <2>2. CASE i \notin 1..Len(queue)
    <3>1. i - Len(queue) \in 1..n /\ Len(queue) + (i - Len(queue)) = i
      BY <1>1, <2>2
    <3>2. PICK e : e = queue'[i]
      OBVIOUS
    <3>3. ShapeOK(e) /\ RefsOK(g, e)' /\ TextsOK(e)
      BY <3>1, <3>2
    <3>4. QED
      BY <2>0, <3>2, <3>3
  <2>3. QED
    BY <2>1, <2>2
<1>3. QED
  BY <1>2 DEF RecordInv

(* What pends, pends on behind new records.                                *)
SameIds(d, e) ==
  d.kind = e.kind /\ d.fn = e.fn /\ d.tid = e.tid /\ d.rc = e.rc /\ d.a2 = e.a2 /\ d.got = e.got

LEMMA GotKept ==
  ASSUME TypeOK, GotInv, UNCHANGED <<mem, idName, torn>>,
         Len(queue') \in Nat, Len(queue) <= Len(queue'),
         \A i \in 1..Len(queue) : SameIds(queue'[i], queue[i]),
         \A m \in got' : m \in got \/ Pends(m, Len(queue) + 1)',
         \A j \in 1..Len(queue') :
           j > Len(queue) /\ queue'[j].kind = "call" /\ queue'[j].got => queue'[j].a2 \in got
  PROVE  GotInv'
<1>1. Len(queue) \in Nat
  BY QueueFacts
<1>2. \A m : Known(m)' <=> Known(m)
  BY DEF Known
<1>3. ASSUME NEW m, NEW j \in Nat, NEW k \in Nat, j <= k, Pends(m, j) PROVE Pends(m, k)'
  <2>1. PICK i \in 1..Len(queue) :
          /\ i < j /\ queue[i].kind = "return" /\ queue[i].fn = "GetMethodID"
          /\ queue[i].tid \in WatchTids /\ queue[i].rc = m
    BY <1>3 DEF Pends
  <2>2. i \in 1..Len(queue') /\ i < k
    BY <1>1, <1>3, <2>1
  <2>3. SameIds(queue'[i], queue[i])
    OBVIOUS
  <2>4. QED
    BY <2>1, <2>2, <2>3 DEF Pends, SameIds
<1> PICK n \in Nat : n = Len(queue')
  OBVIOUS
<1>4. \A m \in got : Known(m)' \/ Pends(m, n + 1)'
  BY <1>1, <1>2, <1>3 DEF GotInv
<1>5. ASSUME NEW j \in 1..Len(queue'), queue'[j].kind = "call" /\ queue'[j].got
      PROVE  Known(queue[j].a2)' \/ Pends(queue[j].a2, j)'
  <2> PICK m : m = queue'[j].a2
    OBVIOUS
  <2>1. CASE j \in 1..Len(queue)
    <3>1. queue[j].kind = "call" /\ queue[j].got /\ queue[j].a2 = m
      BY <1>5, <2>1 DEF SameIds
    <3>2. Known(m) \/ Pends(m, j)
      BY <2>1, <3>1 DEF GotInv
    <3>3. Known(m)' \/ Pends(m, j)'
      BY <1>2, <1>3, <3>2
    <3>4. QED
      BY <3>3
  <2>2. CASE j \notin 1..Len(queue)
    <3>1. j > Len(queue) /\ j \in Nat
      BY <1>1, <2>2
    <3>2. m \in got
      BY <1>5, <3>1
    <3>3. Known(m) \/ Pends(m, Len(queue) + 1)
      BY <3>2 DEF GotInv
    <3>4. Known(m)' \/ Pends(m, j)'
      BY <1>1, <1>2, <1>3, <3>1, <3>3
    <3>5. QED
      BY <3>4
  <2>3. QED
    BY <2>1, <2>2
<1>6. \A m \in got' : Known(m)' \/ Pends(m, Len(queue) + 1)'
  BY <1>4
<1>7. QED
  BY <1>5, <1>6 DEF GotInv

-----------------------------------------------------------------------------
(* The target.                                                             *)
LEMMA Silent ==
  ASSUME shown' = << >>
  PROVE  ShownInv'
  BY DEF ShownInv, CallShownRight, RefsShownRight, AttachedIdsKnown, Shows

LEMMA TargetTypes ==
  ASSUME TypeOK, Op, UNCHANGED loopVars, queue' \in Seq(Record),
         slot' \in [Handles -> Objects \cup {None}], live' \subseteq Handles,
         buf' \in [Bufs -> Texts \cup {None}], have' \subseteq Ids, got' \subseteq Ids,
         used' \subseteq Handles, reused' \subseteq used'
  PROVE  TypeOK'
<1>1. nops' \in 0..MaxOps
  BY NameAssumption DEF TypeOK, Op
<1>2. UNCHANGED <<mem, idName, idClass, classNames, nameByClass, objClass, jstr, tainted, torn>>
  BY DEF loopVars, cacheVars
<1>3. /\ torn' \subseteq Ids /\ mem' \in BOOLEAN /\ tainted' \subseteq Handles \cup Objects \cup Ids
      /\ Map(idName, Ids, Texts \X Texts)' /\ Map(idClass, Ids, Handles)'
      /\ Map(classNames, Refs, {Dotted(n) : n \in Texts})'
      /\ Map(nameByClass, Objects, {Dotted(n) : n \in Texts})'
      /\ Map(objClass, Objects, Objects)' /\ Map(jstr, Handles, Texts \cup {None})'
  BY <1>2 DEF TypeOK, Map
<1>4. QED
  BY <1>1, <1>3 DEF TypeOK

(* An operation that writes no buffer and leaves n records.                *)
LEMMA AppendKeeps ==
  ASSUME TypeOK, GotInv, NEW h, RecordInv(h), CacheInv(h),
         NEW g \in [Handles -> Objects \cup {None}], SlotInv(g)', Extends(h, g),
         slot' \in [Handles -> Objects \cup {None}], live' \subseteq Handles,
         used' \subseteq Handles, reused' \subseteq used', have' \subseteq Ids, got' \subseteq Ids,
         Op, UNCHANGED <<buf, loopVars>>,
         NEW n \in Nat, queue' \in Seq(Record), Len(queue') = Len(queue) + n,
         \A i \in 1..Len(queue) : queue'[i] = queue[i],
         \A i \in 1..n : \A e :
           e = queue'[Len(queue) + i] =>
             /\ ShapeOK(e) /\ RefsOK(g, e)' /\ TextsOK(e)
             /\ e.kind = "call" /\ e.got => e.a2 \in got,
         \A m \in got' : m \in got \/ Pends(m, Len(queue) + 1)'
  PROVE  NameInv'
<1>1. TypeOK'
  BY TargetTypes DEF TypeOK
<1>2. RecordInv(g)'
  BY RecordsKept
<1>3. CacheInv(g)'
  BY CacheKept DEF loopVars
<1>4. HistInv'
  BY <1>2, <1>3 DEF HistInv
<1>5. GotInv'
  <2>1. Len(queue) \in Nat /\ UNCHANGED <<mem, idName, torn>>
    BY QueueFacts DEF loopVars, cacheVars
  <2>2. Len(queue') \in Nat /\ Len(queue) <= Len(queue')
    BY <2>1
  <2>3. \A i \in 1..Len(queue) : SameIds(queue'[i], queue[i])
    BY DEF SameIds
  <2>4. ASSUME NEW j \in 1..Len(queue'), j > Len(queue), queue'[j].kind = "call", queue'[j].got
        PROVE  queue'[j].a2 \in got
    <3>1. j - Len(queue) \in 1..n /\ Len(queue) + (j - Len(queue)) = j
      BY <2>1, <2>4
    <3>2. QED
      BY <2>4, <3>1
  <2>5. QED
    BY <2>1, <2>2, <2>3, <2>4, GotKept
<1>6. ShownInv'
  BY Silent DEF Op
<1>7. QED
  BY <1>1, <1>4, <1>5, <1>6 DEF NameInv

Given(h, r, o) == [h EXCEPT ![r] = o]

LEMMA NewRefFacts ==
  ASSUME TypeOK, NEW h, SlotInv(h), NEW t \in Threads, NEW r \in Handles, NEW o \in Objects,
         NewRef(t, r, o)
  PROVE  /\ Given(h, r, o) \in [Handles -> Objects \cup {None}]
         /\ SlotInv(Given(h, r, o))' /\ Extends(h, Given(h, r, o)) /\ Was(Given(h, r, o), r, o)'
         /\ slot' \in [Handles -> Objects \cup {None}] /\ live' \subseteq Handles
         /\ used' \subseteq Handles /\ reused' \subseteq used'
<1>0. PICK g : g = Given(h, r, o)
  OBVIOUS
<1>1. /\ h \in [Handles -> Objects \cup {None}] /\ slot \in [Handles -> Objects \cup {None}]
      /\ live \subseteq Handles /\ used \subseteq Handles /\ reused \subseteq used
  BY DEF SlotInv, TypeOK
<1>2. /\ g \in [Handles -> Objects \cup {None}] /\ g[r] = o
      /\ \A v \in Handles : v # r => g[v] = h[v]
  BY <1>0, <1>1 DEF Given
<1>3. /\ slot' = [slot EXCEPT ![r] = o] /\ live' = live \cup {r} /\ used' = used \cup {r}
      /\ reused' = IF r \in used THEN reused \cup {r} ELSE reused
  BY DEF NewRef
<1>4. /\ slot' \in [Handles -> Objects \cup {None}] /\ slot'[r] = o
      /\ \A v \in Handles : v # r => slot'[v] = slot[v]
  BY <1>1, <1>3
<1>5. live' \subseteq Handles /\ used' \subseteq Handles /\ reused' \subseteq used'
  BY <1>1, <1>3
<1>6. Extends(h, g)
  BY <1>1, <1>2, <1>3 DEF Extends
<1>7. Was(g, r, o)'
  BY <1>2, <1>3 DEF Was
<1>8. SlotInv(g)'
  <2>1. live' \subseteq used' /\ \A v \in live' : slot'[v] \in Objects
    BY <1>1, <1>3, <1>4 DEF SlotInv
  <2>2. ASSUME NEW v \in used', v \notin reused' PROVE slot'[v] \in {g[v], None}
    <3>1. CASE v = r
      BY <1>2, <1>4, <3>1
    <3>2. CASE v # r
      <4>1. v \in used /\ v \notin reused /\ v \in Handles
        BY <1>1, <1>3, <2>2, <3>2
      <4>2. QED
        BY <1>2, <1>4, <3>2, <4>1 DEF SlotInv
    <3>3. QED
      BY <3>1, <3>2
  <2>3. QED
    BY <1>2, <2>1, <2>2 DEF SlotInv
<1>9. QED
  BY <1>0, <1>2, <1>4, <1>5, <1>6, <1>7, <1>8

(* A reference in use is the object in its slot.                           *)
LEMMA LiveWas ==
  ASSUME TypeOK, NEW h, SlotInv(h), NEW t, NEW x \in Handles, Usable(t, x)
  PROVE  slot[x] \in Objects /\ Was(h, x, slot[x]) /\ Obj(x) = slot[x]
<1>1. x \in live /\ x \in used
  BY DEF Usable, SlotInv
<1>2. slot[x] \in Objects /\ slot[x] # None
  BY <1>1, NameAssumption DEF SlotInv
<1>3. QED
  BY <1>1, <1>2 DEF SlotInv, Was, Obj

LEMMA RecGot ==
  ASSUME NEW kind, NEW t, NEW fn, NEW a1, NEW a2, NEW a3, NEW rc, NEW o
  PROVE  Rec(kind, t, fn, a1, a2, a3, rc, o).got <=> a2 \in got
  BY Zenon DEF Rec

LEMMA RecType ==
  ASSUME TypeOK, NEW kind \in {"call", "return"}, NEW t \in Threads, NEW fn \in Fed \cup {"CallMethod"},
         NEW a1 \in Handles \cup Bufs, NEW a2 \in Bufs \cup Ids \cup {None},
         NEW a3 \in Bufs \cup Handles \cup {None}, NEW rc \in Handles \cup Bufs \cup Ids \cup {None},
         NEW o \in Objects \cup {None}
  PROVE  Rec(kind, t, fn, a1, a2, a3, rc, o) \in Record
<1>1. \A x : Obj(x) \in Objects \cup {None}
  BY DEF Obj, TypeOK
<1>2. PICK u \in Objects \cup {None} : u = Obj(a1)
  BY <1>1
<1>3. PICK w \in Objects \cup {None} : w = Obj(a3)
  BY <1>1
<1> DEFINE R(b) == [kind |-> kind, tid |-> t, fn |-> fn, a1 |-> a1, a2 |-> a2, a3 |-> a3, rc |-> rc,
                    obj |-> [a1 |-> u, a3 |-> w, rc |-> o], got |-> b, late |-> FALSE]
<1>4. CASE a2 \in got
  <2>1. (a2 \in got) = TRUE
    BY <1>4
  <2>2. Rec(kind, t, fn, a1, a2, a3, rc, o) = R(TRUE)
    BY <1>2, <1>3, <2>1 DEF Rec
  <2>3. QED
    BY <2>2 DEF Record
<1>5. CASE a2 \notin got
  <2>1. (a2 \in got) = FALSE
    BY <1>5
  <2>2. Rec(kind, t, fn, a1, a2, a3, rc, o) = R(FALSE)
    BY <1>2, <1>3, <2>1 DEF Rec
  <2>3. QED
    BY <2>2 DEF Record
<1>6. QED
  BY <1>4, <1>5

(* An operation that leaves one record.                                    *)
LEMMA OneRecord ==
  ASSUME TypeOK, GotInv, NEW h, RecordInv(h), CacheInv(h),
         NEW g \in [Handles -> Objects \cup {None}], SlotInv(g)', Extends(h, g),
         slot' \in [Handles -> Objects \cup {None}], live' \subseteq Handles,
         used' \subseteq Handles, reused' \subseteq used', have' \subseteq Ids, got' \subseteq Ids,
         Op, UNCHANGED <<buf, loopVars>>,
         NEW e \in Record, queue' = Append(queue, e),
         ShapeOK(e), RefsOK(g, e)', TextsOK(e), e.kind = "call" /\ e.got => e.a2 \in got,
         \A m \in got' : m \in got \/ (/\ e.kind = "return" /\ e.fn = "GetMethodID"
                                       /\ e.tid \in WatchTids /\ e.rc = m)
  PROVE  NameInv'
<1>1. Len(queue) \in Nat
  BY QueueFacts
<1>2. /\ queue' \in Seq(Record) /\ Len(queue') = Len(queue) + 1
      /\ \A i \in 1..Len(queue) : queue'[i] = queue[i]
      /\ queue'[Len(queue) + 1] = e
  BY AppendFacts
<1>3. \A i \in 1..1 : \A d : d = queue'[Len(queue) + i] => d = e
  BY <1>1, <1>2
<1>4. ASSUME NEW m \in got', m \notin got PROVE Pends(m, Len(queue) + 1)'
  <2>1. Len(queue) + 1 \in 1..Len(queue') /\ Len(queue) + 1 < Len(queue') + 1
    BY <1>1, <1>2
  <2>2. /\ queue'[Len(queue) + 1].kind = "return" /\ queue'[Len(queue) + 1].fn = "GetMethodID"
        /\ queue'[Len(queue) + 1].tid \in WatchTids /\ queue'[Len(queue) + 1].rc = m
    BY <1>2, <1>4
  <2>3. QED
    BY <2>1, <2>2 DEF Pends
<1>5. \A i \in 1..1 : \A d : d = queue'[Len(queue) + i] =>
             /\ ShapeOK(d) /\ RefsOK(g, d)' /\ TextsOK(d)
             /\ d.kind = "call" /\ d.got => d.a2 \in got
  BY <1>3
<1>6. QED
  BY <1>2, <1>4, <1>5, AppendKeeps

(* A function that returns a new reference.                                *)
LEMMA NewRefOne ==
  ASSUME TypeOK, GotInv, NEW h, SlotInv(h), RecordInv(h), CacheInv(h),
         Op, UNCHANGED <<buf, have, got, loopVars>>,
         NEW t \in Threads, NEW r \in Refs, NEW o \in Objects, NewRef(t, r, o),
         NEW e \in Record, queue' = Append(queue, e), ShapeOK(e), TextsOK(e), e.kind = "return",
         e.fn \in {"FindClass", "GetObjectClass", "NewStringUTF"}, e.rc = r, e.obj.rc = o
  PROVE  NameInv'
<1>1. r \in Handles
  BY DEF Handles
<1>2. PICK g : g = Given(h, r, o)
  OBVIOUS
<1>3. /\ g \in [Handles -> Objects \cup {None}] /\ SlotInv(g)' /\ Extends(h, g) /\ Was(g, r, o)'
      /\ slot' \in [Handles -> Objects \cup {None}] /\ live' \subseteq Handles
      /\ used' \subseteq Handles /\ reused' \subseteq used'
  BY <1>1, <1>2, NewRefFacts
<1>4. RefsOK(g, e)'
  BY <1>3 DEF RefsOK
<1>5. /\ have' \subseteq Ids /\ got' \subseteq Ids /\ got' = got /\ UNCHANGED <<buf, loopVars>>
      /\ ~(e.kind = "call")
  BY DEF TypeOK
<1>6. QED
  BY <1>3, <1>4, <1>5, OneRecord

LEMMA FindClassKeeps ==
  ASSUME NameInv, NEW t \in Threads, NEW b \in Bufs, NEW r \in Refs, FindClass(t, b, r)
  PROVE  NameInv'
<1>1. PICK h \in [Handles -> Objects \cup {None}] : SlotInv(h) /\ RecordInv(h) /\ CacheInv(h)
  BY DEF NameInv, HistInv
<1>2. PICK c \in Classes : buf[b] = NameOf[c] /\ NewRef(t, r, c) /\ Returns(t, "FindClass", b, None, None, r, c)
  BY DEF FindClass
<1>3. PICK e : e = Rec("return", t, "FindClass", b, None, None, r, c)
  OBVIOUS
<1>4. TypeOK /\ GotInv /\ Op /\ UNCHANGED <<buf, have, got, loopVars>> /\ c \in Objects
  BY NameAssumption DEF NameInv, FindClass
<1>5. /\ e \in Record /\ e.kind = "return" /\ e.fn = "FindClass" /\ e.a1 = b /\ e.rc = r /\ e.obj.rc = c
  <2>1. /\ "return" \in {"call", "return"} /\ "FindClass" \in Fed \cup {"CallMethod"} /\ b \in Handles \cup Bufs
        /\ None \in Bufs \cup Ids \cup {None} /\ None \in Bufs \cup Handles \cup {None}
        /\ r \in Handles \cup Bufs \cup Ids \cup {None} /\ c \in Objects \cup {None}
    BY <1>4 DEF Fed, Handles
  <2>2. e \in Record
    BY <1>3, <1>4, <2>1, RecType
  <2>3. QED
    BY <1>3, <2>2 DEF Rec
<1>6. ShapeOK(e) /\ TextsOK(e)
  BY <1>2, <1>5 DEF ShapeOK, TextsOK
<1>7. queue' = Append(queue, e)
  BY <1>2, <1>3 DEF Returns
<1>8. QED
  BY <1>1, <1>2, <1>4, <1>5, <1>6, <1>7, NewRefOne

LEMMA NewStringUTFKeeps ==
  ASSUME NameInv, NEW t \in Threads, NEW b \in Bufs, NEW r \in Refs, NewStringUTF(t, b, r)
  PROVE  NameInv'
<1>1. PICK h \in [Handles -> Objects \cup {None}] : SlotInv(h) /\ RecordInv(h) /\ CacheInv(h)
  BY DEF NameInv, HistInv
<1>2. PICK s \in Strings : TextOf[s] = buf[b] /\ NewRef(t, r, s) /\ Returns(t, "NewStringUTF", b, None, None, r, s)
  BY DEF NewStringUTF
<1>3. PICK e : e = Rec("return", t, "NewStringUTF", b, None, None, r, s)
  OBVIOUS
<1>4. TypeOK /\ GotInv /\ Op /\ UNCHANGED <<buf, have, got, loopVars>> /\ s \in Objects
  BY NameAssumption DEF NameInv, NewStringUTF
<1>5. /\ e \in Record /\ e.kind = "return" /\ e.fn = "NewStringUTF" /\ e.a1 = b /\ e.rc = r /\ e.obj.rc = s
  <2>1. /\ "return" \in {"call", "return"} /\ "NewStringUTF" \in Fed \cup {"CallMethod"} /\ b \in Handles \cup Bufs
        /\ None \in Bufs \cup Ids \cup {None} /\ None \in Bufs \cup Handles \cup {None}
        /\ r \in Handles \cup Bufs \cup Ids \cup {None} /\ s \in Objects \cup {None}
    BY <1>4 DEF Fed, Handles
  <2>2. e \in Record
    BY <1>3, <1>4, <2>1, RecType
  <2>3. QED
    BY <1>3, <2>2 DEF Rec
<1>6. ShapeOK(e) /\ TextsOK(e)
  BY <1>2, <1>5 DEF ShapeOK, TextsOK
<1>7. queue' = Append(queue, e)
  BY <1>2, <1>3 DEF Returns
<1>8. QED
  BY <1>1, <1>2, <1>4, <1>5, <1>6, <1>7, NewRefOne

LEMMA GetObjectClassKeeps ==
  ASSUME NameInv, NEW t \in Threads, NEW x \in Handles, NEW r \in Refs, GetObjectClass(t, x, r)
  PROVE  NameInv'
<1>1. PICK h \in [Handles -> Objects \cup {None}] : SlotInv(h) /\ RecordInv(h) /\ CacheInv(h)
  BY DEF NameInv, HistInv
<1>2. TypeOK /\ GotInv /\ Op /\ UNCHANGED <<buf, have, got, loopVars>> /\ Usable(t, x)
  BY DEF NameInv, GetObjectClass
<1>3. slot[x] \in Objects
  BY <1>1, <1>2, LiveWas
<1>4. PICK c \in Objects : c = ClassOf[slot[x]]
  BY <1>3, NameAssumption
<1>5. NewRef(t, r, c) /\ Returns(t, "GetObjectClass", x, None, None, r, c)
  BY <1>4 DEF GetObjectClass
<1>6. PICK e : e = Rec("return", t, "GetObjectClass", x, None, None, r, c)
  OBVIOUS
<1>7. /\ e \in Record /\ e.kind = "return" /\ e.fn = "GetObjectClass" /\ e.a1 = x /\ e.rc = r /\ e.obj.rc = c
  <2>1. /\ "return" \in {"call", "return"} /\ "GetObjectClass" \in Fed \cup {"CallMethod"} /\ x \in Handles \cup Bufs
        /\ None \in Bufs \cup Ids \cup {None} /\ None \in Bufs \cup Handles \cup {None}
        /\ r \in Handles \cup Bufs \cup Ids \cup {None} /\ c \in Objects \cup {None}
    BY <1>2 DEF Fed, Handles
  <2>2. e \in Record
    BY <1>2, <1>6, <2>1, RecType
  <2>3. QED
    BY <1>6, <2>2 DEF Rec
<1>8. ShapeOK(e) /\ TextsOK(e)
  BY <1>7 DEF ShapeOK, TextsOK
<1>9. queue' = Append(queue, e)
  BY <1>5, <1>6 DEF Returns
<1>10. QED
  BY <1>1, <1>2, <1>5, <1>7, <1>8, <1>9, NewRefOne

(* Functions that make no reference.                                       *)
LEMMA SameRefs ==
  ASSUME TypeOK, NEW h, SlotInv(h), UNCHANGED <<slot, live, used, reused>>
  PROVE  /\ SlotInv(h)' /\ Extends(h, h) /\ (\A e : RefsOK(h, e) => RefsOK(h, e)')
         /\ slot' \in [Handles -> Objects \cup {None}] /\ live' \subseteq Handles
         /\ used' \subseteq Handles /\ reused' \subseteq used'
<1>1. SlotInv(h)'
  BY DEF SlotInv
<1>2. Extends(h, h)
  BY DEF Extends
<1>3. \A e : RefsOK(h, e) => RefsOK(h, e)'
  BY <1>2, RefsGrow
<1>4. QED
  BY <1>1, <1>2, <1>3 DEF TypeOK

LEMMA GetMethodIDKeeps ==
  ASSUME NameInv, NEW t \in Threads, NEW k \in Handles, NEW bn \in Bufs, NEW bs \in Bufs, NEW m \in Ids,
         GetMethodID(t, k, bn, bs, m)
  PROVE  NameInv'
<1>1. PICK h \in [Handles -> Objects \cup {None}] : SlotInv(h) /\ RecordInv(h) /\ CacheInv(h)
  BY DEF NameInv, HistInv
<1>2. /\ TypeOK /\ GotInv /\ Op /\ Usable(t, k) /\ slot[k] = Decl[m]
      /\ buf[bn] = IdName[m] /\ buf[bs] = IdSig[m]
      /\ UNCHANGED <<slot, live, used, reused>> /\ UNCHANGED <<buf, loopVars>>
      /\ have' = have \cup {m} /\ got' = IF t \in WatchTids THEN got \cup {m} ELSE got
  BY DEF NameInv, GetMethodID
<1>3. slot[k] \in Objects /\ Was(h, k, slot[k]) /\ Obj(k) = slot[k]
  BY <1>1, <1>2, LiveWas
<1>4. PICK e : e = Rec("return", t, "GetMethodID", k, bn, bs, m, None)
  OBVIOUS
<1>5. /\ e \in Record /\ e.kind = "return" /\ e.fn = "GetMethodID" /\ e.tid = t
      /\ e.a1 = k /\ e.a2 = bn /\ e.a3 = bs /\ e.rc = m /\ e.obj.a1 = slot[k] /\ e.obj.rc = None
  <2>1. /\ "return" \in {"call", "return"} /\ "GetMethodID" \in Fed \cup {"CallMethod"} /\ k \in Handles \cup Bufs
        /\ bn \in Bufs \cup Ids \cup {None} /\ bs \in Bufs \cup Handles \cup {None}
        /\ m \in Handles \cup Bufs \cup Ids \cup {None} /\ None \in Objects \cup {None}
    BY DEF Fed
  <2>2. e \in Record
    BY <1>2, <1>4, <2>1, RecType
  <2>3. QED
    BY <1>3, <1>4, <2>2 DEF Rec
<1>6. ShapeOK(e) /\ TextsOK(e) /\ RefsOK(h, e)
  <2>1. ShapeOK(e)
    BY <1>2, <1>5 DEF ShapeOK
  <2>2. TextsOK(e)
    BY <1>2, <1>5 DEF TextsOK
  <2>3. RefsOK(h, e)
    BY <1>3, <1>5 DEF RefsOK
  <2>4. QED
    BY <2>1, <2>2, <2>3
<1>7. queue' = Append(queue, e)
  BY <1>4 DEF GetMethodID, Returns
<1>8. /\ SlotInv(h)' /\ Extends(h, h) /\ RefsOK(h, e)'
      /\ slot' \in [Handles -> Objects \cup {None}] /\ live' \subseteq Handles
      /\ used' \subseteq Handles /\ reused' \subseteq used'
  BY <1>1, <1>2, <1>6, SameRefs
<1>9. /\ have' \subseteq Ids /\ got' \subseteq Ids /\ ~(e.kind = "call")
      /\ \A n \in got' : n \in got \/ (/\ e.kind = "return" /\ e.fn = "GetMethodID"
                                       /\ e.tid \in WatchTids /\ e.rc = n)
  BY <1>2, <1>5 DEF TypeOK
<1>10. QED
  BY <1>1, <1>2, <1>5, <1>6, <1>7, <1>8, <1>9, OneRecord

LEMMA CallMethodKeeps ==
  ASSUME NameInv, NEW t \in Threads, NEW x \in Handles, NEW m \in Ids, NEW y \in Handles,
         CallMethod(t, x, m, y)
  PROVE  NameInv'
<1>1. PICK h \in [Handles -> Objects \cup {None}] : SlotInv(h) /\ RecordInv(h) /\ CacheInv(h)
  BY DEF NameInv, HistInv
<1>2. /\ TypeOK /\ GotInv /\ Op /\ Usable(t, x) /\ Usable(t, y)
      /\ UNCHANGED <<slot, live, used, reused>> /\ UNCHANGED <<buf, loopVars>> /\ UNCHANGED <<have, got>>
  BY DEF NameInv, CallMethod
<1>3. /\ slot[x] \in Objects /\ Was(h, x, slot[x]) /\ Obj(x) = slot[x]
      /\ slot[y] \in Objects /\ Was(h, y, slot[y]) /\ Obj(y) = slot[y]
  BY <1>1, <1>2, LiveWas
<1>4. PICK e : e = Rec("call", t, "CallMethod", x, m, y, None, None)
  OBVIOUS
<1>5. /\ e \in Record /\ e.kind = "call" /\ e.fn = "CallMethod"
      /\ e.a1 = x /\ e.a2 = m /\ e.a3 = y /\ e.obj.a1 = slot[x] /\ e.obj.a3 = slot[y] /\ e.obj.rc = None
  <2>1. /\ "call" \in {"call", "return"} /\ "CallMethod" \in Fed \cup {"CallMethod"} /\ x \in Handles \cup Bufs
        /\ m \in Bufs \cup Ids \cup {None} /\ y \in Bufs \cup Handles \cup {None}
        /\ None \in Handles \cup Bufs \cup Ids \cup {None} /\ None \in Objects \cup {None}
    OBVIOUS
  <2>2. e \in Record
    BY <1>2, <1>4, <2>1, RecType
  <2>3. QED
    BY <1>3, <1>4, <2>2 DEF Rec
<1>6. ShapeOK(e) /\ TextsOK(e) /\ RefsOK(h, e)
  <2>1. ShapeOK(e)
    BY <1>3, <1>5 DEF ShapeOK
  <2>2. TextsOK(e)
    BY <1>5 DEF TextsOK
  <2>3. RefsOK(h, e)
    BY <1>3, <1>5 DEF RefsOK
  <2>4. QED
    BY <2>1, <2>2, <2>3
<1>7. queue' = Append(queue, e)
  BY <1>4 DEF CallMethod
<1>8. /\ SlotInv(h)' /\ Extends(h, h) /\ RefsOK(h, e)'
      /\ slot' \in [Handles -> Objects \cup {None}] /\ live' \subseteq Handles
      /\ used' \subseteq Handles /\ reused' \subseteq used'
  BY <1>1, <1>2, <1>6, SameRefs
<1>9. have' \subseteq Ids /\ got' \subseteq Ids /\ got' = got
  BY <1>2 DEF TypeOK
<1>10. e.got => e.a2 \in got
  BY <1>4, <1>5, RecGot
<1>11. QED
  BY <1>1, <1>2, <1>5, <1>6, <1>7, <1>8, <1>9, <1>10, OneRecord

LEMMA NoRecord ==
  ASSUME TypeOK, GotInv, NEW h, RecordInv(h), CacheInv(h),
         NEW g \in [Handles -> Objects \cup {None}], SlotInv(g)', Extends(h, g),
         slot' \in [Handles -> Objects \cup {None}], live' \subseteq Handles,
         used' \subseteq Handles, reused' \subseteq used', have' = have, got' = got,
         Op, UNCHANGED <<buf, loopVars>>, queue' = queue
  PROVE  NameInv'
<1>1. PICK n \in Nat : n = 0
  OBVIOUS
<1>2. /\ have' \subseteq Ids /\ got' \subseteq Ids /\ (\A m \in got' : m \in got)
      /\ queue' \in Seq(Record) /\ Len(queue') = Len(queue) + n
      /\ \A i \in 1..Len(queue) : queue'[i] = queue[i]
  BY <1>1, QueueFacts DEF TypeOK
<1>3. \A i \in 1..n : FALSE
  BY <1>1
<1>4. QED
  BY <1>2, <1>3, AppendKeeps

LEMMA NewGlobalRefKeeps ==
  ASSUME NameInv, NEW t \in Threads, NEW x \in Handles, NEW r \in Globals, NewGlobalRef(t, x, r)
  PROVE  NameInv'
<1>1. PICK h \in [Handles -> Objects \cup {None}] : SlotInv(h) /\ RecordInv(h) /\ CacheInv(h)
  BY DEF NameInv, HistInv
<1>2. /\ TypeOK /\ GotInv /\ Op /\ Usable(t, x) /\ r \in Handles
      /\ UNCHANGED <<buf, loopVars>> /\ have' = have /\ got' = got /\ queue' = queue
  BY DEF NameInv, NewGlobalRef, Handles
<1>3. PICK o \in Objects : o = slot[x]
  BY <1>1, <1>2, LiveWas
<1>4. NewRef(t, r, o)
  BY <1>3 DEF NewGlobalRef
<1>5. PICK g : g = Given(h, r, o)
  OBVIOUS
<1>6. /\ g \in [Handles -> Objects \cup {None}] /\ SlotInv(g)' /\ Extends(h, g)
      /\ slot' \in [Handles -> Objects \cup {None}] /\ live' \subseteq Handles
      /\ used' \subseteq Handles /\ reused' \subseteq used'
  BY <1>1, <1>2, <1>4, <1>5, NewRefFacts
<1>7. QED
  BY <1>1, <1>2, <1>6, NoRecord

LEMMA DeleteRefKeeps ==
  ASSUME NameInv, NEW t \in Threads, NEW r \in Handles, DeleteRef(t, r)
  PROVE  NameInv'
<1>1. PICK h \in [Handles -> Objects \cup {None}] : SlotInv(h) /\ RecordInv(h) /\ CacheInv(h)
  BY DEF NameInv, HistInv
<1>2. /\ TypeOK /\ GotInv /\ Op /\ live' = live \ {r}
      /\ slot' \in {slot, [slot EXCEPT ![r] = None]}
      /\ UNCHANGED <<buf, loopVars>> /\ UNCHANGED <<used, reused>>
      /\ have' = have /\ got' = got /\ queue' = queue
  BY DEF NameInv, DeleteRef
<1>3. /\ slot' \in [Handles -> Objects \cup {None}]
      /\ \A v \in Handles : slot'[v] = slot[v] \/ (v = r /\ slot'[v] = None)
  BY <1>2 DEF TypeOK
<1>4. live' \subseteq Handles /\ used' \subseteq Handles /\ reused' \subseteq used'
  BY <1>2 DEF TypeOK
<1>5. SlotInv(h)'
  <2>1. /\ live' \subseteq used' /\ \A v \in live' : slot'[v] \in Objects
    BY <1>1, <1>2, <1>3, <1>4 DEF SlotInv
  <2>2. \A v \in used' : v \notin reused' => slot'[v] \in {h[v], None}
    BY <1>1, <1>2, <1>3, <1>4 DEF SlotInv
  <2>3. QED
    BY <2>1, <2>2 DEF SlotInv
<1>6. Extends(h, h)
  BY <1>2 DEF Extends
<1>7. QED
  BY <1>1, <1>2, <1>3, <1>4, <1>5, <1>6, NoRecord

LEMMA NewObjectKeeps ==
  ASSUME NameInv, NEW t \in Threads, NEW k \in Handles, NEW m \in Ids, NEW x \in Handles, NEW r \in Refs,
         NewObject(t, k, m, x, r)
  PROVE  NameInv'
<1>1. PICK h \in [Handles -> Objects \cup {None}] : SlotInv(h) /\ RecordInv(h) /\ CacheInv(h)
  BY DEF NameInv, HistInv
<1>2. /\ TypeOK /\ GotInv /\ Op /\ Usable(t, k) /\ Usable(t, x) /\ r \in Handles
      /\ UNCHANGED <<buf, loopVars>> /\ have' = have /\ got' = got
  BY DEF NameInv, NewObject, Handles
<1>3. PICK o \in Objects :
        /\ NewRef(t, r, o)
        /\ queue' = queue \o <<Rec("call", t, "NewObject", k, m, x, None, None),
                               Rec("return", t, "NewObject", k, m, x, r, o)>>
  BY DEF NewObject
<1>4. PICK g : g = Given(h, r, o)
  OBVIOUS
<1>5. /\ g \in [Handles -> Objects \cup {None}] /\ SlotInv(g)' /\ Extends(h, g) /\ Was(g, r, o)'
      /\ slot' \in [Handles -> Objects \cup {None}] /\ live' \subseteq Handles
      /\ used' \subseteq Handles /\ reused' \subseteq used'
  BY <1>1, <1>2, <1>3, <1>4, NewRefFacts
<1>6. /\ slot[k] \in Objects /\ Was(h, k, slot[k]) /\ Obj(k) = slot[k]
      /\ slot[x] \in Objects /\ Was(h, x, slot[x]) /\ Obj(x) = slot[x]
  BY <1>1, <1>2, LiveWas
<1>7. PICK d : d = Rec("call", t, "NewObject", k, m, x, None, None)
  OBVIOUS
<1>8. PICK e : e = Rec("return", t, "NewObject", k, m, x, r, o)
  OBVIOUS
<1>9. /\ d \in Record /\ d.kind = "call" /\ d.fn = "NewObject" /\ d.rc = None
      /\ d.a1 = k /\ d.a2 = m /\ d.a3 = x /\ d.obj.a1 = slot[k] /\ d.obj.a3 = slot[x] /\ d.obj.rc = None
  <2>1. /\ "call" \in {"call", "return"} /\ "NewObject" \in Fed \cup {"CallMethod"} /\ k \in Handles \cup Bufs
        /\ m \in Bufs \cup Ids \cup {None} /\ x \in Bufs \cup Handles \cup {None}
        /\ None \in Handles \cup Bufs \cup Ids \cup {None} /\ None \in Objects \cup {None}
    BY DEF Fed
  <2>2. d \in Record
    BY <1>2, <1>7, <2>1, RecType
  <2>3. QED
    BY <1>6, <1>7, <2>2 DEF Rec
<1>10. e \in Record /\ e.kind = "return" /\ e.fn = "NewObject" /\ e.a1 = k /\ e.rc = r /\ e.obj.rc = o
  <2>1. /\ "return" \in {"call", "return"} /\ "NewObject" \in Fed \cup {"CallMethod"} /\ k \in Handles \cup Bufs
        /\ m \in Bufs \cup Ids \cup {None} /\ x \in Bufs \cup Handles \cup {None}
        /\ r \in Handles \cup Bufs \cup Ids \cup {None} /\ o \in Objects \cup {None}
    BY <1>2 DEF Fed
  <2>2. e \in Record
    BY <1>2, <1>8, <2>1, RecType
  <2>3. QED
    BY <1>8, <2>2 DEF Rec
<1>11. ShapeOK(d) /\ TextsOK(d) /\ RefsOK(g, d)'
  <2>1. ShapeOK(d)
    BY <1>6, <1>9 DEF ShapeOK
  <2>2. TextsOK(d)
    BY <1>9 DEF TextsOK
  <2>3. RefsOK(h, d)
    BY <1>6, <1>9 DEF RefsOK
  <2>4. QED
    BY <1>5, <2>1, <2>2, <2>3, RefsGrow
<1>12. ShapeOK(e) /\ TextsOK(e) /\ RefsOK(g, e)'
  <2>1. e.rc # None
    BY <1>2, <1>10, NameAssumption DEF Handles
  <2>2. ShapeOK(e)
    BY <1>10, <2>1 DEF ShapeOK
  <2>3. TextsOK(e)
    BY <1>10 DEF TextsOK
  <2>4. RefsOK(g, e)'
    BY <1>5, <1>10 DEF RefsOK
  <2>5. QED
    BY <2>2, <2>3, <2>4
<1>13. d.got => d.a2 \in got
  BY <1>7, <1>9, RecGot
<1>14. /\ queue' \in Seq(Record) /\ Len(queue') = Len(queue) + 2
       /\ \A i \in 1..Len(queue) : queue'[i] = queue[i]
       /\ queue'[Len(queue) + 1] = d /\ queue'[Len(queue) + 2] = e
  BY <1>2, <1>3, <1>7, <1>8, <1>9, <1>10, AppendTwo
<1>15. \A i \in 1..2 : \A c : c = queue'[Len(queue) + i] => c = d \/ c = e
  <2>1. \A i \in 1..2 : i = 1 \/ i = 2
    OBVIOUS
  <2>2. QED
    BY <1>14, <2>1
<1>16. \A i \in 1..2 : \A c : c = queue'[Len(queue) + i] =>
             /\ ShapeOK(c) /\ RefsOK(g, c)' /\ TextsOK(c)
             /\ c.kind = "call" /\ c.got => c.a2 \in got
  <2>1. e.kind # "call"
    BY <1>10
  <2>2. QED
    BY <1>11, <1>12, <1>13, <1>15, <2>1
<1>17. have' \subseteq Ids /\ got' \subseteq Ids /\ 2 \in Nat
  BY <1>2 DEF TypeOK
<1>18. QED
  BY <1>1, <1>2, <1>5, <1>14, <1>16, <1>17, AppendKeeps

(* An operation that writes a buffer.                                      *)
LEMMA OverwriteKeeps ==
  ASSUME TypeOK, GotInv, NEW h \in [Handles -> Objects \cup {None}], SlotInv(h), RecordInv(h), CacheInv(h),
         Op, UNCHANGED <<slot, live, used, reused>>, have' = have, got' = got, UNCHANGED loopVars,
         NEW b \in Bufs, NEW y \in Texts \cup {None}, buf' = [buf EXCEPT ![b] = y],
         queue' \in Seq(Record), Len(queue') >= Len(queue),
         \A i \in 1..Len(queue) : queue'[i] = Overwrite(queue, b, y)[i],
         \A i \in 1..Len(queue') : i > Len(queue) =>
           (ShapeOK(queue[i]) /\ RefsOK(h, queue[i]) /\ TextsOK(queue[i]) /\ queue[i].kind # "call")'
  PROVE  NameInv'
<1>1. Len(queue) \in Nat /\ Len(queue') \in Nat
  BY QueueFacts, LenProperties
<1>2. /\ SlotInv(h)' /\ Extends(h, h) /\ (\A e : RefsOK(h, e) => RefsOK(h, e)')
      /\ slot' \in [Handles -> Objects \cup {None}] /\ live' \subseteq Handles
      /\ used' \subseteq Handles /\ reused' \subseteq used'
  BY SameRefs
<1>3. /\ buf' \in [Bufs -> Texts \cup {None}]
      /\ \A c \in Bufs : buf'[c] = IF c = b THEN y ELSE buf[c]
  BY DEF TypeOK
<1>4. TypeOK'
  <2>1. have' \subseteq Ids /\ got' \subseteq Ids
    BY DEF TypeOK
  <2>2. QED
    BY <1>2, <1>3, <2>1, TargetTypes
<1>5. \A i \in 1..Len(queue) :
        LET d == queue'[i]
            e == queue[i] IN
        /\ d.kind = e.kind /\ d.tid = e.tid /\ d.fn = e.fn /\ d.a1 = e.a1 /\ d.a2 = e.a2 /\ d.a3 = e.a3
        /\ d.rc = e.rc /\ d.obj = e.obj /\ d.got = e.got
        /\ ~d.late => ~e.late /\ (b \in {e.a1, e.a2, e.a3, e.rc} => buf[b] = y)
  BY OverwriteFacts
<1>6. ASSUME NEW i \in 1..Len(queue')
      PROVE  (ShapeOK(queue[i]) /\ RefsOK(h, queue[i]) /\ TextsOK(queue[i]))'
  <2>1. CASE i \in 1..Len(queue)
    <3>1. PICK e : e = queue[i]
      OBVIOUS
    <3>2. PICK d : d = queue'[i]
      OBVIOUS
    <3>3. /\ d.kind = e.kind /\ d.tid = e.tid /\ d.fn = e.fn /\ d.a1 = e.a1 /\ d.a2 = e.a2 /\ d.a3 = e.a3
          /\ d.rc = e.rc /\ d.obj = e.obj
          /\ ~d.late => ~e.late /\ (b \in {e.a1, e.a2, e.a3, e.rc} => buf[b] = y)
      BY <1>5, <2>1, <3>1, <3>2
    <3>4. ShapeOK(e) /\ RefsOK(h, e) /\ TextsOK(e)
      BY <2>1, <3>1 DEF RecordInv
    <3>5. ShapeOK(d)
      BY <3>3, <3>4 DEF ShapeOK
    <3>6. RefsOK(h, d)
      BY <3>3, <3>4 DEF RefsOK
    <3>7. TextsOK(d)'
      <4>1. SUFFICES ASSUME d.kind = "return", ~d.late
                     PROVE /\ d.fn = "FindClass" => buf'[d.a1] = NameOf[d.obj.rc]
                           /\ d.fn = "NewStringUTF" => buf'[d.a1] = TextOf[d.obj.rc]
                           /\ d.fn = "GetStringUTFChars" => buf'[d.rc] = TextOf[d.obj.a1]
                           /\ d.fn = "GetMethodID" => buf'[d.a2] = IdName[d.rc] /\ buf'[d.a3] = IdSig[d.rc]
        BY DEF TextsOK
      <4>2. \A c \in Bufs : c \in {e.a1, e.a2, e.a3, e.rc} => buf'[c] = buf[c]
        BY <1>3, <3>3, <4>1
      <4>3. CASE d.fn = "FindClass"
        BY <3>3, <3>4, <4>1, <4>2, <4>3 DEF TextsOK, ShapeOK
      <4>4. CASE d.fn = "NewStringUTF"
        BY <3>3, <3>4, <4>1, <4>2, <4>4 DEF TextsOK, ShapeOK
      <4>5. CASE d.fn = "GetStringUTFChars"
        BY <3>3, <3>4, <4>1, <4>2, <4>5 DEF TextsOK, ShapeOK
      <4>6. CASE d.fn = "GetMethodID"
        BY <3>3, <3>4, <4>1, <4>2, <4>6 DEF TextsOK, ShapeOK
      <4>7. QED
        BY <4>3, <4>4, <4>5, <4>6
    <3>8. QED
      BY <1>2, <3>2, <3>5, <3>6, <3>7
  <2>2. CASE i \notin 1..Len(queue)
    BY <1>1, <2>2
  <2>3. QED
    BY <2>1, <2>2
<1>7. RecordInv(h)'
  BY <1>6 DEF RecordInv
<1>8. CacheInv(h)'
  BY <1>2, CacheKept DEF loopVars
<1>9. GotInv'
  <2>1. UNCHANGED <<mem, idName, torn>>
    BY DEF loopVars, cacheVars
  <2>2. \A i \in 1..Len(queue) : SameIds(queue'[i], queue[i])
    BY <1>5 DEF SameIds
  <2>3. \A j \in 1..Len(queue') : j > Len(queue) => queue'[j].kind # "call"
    OBVIOUS
  <2>4. QED
    BY <1>1, <2>1, <2>2, <2>3, GotKept
<1>10. ShownInv'
  BY Silent DEF Op
<1>11. QED
  BY <1>2, <1>4, <1>7, <1>8, <1>9, <1>10 DEF NameInv, HistInv

LEMMA WriteBufKeeps ==
  ASSUME NameInv, NEW b \in Bufs, NEW x \in Written, WriteBuf(b, x)
  PROVE  NameInv'
<1>1. PICK h \in [Handles -> Objects \cup {None}] : SlotInv(h) /\ RecordInv(h) /\ CacheInv(h)
  BY DEF NameInv, HistInv
<1>2. /\ TypeOK /\ GotInv /\ Op /\ UNCHANGED <<slot, live, used, reused>> /\ have' = have /\ got' = got
      /\ UNCHANGED loopVars /\ buf' = [buf EXCEPT ![b] = x] /\ queue' = Overwrite(queue, b, x)
      /\ x \in Texts \cup {None}
  BY NameAssumption DEF NameInv, WriteBuf
<1>3. queue' \in Seq(Record) /\ Len(queue') = Len(queue)
  BY <1>2, OverwriteFacts
<1>4. Len(queue) \in Nat /\ Len(queue') \in Nat
  BY <1>2, <1>3, QueueFacts
<1>5. /\ Len(queue') >= Len(queue)
      /\ \A i \in 1..Len(queue') : ~(i > Len(queue))
      /\ \A i \in 1..Len(queue) : queue'[i] = Overwrite(queue, b, x)[i]
  BY <1>2, <1>3, <1>4
<1>6. QED
  BY <1>1, <1>2, <1>3, <1>5, OverwriteKeeps

LEMMA GetStringUTFCharsKeeps ==
  ASSUME NameInv, NEW t \in Threads, NEW x \in Handles, NEW b \in Bufs, GetStringUTFChars(t, x, b)
  PROVE  NameInv'
<1>1. PICK h \in [Handles -> Objects \cup {None}] : SlotInv(h) /\ RecordInv(h) /\ CacheInv(h)
  BY DEF NameInv, HistInv
<1>2. /\ TypeOK /\ GotInv /\ Op /\ UNCHANGED <<slot, live, used, reused>> /\ have' = have /\ got' = got
      /\ UNCHANGED loopVars /\ Usable(t, x) /\ slot[x] \in Strings
  BY DEF NameInv, GetStringUTFChars
<1>3. slot[x] \in Objects /\ Was(h, x, slot[x]) /\ Obj(x) = slot[x]
  BY <1>1, <1>2, LiveWas
<1>4. PICK y \in Texts \cup {None} : y = TextOf[slot[x]]
  BY <1>2, NameAssumption
<1>5. PICK e : e = Rec("return", t, "GetStringUTFChars", x, None, None, b, None)
  OBVIOUS
<1>6. PICK q : q = Overwrite(queue, b, y)
  OBVIOUS
<1>7. buf' = [buf EXCEPT ![b] = y] /\ queue' = Append(q, e)
  BY <1>4, <1>5, <1>6 DEF GetStringUTFChars
<1>8. /\ e \in Record /\ e.kind = "return" /\ e.fn = "GetStringUTFChars" /\ e.a1 = x /\ e.rc = b
      /\ e.obj.a1 = slot[x] /\ e.obj.rc = None
  <2>1. /\ "return" \in {"call", "return"} /\ "GetStringUTFChars" \in Fed \cup {"CallMethod"}
        /\ x \in Handles \cup Bufs
        /\ None \in Bufs \cup Ids \cup {None} /\ None \in Bufs \cup Handles \cup {None}
        /\ b \in Handles \cup Bufs \cup Ids \cup {None} /\ None \in Objects \cup {None}
    BY DEF Fed
  <2>2. e \in Record
    BY <1>2, <1>5, <2>1, RecType
  <2>3. QED
    BY <1>3, <1>5, <2>2 DEF Rec
<1>9. q \in Seq(Record) /\ Len(q) = Len(queue) /\ Len(queue) \in Nat
  BY <1>2, <1>6, OverwriteFacts, QueueFacts
<1>10. /\ queue' \in Seq(Record) /\ Len(queue') = Len(queue) + 1
       /\ \A i \in 1..Len(queue) : queue'[i] = q[i]
       /\ queue'[Len(queue) + 1] = e
  BY <1>7, <1>8, <1>9, AppendProperties
<1>11. ShapeOK(e) /\ TextsOK(e)' /\ RefsOK(h, e)'
  <2>1. ShapeOK(e)
    BY <1>2, <1>8 DEF ShapeOK
  <2>2. buf'[b] = y
    BY <1>2, <1>7 DEF TypeOK
  <2>3. TextsOK(e)'
    BY <1>4, <1>8, <2>2 DEF TextsOK
  <2>4. RefsOK(h, e)
    BY <1>3, <1>8 DEF RefsOK
  <2>5. QED
    BY <1>1, <1>2, <2>1, <2>3, <2>4, SameRefs
<1>12. ASSUME NEW i \in 1..Len(queue'), i > Len(queue)
       PROVE  (ShapeOK(queue[i]) /\ RefsOK(h, queue[i]) /\ TextsOK(queue[i]) /\ queue[i].kind # "call")'
  <2>1. i = Len(queue) + 1
    BY <1>9, <1>10, <1>12
  <2>2. e = queue'[i]
    BY <1>10, <2>1
  <2>3. e.kind # "call"
    BY <1>8
  <2>4. QED
    BY <1>11, <2>2, <2>3
<1>13. Len(queue') >= Len(queue) /\ \A i \in 1..Len(queue) : queue'[i] = Overwrite(queue, b, y)[i]
  BY <1>6, <1>9, <1>10
<1>14. QED
  BY <1>1, <1>2, <1>7, <1>10, <1>12, <1>13, OverwriteKeeps

LEMMA TargetKeeps ==
  ASSUME NameInv, Target
  PROVE  NameInv'
  BY FindClassKeeps, NewStringUTFKeeps, GetMethodIDKeeps, GetObjectClassKeeps, GetStringUTFCharsKeeps,
     NewObjectKeeps, CallMethodKeeps, NewGlobalRefKeeps, DeleteRefKeeps, WriteBufKeeps DEF Target

-----------------------------------------------------------------------------
(* The event loop.                                                         *)
LEMMA ReadFacts ==
  ASSUME TypeOK, NEW h, SlotInv(h), RecordInv(h), NEW e, NEW kind, Read(e, kind)
  PROVE  /\ Len(queue) \in Nat /\ Len(queue) >= 1 /\ e = queue[1] /\ e \in Record /\ e.kind = kind
         /\ queue' \in Seq(Record) /\ Len(queue') = Len(queue) - 1
         /\ \A i \in 1..Len(queue') : queue'[i] = queue[i + 1]
         /\ ShapeOK(e) /\ RefsOK(h, e) /\ TextsOK(e)
         /\ UNCHANGED <<slot, live, buf, have, nops, got, used, reused>> /\ UNCHANGED mem
<1>1. queue \in Seq(Record) /\ queue # << >> /\ e = Head(queue) /\ queue' = Tail(queue) /\ e.kind = kind
  BY DEF Read, TypeOK
<1>2. Len(queue) \in Nat /\ Len(queue) >= 1
  BY <1>1, EmptySeq, LenProperties
<1>3. /\ e = queue[1] /\ e \in Record /\ queue' \in Seq(Record) /\ Len(queue') = Len(queue) - 1
      /\ \A i \in 1..Len(queue') : queue'[i] = queue[i + 1]
  BY <1>1, <1>2, HeadTailProperties, ElementOfSeq
<1>4. ShapeOK(e) /\ RefsOK(h, e) /\ TextsOK(e)
  <2>1. 1 \in 1..Len(queue)
    BY <1>2
  <2>2. QED
    BY <1>3, <2>1 DEF RecordInv
<1>5. UNCHANGED <<slot, live, buf, have, nops, got, used, reused>> /\ UNCHANGED mem
  BY DEF Read, targetVars
<1>6. QED
  BY <1>1, <1>2, <1>3, <1>4, <1>5

LEMMA TailRecords ==
  ASSUME TypeOK, NEW h, SlotInv(h), RecordInv(h), NEW e, NEW kind, Read(e, kind)
  PROVE  SlotInv(h)' /\ RecordInv(h)'
<1>1. /\ Len(queue) \in Nat /\ Len(queue') = Len(queue) - 1
      /\ \A i \in 1..Len(queue') : queue'[i] = queue[i + 1]
      /\ UNCHANGED <<slot, live, buf, used, reused>>
  BY ReadFacts
<1>2. SlotInv(h)' /\ Extends(h, h)
  BY <1>1 DEF SlotInv, Extends
<1>3. ASSUME NEW i \in 1..Len(queue')
      PROVE  (ShapeOK(queue[i]) /\ RefsOK(h, queue[i]) /\ TextsOK(queue[i]))'
  <2>1. i + 1 \in 1..Len(queue)
    BY <1>1
  <2>2. PICK d : d = queue'[i] /\ d = queue[i + 1]
    BY <1>1
  <2>3. ShapeOK(d) /\ RefsOK(h, d) /\ TextsOK(d)
    BY <2>1, <2>2 DEF RecordInv
  <2>4. RefsOK(h, d)'
    BY <1>2, <2>3, RefsGrow
  <2>5. TextsOK(d)'
    BY <1>1, <2>3 DEF TextsOK
  <2>6. QED
    BY <2>2, <2>3, <2>4, <2>5
<1>4. QED
  BY <1>2, <1>3 DEF RecordInv

(* What pends comes one nearer, or is known now.                           *)
LEMMA TailGot ==
  ASSUME TypeOK, GotInv, NEW h, SlotInv(h), RecordInv(h), NEW e, NEW kind, Read(e, kind),
         \A m : Known(m) => Known(m)',
         e.kind = "return" /\ e.fn = "GetMethodID" /\ e.tid \in WatchTids => \A m : m = e.rc => Known(m)'
  PROVE  GotInv'
<1>1. /\ Len(queue) \in Nat /\ Len(queue) >= 1 /\ e = queue[1]
      /\ Len(queue') = Len(queue) - 1
      /\ \A i \in 1..Len(queue') : queue'[i] = queue[i + 1]
      /\ got' = got
  BY ReadFacts
<1>2. ASSUME NEW m, NEW j \in Nat, Known(m) \/ Pends(m, j + 1) PROVE Known(m)' \/ Pends(m, j)'
  <2>1. CASE Known(m)
    BY <2>1
  <2>2. CASE Pends(m, j + 1)
    <3>1. PICK i \in 1..Len(queue) :
            /\ i < j + 1 /\ queue[i].kind = "return" /\ queue[i].fn = "GetMethodID"
            /\ queue[i].tid \in WatchTids /\ queue[i].rc = m
      BY <2>2 DEF Pends
    <3>2. CASE i = 1
      BY <1>1, <3>1, <3>2
    <3>3. CASE i # 1
      <4>1. i - 1 \in 1..Len(queue') /\ i - 1 < j /\ (i - 1) + 1 = i
        BY <1>1, <3>1, <3>3
      <4>2. queue'[i - 1] = queue[i]
        BY <1>1, <4>1
      <4>3. QED
        BY <3>1, <4>1, <4>2 DEF Pends
    <3>4. QED
      BY <3>2, <3>3
  <2>3. QED
    BY <1>2, <2>1, <2>2
<1>3. PICK n \in Nat : n = Len(queue')
  BY <1>1
<1>4. \A m \in got : Known(m)' \/ Pends(m, n + 1)'
  <2>1. Len(queue) + 1 = (n + 1) + 1 /\ n + 1 \in Nat
    BY <1>1, <1>3
  <2>2. QED
    BY <1>2, <2>1 DEF GotInv
<1>5. \A m \in got' : Known(m)' \/ Pends(m, Len(queue) + 1)'
  BY <1>1, <1>3, <1>4
<1>6. ASSUME NEW j \in 1..Len(queue'), queue'[j].kind = "call" /\ queue'[j].got
      PROVE  Known(queue[j].a2)' \/ Pends(queue[j].a2, j)'
  <2>1. j + 1 \in 1..Len(queue) /\ j \in Nat
    BY <1>1
  <2>2. PICK m : m = queue'[j].a2
    OBVIOUS
  <2>3. queue'[j] = queue[j + 1]
    BY <1>1
  <2>4. Known(m) \/ Pends(m, j + 1)
    BY <1>6, <2>1, <2>2, <2>3 DEF GotInv
  <2>5. Known(m)' \/ Pends(m, j)'
    BY <1>2, <2>1, <2>4
  <2>6. QED
    BY <2>2, <2>5
<1>7. QED
  BY <1>5, <1>6 DEF GotInv

LEMMA ReadTypes ==
  ASSUME TypeOK, NEW h, SlotInv(h), RecordInv(h), NEW e, NEW kind, Read(e, kind),
         Map(idName, Ids, Texts \X Texts)', Map(idClass, Ids, Handles)',
         Map(classNames, Refs, {Dotted(n) : n \in Texts})',
         Map(nameByClass, Objects, {Dotted(n) : n \in Texts})',
         Map(objClass, Objects, Objects)', Map(jstr, Handles, Texts \cup {None})',
         torn' \subseteq Ids, tainted' \subseteq Handles \cup Objects \cup Ids
  PROVE  TypeOK'
<1>1. /\ queue' \in Seq(Record)
      /\ UNCHANGED <<slot, live, buf, have, nops, got, used, reused>> /\ UNCHANGED mem
  BY ReadFacts
<1>2. QED
  BY <1>1 DEF TypeOK

(* A record that feeds no cache.                                           *)
LEMMA UnfedKeeps ==
  ASSUME TypeOK, GotInv, NEW h \in [Handles -> Objects \cup {None}], SlotInv(h), RecordInv(h), CacheInv(h),
         NEW e, NEW kind, Read(e, kind), UNCHANGED <<cacheVars, tainted, torn>>,
         e.kind = "call" \/ e.tid \notin WatchTids \/ ~mem
  PROVE  TypeOK' /\ HistInv' /\ GotInv' /\ CacheInv(h)'
<1>1. UNCHANGED <<idName, idClass, classNames, nameByClass, objClass, jstr, tainted, torn>>
  BY DEF cacheVars
<1>2. UNCHANGED <<slot, live, buf, used, reused>> /\ UNCHANGED mem
  BY ReadFacts
<1>3. TypeOK'
  <2>1. /\ Map(idName, Ids, Texts \X Texts)' /\ Map(idClass, Ids, Handles)'
        /\ Map(classNames, Refs, {Dotted(n) : n \in Texts})'
        /\ Map(nameByClass, Objects, {Dotted(n) : n \in Texts})'
        /\ Map(objClass, Objects, Objects)' /\ Map(jstr, Handles, Texts \cup {None})'
        /\ torn' \subseteq Ids /\ tainted' \subseteq Handles \cup Objects \cup Ids
    BY <1>1 DEF TypeOK, Map
  <2>2. QED
    BY <2>1, ReadTypes
<1>4. SlotInv(h)' /\ RecordInv(h)'
  BY TailRecords
<1>5. CacheInv(h)'
  <2>1. Extends(h, h)
    BY <1>2 DEF Extends
  <2>2. QED
    BY <2>1, CacheKept
<1>6. GotInv'
  <2>1. \A m : Known(m) => Known(m)'
    BY <1>1, <1>2 DEF Known
  <2>2. ~mem => \A m : Known(m)'
    BY <1>2 DEF Known
  <2>3. QED
    BY <2>1, <2>2, TailGot
<1>7. QED
  BY <1>3, <1>4, <1>5, <1>6 DEF HistInv

LEMMA SkipKeeps ==
  ASSUME NameInv, NEW e, SkipRecord(e)
  PROVE  NameInv'
<1>1. PICK h \in [Handles -> Objects \cup {None}] : SlotInv(h) /\ RecordInv(h) /\ CacheInv(h)
  BY DEF NameInv, HistInv
<1>2. PICK kind : kind = e.kind
  OBVIOUS
<1>3. /\ TypeOK /\ GotInv /\ Read(e, kind) /\ e.tid \notin WatchTids /\ shown' = << >>
      /\ UNCHANGED <<cacheVars, tainted, torn>>
  BY <1>2 DEF NameInv, SkipRecord
<1>4. TypeOK' /\ HistInv' /\ GotInv'
  BY <1>1, <1>3, UnfedKeeps
<1>5. QED
  BY <1>3, <1>4, Silent DEF NameInv

-----------------------------------------------------------------------------
(* What is shown of a reference with that history is right.                *)
RefsRight ==
  \A h \in [Handles -> Objects \cup {None}], v \in Handles, o \in Objects :
    SlotInv(h) /\ CacheInv(h) /\ Was(h, v, o) /\ ~Excused(v, o) =>
      classNameOfRef(v) \in ClassTexts(v, o) /\ objClassName(v) \in RefTexts(v, o)

LEMMA RefsRightHere == RefsRight
<1> SUFFICES ASSUME NEW h \in [Handles -> Objects \cup {None}], NEW v \in Handles, NEW o \in Objects,
                    SlotInv(h), CacheInv(h), Was(h, v, o), ~Excused(v, o)
             PROVE  classNameOfRef(v) \in ClassTexts(v, o) /\ objClassName(v) \in RefTexts(v, o)
  BY DEF RefsRight
<1>1. /\ v \in used /\ v \notin reused /\ h[v] = o
      /\ v \notin tainted /\ o \notin tainted /\ ClassOf[o] \notin tainted
  BY DEF Was, Excused
<1>2. o # None /\ ClassOf[o] \in Classes
  BY NameAssumption
<1>3. resolveObj(v) = None \/ resolveObj(v) = o
  BY <1>1 DEF SlotInv, resolveObj
<1>4. classNameOfRef(v) \in ClassTexts(v, o)
  <2>1. CASE resolveObj(v) = None /\ v \in DOMAIN classNames
    <3>1. o \in Classes /\ classNames[v] = Dotted(NameOf[o])
      BY <1>1, <2>1 DEF CacheInv
    <3>2. classNameOfRef(v) = classNames[v]
      BY <2>1 DEF classNameOfRef
    <3>3. QED
      BY <3>1, <3>2 DEF ClassTexts
  <2>2. CASE resolveObj(v) = None /\ v \notin DOMAIN classNames
    <3>1. classNameOfRef(v) = Hex(v)
      BY <2>2 DEF classNameOfRef
    <3>2. QED
      BY <3>1 DEF ClassTexts
  <2>3. CASE resolveObj(v) = o /\ o \in DOMAIN nameByClass
    <3>1. o \in Classes /\ nameByClass[o] = Dotted(NameOf[o])
      BY <1>1, <2>3 DEF CacheInv
    <3>2. classNameOfRef(v) = nameByClass[o]
      BY <1>2, <2>3 DEF classNameOfRef
    <3>3. QED
      BY <3>1, <3>2 DEF ClassTexts
  <2>4. CASE resolveObj(v) = o /\ o \notin DOMAIN nameByClass /\ ClassOf[o] \in DOMAIN nameByClass
    <3>1. nameByClass[ClassOf[o]] = Dotted(NameOf[ClassOf[o]])
      BY <1>1, <2>4 DEF CacheInv
    <3>2. classNameOfRef(v) = nameByClass[ClassOf[o]]
      BY <1>2, <2>4 DEF classNameOfRef
    <3>3. QED
      BY <3>1, <3>2 DEF ClassTexts
  <2>5. CASE resolveObj(v) = o /\ o \notin DOMAIN nameByClass /\ ClassOf[o] \notin DOMAIN nameByClass
    <3>1. classNameOfRef(v) = Hex(o)
      BY <1>2, <2>5 DEF classNameOfRef
    <3>2. QED
      BY <3>1 DEF ClassTexts
  <2>6. QED
    BY <1>3, <2>1, <2>2, <2>3, <2>4, <2>5
<1>5. objClassName(v) \in RefTexts(v, o)
  <2>1. CASE v \in DOMAIN jstr
    <3>1. o \in Strings /\ jstr[v] = TextOf[o]
      BY <1>1, <2>1 DEF CacheInv
    <3>2. objClassName(v) = Quoted(jstr[v])
      BY <2>1 DEF objClassName
    <3>3. QED
      BY <3>1, <3>2 DEF RefTexts
  <2>2. CASE v \notin DOMAIN jstr
    <3>1. PICK n \in ClassTexts(v, o) : n = classNameOfRef(v)
      BY <1>4
    <3>2. objClassName(v) = IF IsHex(n) THEN n ELSE Instance(n, v)
      BY <2>2, <3>1 DEF objClassName
    <3>3. IsHex(n) => n \in {Hex(v), Hex(o)}
      BY <3>1 DEF ClassTexts, IsHex, Dotted
    <3>4. CASE IsHex(n)
      BY <3>2, <3>3, <3>4 DEF RefTexts
    <3>5. CASE ~IsHex(n)
      BY <3>1, <3>2, <3>5 DEF RefTexts
    <3>6. QED
      BY <3>4, <3>5
  <2>3. QED
    BY <2>1, <2>2
<1>6. QED
  BY <1>4, <1>5

(* And after a step.                                                       *)
LEMMA RefsRightNext == RefsRight'
  BY RefsRightHere, PTL

LEMMA HandleCallKeeps ==
  ASSUME NameInv, NEW e, HandleCall(e)
  PROVE  NameInv'
<1>1. PICK h \in [Handles -> Objects \cup {None}] : SlotInv(h) /\ RecordInv(h) /\ CacheInv(h)
  BY DEF NameInv, HistInv
<1>2. /\ TypeOK /\ GotInv /\ Read(e, "call") /\ e.tid \in WatchTids
      /\ UNCHANGED <<cacheVars, tainted, torn>>
      /\ shown' = IF e.fn \in Visible THEN describeCall(e) ELSE << >>
  BY DEF NameInv, HandleCall
<1>3. /\ Len(queue) \in Nat /\ Len(queue) >= 1 /\ e = queue[1] /\ e.kind = "call"
      /\ ShapeOK(e) /\ RefsOK(h, e) /\ UNCHANGED <<slot, used, reused>> /\ UNCHANGED mem
  BY <1>1, <1>2, ReadFacts
<1>4. TypeOK' /\ HistInv' /\ GotInv'
  BY <1>1, <1>2, <1>3, UnfedKeeps
<1>5. UNCHANGED <<idName, idClass, classNames, nameByClass, objClass, jstr, tainted, torn>>
  BY <1>2 DEF cacheVars
<1>6. /\ e.a1 \in Handles /\ e.a2 \in Ids /\ e.a3 \in Handles /\ e.obj.a1 \in Objects /\ e.obj.a3 \in Objects
      /\ Was(h, e.a1, e.obj.a1) /\ Was(h, e.a3, e.obj.a3)
  BY <1>3 DEF ShapeOK, RefsOK
<1>7. CASE e.fn \notin Visible
  BY <1>2, <1>4, <1>7, Silent DEF NameInv
<1>8. CASE e.fn \in Visible /\ e.a2 \in DOMAIN idName
  <2>1. shown' = Line(e, ClassOfCall(e), idName[e.a2], objClassName(e.a3))
    BY <1>2, <1>8 DEF describeCall
  <2>2. /\ shown'.rec = e /\ shown'.cls = ClassOfCall(e) /\ shown'.name = idName[e.a2]
        /\ shown'.val = objClassName(e.a3)
    BY <2>1 DEF Line
  <2>3. PICK k \in Handles : k = idClass[e.a2] /\ Was(h, k, Decl[e.a2])
    <3>1. e.a2 \in DOMAIN idClass
      BY <1>1, <1>8 DEF CacheInv
    <3>2. QED
      BY <1>1, <1>2, <3>1 DEF CacheInv, TypeOK, Map
  <2>4. Decl[e.a2] \in Objects
    BY <1>6, NameAssumption
  <2>5. CallShownRight'
    <3>1. e.a2 \notin tainted => idName[e.a2] = <<IdName[e.a2], IdSig[e.a2]>>
      BY <1>1, <1>8 DEF CacheInv
    <3>2. ClassOfCall(e) \in {classNameOfRef(e.a1), classNameOfRef(k)}
      BY <2>3 DEF ClassOfCall
    <3>3. ~Excused(e.a1, e.obj.a1) => classNameOfRef(e.a1) \in ClassTexts(e.a1, e.obj.a1)
      BY <1>1, <1>6, RefsRightHere DEF RefsRight
    <3>4. ~Excused(k, Decl[e.a2]) => classNameOfRef(k) \in ClassTexts(k, Decl[e.a2])
      BY <1>1, <2>3, <2>4, RefsRightHere DEF RefsRight
    <3>5. \A v, o : Excused(v, o)' <=> Excused(v, o)
      BY <1>3, <1>5 DEF Excused
    <3>6. QED
      BY <1>3, <1>5, <2>2, <2>3, <3>1, <3>2, <3>3, <3>4, <3>5 DEF CallShownRight
  <2>6. RefsShownRight'
    <3>1. ~Excused(e.a3, e.obj.a3) => objClassName(e.a3) \in RefTexts(e.a3, e.obj.a3)
      BY <1>1, <1>6, RefsRightHere DEF RefsRight
    <3>2. \A v, o : Excused(v, o)' <=> Excused(v, o)
      BY <1>3, <1>5 DEF Excused
    <3>3. e.kind # "return"
      BY <1>3
    <3>4. QED
      BY <2>2, <3>1, <3>2, <3>3 DEF RefsShownRight, Shows
  <2>7. AttachedIdsKnown'
    <3>1. idName[e.a2] \in Texts \X Texts
      BY <1>2, <1>8 DEF TypeOK, Map
    <3>2. e.a2 \notin Texts
      BY <1>6, NameAssumption
    <3>3. idName[e.a2] # Hex(e.a2)
      BY <3>1, <3>2 DEF Hex
    <3>4. QED
      BY <2>2, <3>3 DEF AttachedIdsKnown
  <2>8. QED
    BY <1>4, <2>5, <2>6, <2>7 DEF NameInv, ShownInv
<1>9. CASE e.fn \in Visible /\ e.a2 \notin DOMAIN idName
  <2>1. shown' = Line(e, << >>, Hex(e.a2), << >>)
    BY <1>2, <1>9 DEF describeCall
  <2>2. shown'.rec = e /\ shown'.name = Hex(e.a2) /\ shown'.val = << >>
    BY <2>1 DEF Line
  <2>3. CallShownRight'
    BY <2>2 DEF CallShownRight
  <2>4. RefsShownRight'
    <3>1. e.kind # "return"
      BY <1>3
    <3>2. QED
      BY <2>2, <3>1 DEF RefsShownRight, Shows
  <2>5. AttachedIdsKnown'
    <3>1. ~Pends(e.a2, 1)
      BY DEF Pends
    <3>2. e.got => Known(e.a2)
      BY <1>2, <1>3, <3>1 DEF GotInv
    <3>3. e.got /\ mem => e.a2 \in torn
      BY <1>9, <3>2 DEF Known
    <3>4. QED
      BY <1>3, <1>5, <2>2, <3>3 DEF AttachedIdsKnown
  <2>6. QED
    BY <1>4, <2>3, <2>4, <2>5 DEF NameInv, ShownInv
<1>10. QED
  BY <1>7, <1>8, <1>9

-----------------------------------------------------------------------------
(* Filling the caches.                                                     *)
LEMMA PutMap ==
  ASSUME NEW f, NEW K, NEW V, Map(f, K, V), NEW k \in K, NEW v \in V
  PROVE  Map(Put(f, k, v), K, V)
  BY DEF Put, Map

(* The keys of the caches: references, objects and ids are told apart.     *)
LEMMA KeyKinds ==
  ASSUME TypeOK
  PROVE  /\ DOMAIN classNames \subseteq Refs /\ DOMAIN classNames \subseteq Handles
         /\ DOMAIN jstr \subseteq Handles
         /\ DOMAIN nameByClass \subseteq Objects /\ DOMAIN idName \subseteq Ids
         /\ \A r \in Handles : r \notin Objects /\ r \notin Ids /\ r # None
         /\ \A o \in Objects : o \notin Handles /\ o \notin Ids /\ o # None
         /\ \A m \in Ids : m \notin Handles /\ m \notin Objects /\ m # None
         /\ \A c \in Classes : c \notin Strings
  BY NameAssumption DEF TypeOK, Map, Handles

LEMMA FeedIdKeeps ==
  ASSUME TypeOK, NEW h, SlotInv(h), CacheInv(h), mem = TRUE,
         NEW e \in Record, e.kind = "return", e.fn = "GetMethodID",
         ShapeOK(e), RefsOK(h, e), TextsOK(e),
         FeedGetMethodID(e), UNCHANGED <<used, reused, mem>>
  PROVE  /\ Map(idName, Ids, Texts \X Texts)' /\ Map(idClass, Ids, Handles)'
         /\ torn' \subseteq Ids /\ tainted' \subseteq Handles \cup Objects \cup Ids
         /\ CacheInv(h)'
         /\ (\A m : Known(m) => Known(m)') /\ \A m : m = e.rc => Known(m)'
<1>1. PICK m \in Ids : m = e.rc
  BY DEF ShapeOK
<1>2. /\ e.a1 \in Handles /\ e.a2 \in Bufs /\ e.a3 \in Bufs /\ Was(h, e.a1, Decl[m])
      /\ ~e.late => buf[e.a2] = IdName[m] /\ buf[e.a3] = IdSig[m]
  BY <1>1 DEF ShapeOK, RefsOK, TextsOK
<1>3. PICK nm \in Texts \cup {None}, sg \in Texts \cup {None} : nm = buf[e.a2] /\ sg = buf[e.a3]
  BY <1>2 DEF TypeOK
<1>4. PICK ok \in BOOLEAN : ok <=> validName(nm) /\ validSig(sg)
  OBVIOUS
<1>5. /\ idName' = IF ok THEN Put(idName, m, <<nm, sg>>) ELSE idName
      /\ idClass' = Put(idClass, m, e.a1)
      /\ tainted' = IF ok THEN Taint({m}, IF e.late THEN {m} ELSE {}) ELSE tainted
      /\ torn' = IF e.late /\ ~ok THEN torn \cup {m} ELSE torn
      /\ UNCHANGED <<classNames, nameByClass, objClass, jstr>>
  BY <1>1, <1>3, <1>4 DEF FeedGetMethodID, cstr
<1>6. ok => nm \in Texts /\ sg \in Texts
  BY <1>3, <1>4 DEF validName, validSig
<1>7. e.late \/ ok
  BY <1>1, <1>2, <1>3, <1>4, NameAssumption DEF validName, validSig
<1>8. \A x : x # m => (x \in tainted' <=> x \in tainted)
  BY <1>5 DEF Taint
<1>9. ok /\ m \notin tainted' => ~e.late
  BY <1>1, <1>5, NameAssumption DEF Taint
<1>10. Map(idName, Ids, Texts \X Texts)' /\ Map(idClass, Ids, Handles)'
  <2>1. Map(idName, Ids, Texts \X Texts) /\ Map(idClass, Ids, Handles)
    BY DEF TypeOK
  <2>2. Map(idClass, Ids, Handles)'
    BY <1>2, <1>5, <2>1, PutMap DEF Map
  <2>3. CASE ok
    <3>1. <<nm, sg>> \in Texts \X Texts
      BY <1>6, <2>3
    <3>2. QED
      BY <1>5, <2>1, <2>2, <2>3, <3>1, PutMap DEF Map
  <2>4. CASE ~ok
    BY <1>5, <2>1, <2>2, <2>4 DEF Map
  <2>5. QED
    BY <2>3, <2>4
<1>11. torn' \subseteq Ids /\ tainted' \subseteq Handles \cup Objects \cup Ids
  <2>1. torn' \subseteq Ids
    BY <1>5 DEF TypeOK
  <2>2. QED
    BY <1>8, <2>1 DEF TypeOK
<1>12. CacheInv(h)'
  <2>1. /\ DOMAIN classNames \subseteq Handles /\ DOMAIN jstr \subseteq Handles
        /\ DOMAIN nameByClass \subseteq Objects /\ m \notin Handles /\ m \notin Objects
    BY KeyKinds
  <2>2. \A v \in DOMAIN classNames :
          /\ v \in used
          /\ v \notin reused => h[v] \in Classes /\ (v \notin tainted' => classNames[v] = Dotted(NameOf[h[v]]))
    BY <1>8, <2>1 DEF CacheInv
  <2>3. \A v \in DOMAIN jstr :
          /\ v \in used
          /\ v \notin reused => h[v] \in Strings /\ (v \notin tainted' => jstr[v] = TextOf[h[v]])
    BY <1>8, <2>1 DEF CacheInv
  <2>4. \A c \in DOMAIN nameByClass : c \notin tainted' => c \in Classes /\ nameByClass[c] = Dotted(NameOf[c])
    BY <1>8, <2>1 DEF CacheInv
  <2>5. DOMAIN idClass' = DOMAIN idClass \cup {m} /\ idClass'[m] = e.a1
        /\ \A x \in DOMAIN idClass : x # m => idClass'[x] = idClass[x]
    BY <1>5 DEF Put
  <2>6. \A v, o : Was(h, v, o) => Was(h, v, o)'
    BY DEF Was
  <2>7. ASSUME NEW n \in DOMAIN idClass' PROVE Was(h, idClass[n], Decl[n])'
    <3>1. PICK v : v = idClass'[n] /\ Was(h, v, Decl[n])
      BY <1>2, <2>5 DEF CacheInv
    <3>2. QED
      BY <2>6, <3>1
  <2>8. ASSUME NEW n \in DOMAIN idName'
        PROVE  n \in DOMAIN idClass' /\ (n \notin tainted' => idName'[n] = <<IdName[n], IdSig[n]>>)
    <3>1. CASE n = m /\ ok
      <4>1. idName'[m] = <<nm, sg>>
        BY <1>5, <3>1 DEF Put
      <4>2. QED
        BY <1>2, <1>3, <1>9, <2>5, <3>1, <4>1
    <3>2. CASE n = m /\ ~ok
      BY <1>5, <2>5, <2>8, <3>2 DEF CacheInv
    <3>3. CASE n # m
      <4>1. n \in DOMAIN idName /\ idName'[n] = idName[n]
        BY <1>5, <2>8, <3>3 DEF Put
      <4>2. QED
        BY <1>8, <2>5, <3>3, <4>1 DEF CacheInv
    <3>4. QED
      BY <3>1, <3>2, <3>3
  <2>9. QED
    BY <1>5, <2>2, <2>3, <2>4, <2>7, <2>8 DEF CacheInv
<1>13. ASSUME NEW n, Known(n) PROVE Known(n)'
  <2>1. DOMAIN idName \subseteq DOMAIN idName' /\ torn \subseteq torn'
    BY <1>5 DEF Put
  <2>2. QED
    BY <1>13, <2>1 DEF Known
<1>14. Known(m)'
  <2>1. ok => m \in DOMAIN idName'
    BY <1>5 DEF Put
  <2>2. ~ok => m \in torn'
    BY <1>5, <1>7
  <2>3. QED
    BY <2>1, <2>2 DEF Known
<1>15. QED
  BY <1>1, <1>10, <1>11, <1>12, <1>13, <1>14

(* The other caches say what they said if no key of theirs changes.        *)
LEMMA FeedClassKeeps ==
  ASSUME TypeOK, NEW h, SlotInv(h), CacheInv(h), mem = TRUE,
         NEW e \in Record, e.kind = "return", e.fn = "FindClass",
         ShapeOK(e), RefsOK(h, e), TextsOK(e),
         FeedFindClass(e), UNCHANGED <<used, reused, mem>>
  PROVE  /\ Map(classNames, Refs, {Dotted(n) : n \in Texts})'
         /\ Map(nameByClass, Objects, {Dotted(n) : n \in Texts})'
         /\ tainted' \subseteq Handles \cup Objects \cup Ids
         /\ CacheInv(h)'
<1>1. PICK r \in Refs : r = e.rc
  BY DEF ShapeOK
<1>2. PICK c \in Classes : c = e.obj.rc
  BY DEF ShapeOK
<1>3. e.a1 \in Bufs /\ Was(h, r, c) /\ (~e.late => buf[e.a1] = NameOf[c])
  BY <1>1, <1>2 DEF ShapeOK, RefsOK, TextsOK
<1>4. PICK nm \in Texts \cup {None} : nm = buf[e.a1]
  BY <1>3 DEF TypeOK
<1>5. PICK obj \in Objects \cup {None} : obj = resolveObj(r)
  BY DEF resolveObj, TypeOK, Handles
<1>6. PICK ok \in BOOLEAN : ok <=> validName(nm)
  OBVIOUS
<1>7. /\ classNames' = IF ok THEN Put(classNames, r, Dotted(nm)) ELSE classNames
      /\ nameByClass' = IF ok /\ obj # None THEN Put(nameByClass, obj, Dotted(nm)) ELSE nameByClass
      /\ tainted' = IF ok THEN Taint({r, obj}, (IF e.late THEN {r, obj} ELSE {})
                                          \cup (IF obj # c THEN {obj} ELSE {}))
                   ELSE tainted
      /\ UNCHANGED <<idName, idClass, objClass, jstr, torn>>
  BY <1>1, <1>2, <1>4, <1>5, <1>6 DEF FeedFindClass, cstr
<1>8. /\ r \in Handles /\ r \notin Objects /\ r \notin Ids /\ r # None
      /\ obj \notin Handles /\ obj \notin Ids
  <2>1. r \in Handles
    BY DEF Handles
  <2>2. QED
    BY <2>1, KeyKinds, NameAssumption DEF Handles
<1>9. \A x : x # r /\ x # obj => (x \in tainted' <=> x \in tainted)
  BY <1>7 DEF Taint
<1>10. ok /\ r \notin tainted' => ~e.late
  BY <1>7, <1>8 DEF Taint
<1>11. ok /\ obj # None /\ obj \notin tainted' => ~e.late /\ obj = c
  BY <1>7 DEF Taint
<1>12. ok => Dotted(nm) \in {Dotted(n) : n \in Texts}
  <2>1. ok => nm \in Texts
    BY <1>4, <1>6 DEF validName
  <2>2. QED
    BY <2>1
<1>13. /\ Map(classNames, Refs, {Dotted(n) : n \in Texts})'
       /\ Map(nameByClass, Objects, {Dotted(n) : n \in Texts})'
  <2>1. PICK V : V = {Dotted(n) : n \in Texts}
    OBVIOUS
  <2>2. Map(classNames, Refs, V) /\ Map(nameByClass, Objects, V) /\ (ok => Dotted(nm) \in V)
    BY <1>12, <2>1 DEF TypeOK
  <2>3. Map(classNames', Refs, V)
    BY <1>7, <2>2, PutMap
  <2>4. Map(nameByClass', Objects, V)
    <3>1. CASE ok /\ obj # None
      <4>1. obj \in Objects
        BY <3>1
      <4>2. QED
        BY <1>7, <2>2, <3>1, <4>1, PutMap
    <3>2. CASE ~(ok /\ obj # None)
      BY <1>7, <2>2, <3>2
    <3>3. QED
      BY <3>1, <3>2
  <2>5. QED
    BY <2>1, <2>3, <2>4 DEF Map
<1>14. tainted' \subseteq Handles \cup Objects \cup Ids
  <2>1. ASSUME NEW x \in tainted' PROVE x \in Handles \cup Objects \cup Ids
    <3>1. CASE x = obj /\ x # r /\ x # None
      BY <3>1
    <3>2. CASE x = None /\ ok
      BY <1>7, <2>1, <3>2, NameAssumption DEF Taint, TypeOK
    <3>3. CASE ~ok
      BY <1>7, <2>1, <3>3 DEF TypeOK
    <3>4. CASE x # obj \/ x = r
      BY <1>8, <1>9, <2>1, <3>4 DEF TypeOK
    <3>5. QED
      BY <3>1, <3>2, <3>3, <3>4
  <2>2. QED
    BY <2>1
<1>15. CacheInv(h)'
  <2>1. /\ DOMAIN classNames \subseteq Handles /\ DOMAIN jstr \subseteq Handles
        /\ DOMAIN nameByClass \subseteq Objects /\ DOMAIN idName \subseteq Ids
        /\ c \notin Strings
    BY KeyKinds
  <2>2. r \in used /\ (r \notin reused => h[r] = c)
    BY <1>3 DEF Was
  <2>3. ASSUME NEW v \in DOMAIN classNames'
        PROVE  /\ v \in used
               /\ v \notin reused => h[v] \in Classes /\ (v \notin tainted' => classNames'[v] = Dotted(NameOf[h[v]]))
    <3>1. CASE v = r /\ ok
      <4>1. classNames'[r] = Dotted(nm)
        BY <1>7, <3>1 DEF Put
      <4>2. QED
        BY <1>3, <1>4, <1>10, <2>2, <3>1, <4>1
    <3>2. CASE v # r \/ ~ok
      <4>1. v \in DOMAIN classNames /\ classNames'[v] = classNames[v]
        BY <1>7, <2>3, <3>2 DEF Put
      <4>2. v \notin tainted' => v \notin tainted
        BY <1>7, <1>8, <1>9, <2>1, <3>2, <4>1
      <4>3. QED
        BY <4>1, <4>2 DEF CacheInv
    <3>3. QED
      BY <3>1, <3>2
  <2>4. ASSUME NEW v \in DOMAIN jstr
        PROVE  /\ v \in used
               /\ v \notin reused => h[v] \in Strings /\ (v \notin tainted' => jstr[v] = TextOf[h[v]])
    <3>1. CASE v = r
      BY <2>1, <2>2, <3>1 DEF CacheInv
    <3>2. CASE v # r
      BY <1>8, <1>9, <2>1, <3>2 DEF CacheInv
    <3>3. QED
      BY <3>1, <3>2
  <2>5. ASSUME NEW d \in DOMAIN nameByClass', d \notin tainted'
        PROVE  d \in Classes /\ nameByClass'[d] = Dotted(NameOf[d])
    <3>1. CASE d = obj /\ ok /\ obj # None
      <4>1. nameByClass'[d] = Dotted(nm)
        BY <1>7, <3>1 DEF Put
      <4>2. QED
        BY <1>3, <1>4, <1>11, <2>5, <3>1, <4>1
    <3>2. CASE ~(d = obj /\ ok /\ obj # None)
      <4>1. d \in DOMAIN nameByClass /\ nameByClass'[d] = nameByClass[d]
        BY <1>7, <2>5, <3>2 DEF Put
      <4>2. d \in Objects /\ d # None
        BY <2>1, <4>1, KeyKinds
      <4>3. d \notin tainted
        BY <1>7, <1>8, <1>9, <2>5, <3>2, <4>2
      <4>4. QED
        BY <4>1, <4>3 DEF CacheInv
    <3>3. QED
      BY <3>1, <3>2
  <2>6. \A m \in DOMAIN idName : m \in DOMAIN idClass /\ (m \notin tainted' => idName[m] = <<IdName[m], IdSig[m]>>)
    BY <1>8, <1>9, <2>1 DEF CacheInv
  <2>7. \A m \in DOMAIN idClass : Was(h, idClass[m], Decl[m])'
    BY <1>7 DEF CacheInv, Was
  <2>8. QED
    BY <1>7, <2>3, <2>4, <2>5, <2>6, <2>7 DEF CacheInv
<1>16. QED
  BY <1>13, <1>14, <1>15

LEMMA FeedStringKeeps ==
  ASSUME TypeOK, NEW h, SlotInv(h), CacheInv(h), mem = TRUE,
         NEW e \in Record, e.kind = "return", e.fn \in {"GetStringUTFChars", "NewStringUTF"},
         ShapeOK(e), RefsOK(h, e), TextsOK(e),
         FeedString(e), UNCHANGED <<used, reused, mem>>
  PROVE  /\ Map(jstr, Handles, Texts \cup {None})'
         /\ tainted' \subseteq Handles \cup Objects \cup Ids
         /\ CacheInv(h)'
<1>1. PICK r \in Handles, s \in Strings, b \in Bufs :
        /\ r = IF e.fn = "NewStringUTF" THEN e.rc ELSE e.a1
        /\ b = IF e.fn = "NewStringUTF" THEN e.a1 ELSE e.rc
        /\ Was(h, r, s) /\ (~e.late => buf[b] = TextOf[s])
  <2>1. CASE e.fn = "NewStringUTF"
    <3>1. /\ e.rc \in Handles /\ e.obj.rc \in Strings /\ e.a1 \in Bufs
          /\ Was(h, e.rc, e.obj.rc) /\ (~e.late => buf[e.a1] = TextOf[e.obj.rc])
      BY <2>1 DEF ShapeOK, RefsOK, TextsOK, Handles
    <3>2. QED
      BY <2>1, <3>1
  <2>2. CASE e.fn = "GetStringUTFChars"
    <3>1. /\ e.a1 \in Handles /\ e.obj.a1 \in Strings /\ e.rc \in Bufs
          /\ Was(h, e.a1, e.obj.a1) /\ (~e.late => buf[e.rc] = TextOf[e.obj.a1])
      BY <2>2 DEF ShapeOK, RefsOK, TextsOK
    <3>2. QED
      BY <2>2, <3>1
  <2>3. QED
    BY <2>1, <2>2
<1>2. PICK txt \in Texts \cup {None} : txt = buf[b]
  BY DEF TypeOK
<1>3. /\ jstr' = Put(jstr, r, txt) /\ tainted' = Taint({r}, IF e.late THEN {r} ELSE {})
      /\ UNCHANGED <<idName, idClass, classNames, nameByClass, objClass, torn>>
  BY <1>1, <1>2 DEF FeedString, cstr
<1>4. r \notin Objects /\ r \notin Ids /\ r # None
  BY KeyKinds
<1>5. \A x : x # r => (x \in tainted' <=> x \in tainted)
  BY <1>3 DEF Taint
<1>6. r \notin tainted' => ~e.late
  BY <1>3, <1>4 DEF Taint
<1>7. Map(jstr, Handles, Texts \cup {None})'
  <2>1. PICK V : V = Texts \cup {None}
    OBVIOUS
  <2>2. Map(jstr, Handles, V) /\ txt \in V
    BY <2>1 DEF TypeOK
  <2>3. Map(jstr', Handles, V)
    BY <1>3, <2>2, PutMap
  <2>4. QED
    BY <2>1, <2>3 DEF Map
<1>8. tainted' \subseteq Handles \cup Objects \cup Ids
  BY <1>5 DEF TypeOK
<1>9. CacheInv(h)'
  <2>1. /\ DOMAIN classNames \subseteq Handles /\ DOMAIN jstr \subseteq Handles
        /\ DOMAIN nameByClass \subseteq Objects /\ DOMAIN idName \subseteq Ids
        /\ \A c \in Classes : c \notin Strings
    BY KeyKinds
  <2>2. r \in used /\ (r \notin reused => h[r] = s)
    BY <1>1 DEF Was
  <2>3. ASSUME NEW v \in DOMAIN classNames
        PROVE  /\ v \in used
               /\ v \notin reused => h[v] \in Classes /\ (v \notin tainted' => classNames[v] = Dotted(NameOf[h[v]]))
    <3>1. CASE v = r
      BY <2>1, <2>2, <3>1 DEF CacheInv
    <3>2. CASE v # r
      BY <1>5, <3>2 DEF CacheInv
    <3>3. QED
      BY <3>1, <3>2
  <2>4. ASSUME NEW v \in DOMAIN jstr'
        PROVE  /\ v \in used
               /\ v \notin reused => h[v] \in Strings /\ (v \notin tainted' => jstr'[v] = TextOf[h[v]])
    <3>1. CASE v = r
      <4>1. jstr'[r] = txt
        BY <1>3 DEF Put
      <4>2. QED
        BY <1>1, <1>2, <1>6, <2>2, <3>1, <4>1
    <3>2. CASE v # r
      <4>1. v \in DOMAIN jstr /\ jstr'[v] = jstr[v]
        BY <1>3, <2>4, <3>2 DEF Put
      <4>2. QED
        BY <1>5, <3>2, <4>1 DEF CacheInv
    <3>3. QED
      BY <3>1, <3>2
  <2>5. \A c \in DOMAIN nameByClass : c \notin tainted' => c \in Classes /\ nameByClass[c] = Dotted(NameOf[c])
    BY <1>4, <1>5, <2>1 DEF CacheInv
  <2>6. \A m \in DOMAIN idName : m \in DOMAIN idClass /\ (m \notin tainted' => idName[m] = <<IdName[m], IdSig[m]>>)
    BY <1>4, <1>5, <2>1 DEF CacheInv
  <2>7. \A m \in DOMAIN idClass : Was(h, idClass[m], Decl[m])'
    BY <1>3 DEF CacheInv, Was
  <2>8. QED
    BY <1>3, <2>3, <2>4, <2>5, <2>6, <2>7 DEF CacheInv
<1>10. QED
  BY <1>7, <1>8, <1>9

LEMMA FeedObjectKeeps ==
  ASSUME TypeOK, NEW h, CacheInv(h), NEW e \in Record,
         FeedObject(e), UNCHANGED <<used, reused, mem>>
  PROVE  Map(objClass, Objects, Objects)' /\ CacheInv(h)'
<1>1. PICK u, w : /\ u = resolveObj(IF e.fn = "NewObject" THEN e.rc ELSE e.a1)
                  /\ w = resolveObj(IF e.fn = "NewObject" THEN e.a1 ELSE e.rc)
  OBVIOUS
<1>2. u \in Objects \cup {None} /\ w \in Objects \cup {None}
  BY <1>1 DEF resolveObj, TypeOK, Handles
<1>3. /\ objClass' = IF u # None /\ w # None THEN Put(objClass, u, w) ELSE objClass
      /\ UNCHANGED <<idName, idClass, classNames, nameByClass, jstr, tainted, torn>>
  BY <1>1 DEF FeedObject
<1>4. Map(objClass', Objects, Objects)
  BY <1>2, <1>3, PutMap DEF TypeOK
<1>5. \A m \in DOMAIN idClass : Was(h, idClass[m], Decl[m])'
  BY <1>3 DEF CacheInv, Was
<1>6. CacheInv(h)'
  BY <1>3, <1>5 DEF CacheInv
<1>7. QED
  BY <1>4, <1>6 DEF Map

LEMMA FeedKeeps ==
  ASSUME TypeOK, GotInv, NEW h \in [Handles -> Objects \cup {None}], SlotInv(h), RecordInv(h), CacheInv(h),
         NEW e, Read(e, "return"), mem = TRUE, Feed(e)
  PROVE  TypeOK' /\ CacheInv(h)' /\ GotInv'
<1>1. /\ e \in Record /\ e.kind = "return" /\ ShapeOK(e) /\ RefsOK(h, e) /\ TextsOK(e)
      /\ UNCHANGED <<used, reused, mem>>
  BY ReadFacts
<1>2. /\ Map(idName, Ids, Texts \X Texts) /\ Map(idClass, Ids, Handles)
      /\ Map(classNames, Refs, {Dotted(n) : n \in Texts})
      /\ Map(nameByClass, Objects, {Dotted(n) : n \in Texts})
      /\ Map(objClass, Objects, Objects) /\ Map(jstr, Handles, Texts \cup {None})
      /\ torn \subseteq Ids /\ tainted \subseteq Handles \cup Objects \cup Ids
  BY DEF TypeOK
<1>3. CASE e.fn = "GetMethodID" /\ FeedGetMethodID(e)
  <2>1. /\ Map(idName, Ids, Texts \X Texts)' /\ Map(idClass, Ids, Handles)'
        /\ torn' \subseteq Ids /\ tainted' \subseteq Handles \cup Objects \cup Ids
        /\ CacheInv(h)'
        /\ (\A m : Known(m) => Known(m)') /\ \A m : m = e.rc => Known(m)'
    BY <1>1, <1>3, FeedIdKeeps
  <2>2. UNCHANGED <<classNames, nameByClass, objClass, jstr>>
    BY <1>3 DEF FeedGetMethodID
  <2>3. /\ Map(classNames, Refs, {Dotted(n) : n \in Texts})'
        /\ Map(nameByClass, Objects, {Dotted(n) : n \in Texts})'
        /\ Map(objClass, Objects, Objects)' /\ Map(jstr, Handles, Texts \cup {None})'
    BY <1>2, <2>2 DEF Map
  <2>4. TypeOK'
    BY <2>1, <2>3, ReadTypes
  <2>5. GotInv'
    BY <2>1, TailGot
  <2>6. QED
    BY <2>1, <2>4, <2>5
<1>4. CASE e.fn = "FindClass" /\ FeedFindClass(e)
  <2>1. /\ Map(classNames, Refs, {Dotted(n) : n \in Texts})'
        /\ Map(nameByClass, Objects, {Dotted(n) : n \in Texts})'
        /\ tainted' \subseteq Handles \cup Objects \cup Ids
        /\ CacheInv(h)'
    BY <1>1, <1>4, FeedClassKeeps
  <2>2. UNCHANGED <<idName, idClass, objClass, jstr, torn>>
    BY <1>4 DEF FeedFindClass
  <2>3. /\ Map(idName, Ids, Texts \X Texts)' /\ Map(idClass, Ids, Handles)'
        /\ Map(objClass, Objects, Objects)' /\ Map(jstr, Handles, Texts \cup {None})'
        /\ torn' \subseteq Ids
    BY <1>2, <2>2 DEF Map
  <2>4. TypeOK'
    BY <2>1, <2>3, ReadTypes
  <2>5. \A m : Known(m) => Known(m)'
    BY <1>1, <2>2 DEF Known
  <2>6. GotInv'
    BY <1>4, <2>5, TailGot
  <2>7. QED
    BY <2>1, <2>4, <2>6
<1>5. CASE e.fn \in {"GetObjectClass", "NewObject"} /\ FeedObject(e)
  <2>1. Map(objClass, Objects, Objects)' /\ CacheInv(h)'
    BY <1>1, <1>5, FeedObjectKeeps
  <2>2. UNCHANGED <<idName, idClass, classNames, nameByClass, jstr, tainted, torn>>
    BY <1>5 DEF FeedObject
  <2>3. /\ Map(idName, Ids, Texts \X Texts)' /\ Map(idClass, Ids, Handles)'
        /\ Map(classNames, Refs, {Dotted(n) : n \in Texts})'
        /\ Map(nameByClass, Objects, {Dotted(n) : n \in Texts})'
        /\ Map(jstr, Handles, Texts \cup {None})'
        /\ torn' \subseteq Ids /\ tainted' \subseteq Handles \cup Objects \cup Ids
    BY <1>2, <2>2 DEF Map
  <2>4. TypeOK'
    BY <2>1, <2>3, ReadTypes
  <2>5. \A m : Known(m) => Known(m)'
    BY <1>1, <2>2 DEF Known
  <2>6. GotInv'
    BY <1>5, <2>5, TailGot
  <2>7. QED
    BY <2>1, <2>4, <2>6
<1>6. CASE e.fn \in {"GetStringUTFChars", "NewStringUTF"} /\ FeedString(e)
  <2>1. /\ Map(jstr, Handles, Texts \cup {None})'
        /\ tainted' \subseteq Handles \cup Objects \cup Ids
        /\ CacheInv(h)'
    BY <1>1, <1>6, FeedStringKeeps
  <2>2. UNCHANGED <<idName, idClass, classNames, nameByClass, objClass, torn>>
    BY <1>6 DEF FeedString
  <2>3. /\ Map(idName, Ids, Texts \X Texts)' /\ Map(idClass, Ids, Handles)'
        /\ Map(classNames, Refs, {Dotted(n) : n \in Texts})'
        /\ Map(nameByClass, Objects, {Dotted(n) : n \in Texts})'
        /\ Map(objClass, Objects, Objects)'
        /\ torn' \subseteq Ids
    BY <1>2, <2>2 DEF Map
  <2>4. TypeOK'
    BY <2>1, <2>3, ReadTypes
  <2>5. \A m : Known(m) => Known(m)'
    BY <1>1, <2>2 DEF Known
  <2>6. GotInv'
    BY <1>6, <2>5, TailGot
  <2>7. QED
    BY <2>1, <2>4, <2>6
<1>7. QED
  BY <1>3, <1>4, <1>5, <1>6 DEF Feed

LEMMA HandleReturnKeeps ==
  ASSUME NameInv, NEW e, handleReturn(e)
  PROVE  NameInv'
<1>1. PICK h \in [Handles -> Objects \cup {None}] : SlotInv(h) /\ RecordInv(h) /\ CacheInv(h)
  BY DEF NameInv, HistInv
<1>2. /\ TypeOK /\ GotInv /\ Read(e, "return") /\ mem \in BOOLEAN
      /\ mem => Feed(e)
      /\ ~mem => UNCHANGED <<cacheVars, tainted, torn>>
      /\ shown' = IF e.fn \in Visible THEN Line(e, << >>, << >>, fmtRet(e)') ELSE << >>
  BY DEF NameInv, handleReturn, TypeOK
<1>3. /\ e \in Record /\ e.kind = "return" /\ ShapeOK(e) /\ RefsOK(h, e) /\ UNCHANGED <<used, reused>>
  BY <1>1, <1>2, ReadFacts
<1>4. TypeOK' /\ CacheInv(h)' /\ GotInv'
  <2>1. CASE mem
    <3>1. mem = TRUE
      BY <1>2, <2>1
    <3>2. QED
      BY <1>1, <1>2, <2>1, <3>1, FeedKeeps
  <2>2. CASE ~mem
    BY <1>1, <1>2, <2>2, UnfedKeeps
  <2>3. QED
    BY <2>1, <2>2
<1>5. SlotInv(h)' /\ RecordInv(h)'
  BY <1>1, <1>2, TailRecords
<1>6. HistInv'
  BY <1>4, <1>5 DEF HistInv
<1>7. ShownInv'
  <2>1. CASE e.fn \notin Visible
    BY <1>2, <2>1, Silent
  <2>2. CASE e.fn \in Visible
    <3>1. PICK val : val = fmtRet(e)'
      OBVIOUS
    <3>2. shown' = Line(e, << >>, << >>, val)
      BY <1>2, <2>2, <3>1
    <3>3. shown'.rec = e /\ shown'.val = val
      BY <3>2 DEF Line
    <3>4. e.kind # "call"
      BY <1>3
    <3>5. CallShownRight' /\ AttachedIdsKnown'
      BY <3>3, <3>4 DEF CallShownRight, AttachedIdsKnown, Shows
    <3>6. ASSUME e.obj.rc # None, ~Excused(e.rc, e.obj.rc)'
          PROVE  val \in ClassTexts(e.rc, e.obj.rc) \cup RefTexts(e.rc, e.obj.rc)
      <4>1. /\ e.fn \in {"FindClass", "GetObjectClass", "NewObject", "NewStringUTF"}
            /\ e.rc \in Handles /\ e.obj.rc \in Objects
        <5>1. e.fn \in Fed
          BY <1>3 DEF ShapeOK, Record
        <5>2. e.fn \in {"FindClass", "GetObjectClass", "NewObject", "NewStringUTF"}
          BY <1>3, <3>6, <5>1 DEF ShapeOK, Fed
        <5>3. QED
          BY <1>3, <5>2, NameAssumption DEF ShapeOK, Handles
      <4>2. Was(h, e.rc, e.obj.rc)'
        BY <1>3, <4>1 DEF RefsOK, Was
      <4>3. PICK v \in Handles, o \in Objects : v = e.rc /\ o = e.obj.rc
        BY <4>1
      <4>4. Was(h, v, o)' /\ ~Excused(v, o)'
        BY <3>6, <4>2, <4>3
      <4>5. classNameOfRef(v)' \in ClassTexts(v, o) /\ objClassName(v)' \in RefTexts(v, o)
        BY <1>4, <1>5, <4>4, RefsRightNext DEF RefsRight
      <4>6. CASE e.fn \in {"FindClass", "GetObjectClass"}
        <5>1. val = classNameOfRef(v)'
          BY <3>1, <4>3, <4>6 DEF fmtRet
        <5>2. QED
          BY <4>3, <4>5, <5>1
      <4>7. CASE e.fn = "NewObject"
        <5>1. val = objClassName(v)'
          BY <3>1, <4>3, <4>7 DEF fmtRet
        <5>2. QED
          BY <4>3, <4>5, <5>1
      <4>8. CASE e.fn = "NewStringUTF"
        <5>1. CASE v \in DOMAIN jstr'
          <6>1. val = Quoted(jstr'[v])
            BY <3>1, <4>3, <4>8, <5>1 DEF fmtRet
          <6>2. objClassName(v)' = Quoted(jstr'[v])
            BY <5>1 DEF objClassName
          <6>3. QED
            BY <4>3, <4>5, <6>1, <6>2
        <5>2. CASE v \notin DOMAIN jstr'
          <6>1. val = classNameOfRef(v)'
            BY <3>1, <4>3, <4>8, <5>2 DEF fmtRet
          <6>2. QED
            BY <4>3, <4>5, <6>1
        <5>3. QED
          BY <5>1, <5>2
      <4>9. QED
        BY <4>1, <4>6, <4>7, <4>8
    <3>7. RefsShownRight'
      BY <3>3, <3>4, <3>6 DEF RefsShownRight, Shows
    <3>8. QED
      BY <3>5, <3>7 DEF ShownInv
  <2>3. QED
    BY <2>1, <2>2
<1>8. QED
  BY <1>4, <1>6, <1>7 DEF NameInv

-----------------------------------------------------------------------------
LEMMA NameInit ==
  ASSUME Init
  PROVE  NameInv
<1>1. PICK s \in Starts : slot = s.slot /\ buf = s.buf
  BY DEF Init
<1>2. slot \in [Handles -> Objects \cup {None}] /\ buf \in [Bufs -> Texts \cup {None}]
  BY <1>1, NameAssumption DEF Handles
<1>3. /\ live = {r \in Handles : slot[r] # None} /\ used = live /\ reused = {}
      /\ have \subseteq Ids /\ queue = << >> /\ mem \in BOOLEAN
      /\ idName = EmptyMap /\ idClass = EmptyMap /\ classNames = EmptyMap
      /\ nameByClass = EmptyMap /\ objClass = EmptyMap /\ jstr = EmptyMap
      /\ shown = << >> /\ nops = 0 /\ got = {} /\ tainted = {} /\ torn = {}
  BY DEF Init
<1>4. DOMAIN EmptyMap = {}
  BY DEF EmptyMap
<1>5. Len(queue) = 0 /\ queue \in Seq(Record)
  BY <1>3
<1>6. TypeOK
  <2>1. /\ Map(idName, Ids, Texts \X Texts) /\ Map(idClass, Ids, Handles)
        /\ Map(classNames, Refs, {Dotted(n) : n \in Texts})
        /\ Map(nameByClass, Objects, {Dotted(n) : n \in Texts})
        /\ Map(objClass, Objects, Objects) /\ Map(jstr, Handles, Texts \cup {None})
    BY <1>3, <1>4 DEF Map
  <2>2. nops \in 0..MaxOps
    BY <1>3, NameAssumption
  <2>3. QED
    BY <1>2, <1>3, <1>5, <2>1, <2>2 DEF TypeOK
<1>7. SlotInv(slot)
  BY <1>2, <1>3 DEF SlotInv
<1>8. RecordInv(slot)
  BY <1>5 DEF RecordInv
<1>9. CacheInv(slot)
  BY <1>3, <1>4 DEF CacheInv
<1>10. GotInv
  BY <1>3, <1>5 DEF GotInv
<1>11. ShownInv
  BY <1>3 DEF ShownInv, CallShownRight, RefsShownRight, AttachedIdsKnown, Shows
<1>12. QED
  BY <1>2, <1>6, <1>7, <1>8, <1>9, <1>10, <1>11 DEF NameInv, HistInv

(* Nothing changes in a step that is not the model's.                      *)
LEMMA NameStutter ==
  ASSUME NameInv, UNCHANGED vars
  PROVE  NameInv'
<1>1. /\ UNCHANGED <<slot, live, buf, have, nops, got, used, reused>> /\ UNCHANGED <<queue, shown, mem, tainted, torn>>
      /\ UNCHANGED <<idName, idClass, classNames, nameByClass, objClass, jstr>>
  BY DEF vars, targetVars, loopVars, cacheVars
<1>2. TypeOK'
  BY <1>1 DEF NameInv, TypeOK, Map
<1>3. HistInv'
  BY <1>1 DEF NameInv, HistInv, SlotInv, RecordInv, CacheInv, RefsOK, TextsOK, Was
<1>4. GotInv'
  BY <1>1 DEF NameInv, GotInv, Known, Pends
<1>5. ShownInv'
  BY <1>1 DEF NameInv, ShownInv, CallShownRight, RefsShownRight, AttachedIdsKnown, Shows, Excused
<1>6. QED
  BY <1>2, <1>3, <1>4, <1>5 DEF NameInv

LEMMA NameStep ==
  ASSUME NameInv, [Next]_vars
  PROVE  NameInv'
<1>1. CASE Target
  BY <1>1, TargetKeeps
<1>2. CASE Loop
  BY <1>2, SkipKeeps, HandleCallKeeps, HandleReturnKeeps DEF Loop
<1>3. CASE UNCHANGED vars
  BY <1>3, NameStutter
<1>4. QED
  BY <1>1, <1>2, <1>3 DEF Next

(* The invariant: there is a history of the references with which slots,   *)
(* pending records and caches agree, ids that were got are known or about  *)
(* to be, and the line that is shown is right.                             *)
THEOREM NameInvariant == Spec => []NameInv
<1>1. Init => NameInv
  BY NameInit
<1>2. NameInv /\ [Next]_vars => NameInv'
  BY NameStep
<1>3. QED
  BY <1>1, <1>2, PTL DEF Spec

(* Each cache of loader/decode.go maps what it says to what it says.       *)
THEOREM NameTypeCorrect == Spec => []TypeOK
<1>1. NameInv => TypeOK
  BY DEF NameInv
<1>2. QED
  BY <1>1, NameInvariant, PTL

(* describeCall shows the name and the signature of the method called, and *)
(* a class of the receiver or of the id, for any number of threads,        *)
(* references, ids and operations, unless a reference was given away or a  *)
(* text was rewritten before it was read.                                  *)
THEOREM CallsShownRight == Spec => []CallShownRight
<1>1. NameInv => CallShownRight
  BY DEF NameInv, ShownInv
<1>2. QED
  BY <1>1, NameInvariant, PTL

(* An object that is an argument or a result is shown as that object, also *)
(* after its reference was deleted and its slot cleared (objClassName,     *)
(* fmtRet).                                                                *)
THEOREM RefsShownCorrectly == Spec => []RefsShownRight
<1>1. NameInv => RefsShownRight
  BY DEF NameInv, ShownInv
<1>2. QED
  BY <1>1, NameInvariant, PTL

(* handleReturn feeds the caches before the filters are asked and in the   *)
(* order of the records: a call with an id that a watched thread got       *)
(* before, on whichever thread, is decoded.                                *)
THEOREM IdsKnownOnceGot == Spec => []AttachedIdsKnown
<1>1. NameInv => AttachedIdsKnown
  BY DEF NameInv, ShownInv
<1>2. QED
  BY <1>1, NameInvariant, PTL
=============================================================================
