----------------------------- MODULE NameCache -----------------------------
(***************************************************************************)
(* The caches with which the loader turns method ids and references into   *)
(* names (caches in loader/decode.go), fed by handleReturn and used by     *)
(* describeCall (loader/trace.go, loader/decode.go).                       *)
(*                                                                         *)
(* A record holds addresses and references only.  What they stand for, the *)
(* text of a buffer and the object of a reference, is read from the memory *)
(* of the target when the record is handled; by then the target may have   *)
(* written other text into the buffer, and deleted the reference or given  *)
(* it to another object.                                                   *)
(*                                                                         *)
(* Probes and pairing are ideal here, so a return record carries the       *)
(* arguments of its call (Pairing says when that is so).  A text, an       *)
(* object, a reference or a method id is only itself; a name that is shown *)
(* is tagged with the conversion it went through.  The fields obj, got and *)
(* late of a record, and the variables used, reused, got, tainted and      *)
(* torn, are ghosts.                                                       *)
(*                                                                         *)
(* The heap has no garbage collector: an object keeps its address, and     *)
(* what a slot left behind, or a cache filed under an address, points to   *)
(* is still that object.                                                   *)
(***************************************************************************)
EXTENDS Integers, Sequences, FiniteSets

CONSTANTS
  Threads, WatchTids,       \* the threads, and those that --tid lets through
  Visible,                  \* the functions that matchSlot lets through
  Objects, Classes, Strings, \* the heap: all objects, class objects, strings
  ClassOf,                  \* object -> the class object in its first word
  NameOf,                   \* class -> its name, as FindClass takes it
  TextOf,                   \* string -> its text
  Ids, IdName, IdSig, Decl, \* method ids, their names, signatures and classes
  Refs, Owner,              \* local references, and the thread of each
  Globals,                  \* global references, which the loader does not decode
  Bufs, Texts, Garbage,     \* addresses of texts, texts, those that are not names
  Starts,                   \* what references and buffers may hold at the start
  None,                     \* a null reference, an empty slot, an unreadable text
  Written,                  \* what the target writes into buffers (bounds the model)
  MaxOps                    \* bound on the operations of the target

(* Objects, references, method ids and texts are told apart, a class       *)
(* object is not a string, and nothing is called by what is not a name.    *)
ASSUME NameAssumption ==
  /\ WatchTids \subseteq Threads
  /\ Classes \subseteq Objects /\ Strings \subseteq Objects
  /\ ClassOf \in [Objects -> Classes]
  /\ NameOf \in [Classes -> Texts] /\ TextOf \in [Strings -> Texts]
  /\ IdName \in [Ids -> Texts] /\ IdSig \in [Ids -> Texts] /\ Decl \in [Ids -> Classes]
  /\ Owner \in [Refs -> Threads] /\ Refs \cap Globals = {}
  /\ Classes \cap Strings = {} /\ Objects \cap (Refs \cup Globals) = {}
  /\ Ids \cap (Objects \cup Refs \cup Globals \cup Texts) = {}
  /\ Garbage \subseteq Texts
  /\ \A c \in Classes : NameOf[c] \notin Garbage
  /\ \A m \in Ids : IdName[m] \notin Garbage /\ IdSig[m] \notin Garbage
  /\ Starts \subseteq [slot: [Refs \cup Globals -> Objects \cup {None}],
                      buf: [Bufs -> Texts \cup {None}]]
  /\ None \notin Objects \cup Texts \cup Refs \cup Globals \cup Bufs \cup Ids
  /\ Written \subseteq Texts \cup {None}
  /\ MaxOps \in Nat

VARIABLES
  slot,    \* reference -> the object in its slot of the IRTable
  live,    \* the references in use
  buf,     \* buffer -> its text
  have,    \* the method ids that the target has got
  queue,   \* records in the ring buffer
  mem,     \* whether /proc/<pid>/mem could be opened (mr != nil)
  idName, idClass, classNames, nameByClass, objClass, jstr,  \* the caches
  shown,   \* the line that the last step printed, << >> if none
  nops,
  got,     \* the ids that a watched thread has got
  used,    \* the references that were ever in use
  reused,  \* those that were given to a second object
  tainted, \* keys of caches filled from a buffer or slot that had changed
  torn     \* ids of which the name was lost for that reason

targetVars == <<slot, live, buf, have, nops, got, used, reused>>
cacheVars  == <<idName, idClass, classNames, nameByClass, objClass, jstr>>
loopVars   == <<mem, cacheVars, tainted, torn>>
vars       == <<targetVars, queue, loopVars, shown>>

Handles == Refs \cup Globals

Fed == {"FindClass", "GetMethodID", "GetObjectClass", "NewObject", "GetStringUTFChars", "NewStringUTF"}

(* A record, less what the caches do not use: a1, a2 and a3 are arguments, *)
(* rc is the result; obj has the objects that a1, a3 and rc stood for, got *)
(* says whether a watched thread had got the method id a2 before.          *)
Record ==
  [kind: {"call", "return"}, tid: Threads, fn: Fed \cup {"CallMethod"},
   a1: Handles \cup Bufs, a2: Bufs \cup Ids \cup {None}, a3: Bufs \cup Handles \cup {None},
   rc: Handles \cup Bufs \cup Ids \cup {None},
   obj: [a1: Objects \cup {None}, a3: Objects \cup {None}, rc: Objects \cup {None}],
   got: BOOLEAN, late: BOOLEAN]

EmptyMap == [k \in {} |-> None]

Init ==
  /\ \E s \in Starts : slot = s.slot /\ buf = s.buf
  /\ live = {r \in Handles : slot[r] # None} /\ used = live /\ reused = {}
  /\ have \in SUBSET Ids
  /\ queue = << >>
  /\ mem \in BOOLEAN
  /\ idName = EmptyMap /\ idClass = EmptyMap /\ classNames = EmptyMap
  /\ nameByClass = EmptyMap /\ objClass = EmptyMap /\ jstr = EmptyMap
  /\ shown = << >> /\ nops = 0 /\ got = {}
  /\ tainted = {} /\ torn = {}

-----------------------------------------------------------------------------
(* The target.  An operation is its whole call: nothing that the caches    *)
(* depend on happens between the entry and the return of these functions   *)
(* that could not happen after the return as well.  For functions that are *)
(* not of the Call* family the entry is left out, which fills no cache.    *)

Op == nops < MaxOps /\ nops' = nops + 1 /\ shown' = << >>

Usable(t, r) == r \in live /\ (r \in Refs => Owner[r] = t)

Obj(x) == IF x \in Handles THEN slot[x] ELSE None

Rec(kind, t, fn, a1, a2, a3, rc, o) ==
  [kind |-> kind, tid |-> t, fn |-> fn, a1 |-> a1, a2 |-> a2, a3 |-> a3, rc |-> rc,
   obj |-> [a1 |-> Obj(a1), a3 |-> Obj(a3), rc |-> o], got |-> a2 \in got, late |-> FALSE]

Returns(t, fn, a1, a2, a3, rc, o) ==
  queue' = Append(queue, Rec("return", t, fn, a1, a2, a3, rc, o))

(* A new reference to o: a slot of the thread's IRTable that is free.      *)
NewRef(t, r, o) ==
  /\ r \notin live
  /\ r \in Refs => Owner[r] = t
  /\ slot' = [slot EXCEPT ![r] = o]
  /\ live' = live \cup {r} /\ used' = used \cup {r}
  /\ reused' = IF r \in used THEN reused \cup {r} ELSE reused

FindClass(t, b, r) ==
  /\ Op
  /\ \E c \in Classes :
       /\ buf[b] = NameOf[c]
       /\ NewRef(t, r, c)
       /\ Returns(t, "FindClass", b, None, None, r, c)
  /\ UNCHANGED <<buf, have, got, loopVars>>

GetMethodID(t, k, bn, bs, m) ==
  /\ Op
  /\ Usable(t, k) /\ slot[k] = Decl[m]
  /\ buf[bn] = IdName[m] /\ buf[bs] = IdSig[m]
  /\ have' = have \cup {m}
  /\ got' = IF t \in WatchTids THEN got \cup {m} ELSE got
  /\ Returns(t, "GetMethodID", k, bn, bs, m, None)
  /\ UNCHANGED <<slot, live, buf, used, reused, loopVars>>

GetObjectClass(t, x, r) ==
  /\ Op
  /\ Usable(t, x)
  /\ NewRef(t, r, ClassOf[slot[x]])
  /\ Returns(t, "GetObjectClass", x, None, None, r, ClassOf[slot[x]])
  /\ UNCHANGED <<buf, have, got, loopVars>>

(* NewObject is of the Call* family, so both of its records matter.        *)
NewObject(t, k, m, x, r) ==
  /\ Op
  /\ Usable(t, k) /\ slot[k] \in Classes /\ m \in have /\ Usable(t, x)
  /\ \E o \in Objects \ (Classes \cup Strings) :
       /\ ClassOf[o] = slot[k]
       /\ NewRef(t, r, o)
       /\ queue' = queue \o <<Rec("call", t, "NewObject", k, m, x, None, None),
                              Rec("return", t, "NewObject", k, m, x, r, o)>>
  /\ UNCHANGED <<buf, have, got, loopVars>>

NewStringUTF(t, b, r) ==
  /\ Op
  /\ \E s \in Strings :
       /\ TextOf[s] = buf[b]
       /\ NewRef(t, r, s)
       /\ Returns(t, "NewStringUTF", b, None, None, r, s)
  /\ UNCHANGED <<buf, have, got, loopVars>>

(* Every pending record whose texts lie in b is late from now on.          *)
Overwrite(q, b, x) ==
  [i \in DOMAIN q |-> IF b \in {q[i].a1, q[i].a2, q[i].a3, q[i].rc} /\ buf[b] # x
                        THEN [q[i] EXCEPT !.late = TRUE] ELSE q[i]]

(* The text is put into a buffer that nothing else uses; earlier results   *)
(* may have been there and been released.                                  *)
GetStringUTFChars(t, x, b) ==
  /\ Op
  /\ Usable(t, x) /\ slot[x] \in Strings
  /\ buf' = [buf EXCEPT ![b] = TextOf[slot[x]]]
  /\ queue' = Append(Overwrite(queue, b, TextOf[slot[x]]),
                     Rec("return", t, "GetStringUTFChars", x, None, None, b, None))
  /\ UNCHANGED <<slot, live, have, got, used, reused, loopVars>>

CallMethod(t, x, m, y) ==
  /\ Op
  /\ Usable(t, x) /\ m \in have /\ Usable(t, y)
  /\ queue' = Append(queue, Rec("call", t, "CallMethod", x, m, y, None, None))
  /\ UNCHANGED <<slot, live, buf, have, got, used, reused, loopVars>>

(* NewGlobalRef feeds no cache.                                            *)
NewGlobalRef(t, x, g) ==
  /\ Op
  /\ Usable(t, x) /\ g \in Globals
  /\ NewRef(t, g, slot[x])
  /\ UNCHANGED <<buf, have, got, queue, loopVars>>

(* DeleteLocalRef clears the slot; leaving a native method only frees it.  *)
DeleteRef(t, r) ==
  /\ Op
  /\ Usable(t, r)
  /\ live' = live \ {r}
  /\ slot' \in {slot, [slot EXCEPT ![r] = None]}
  /\ UNCHANGED <<buf, have, got, queue, used, reused, loopVars>>

(* The target writes a buffer, or unmaps it.                               *)
WriteBuf(b, x) ==
  /\ Op
  /\ x # buf[b]
  /\ buf' = [buf EXCEPT ![b] = x]
  /\ queue' = Overwrite(queue, b, x)
  /\ UNCHANGED <<slot, live, have, got, used, reused, loopVars>>

Target ==
  \/ \E t \in Threads :
       \/ \E b \in Bufs, r \in Refs : FindClass(t, b, r) \/ NewStringUTF(t, b, r)
       \/ \E k \in Handles, bn, bs \in Bufs, m \in Ids : GetMethodID(t, k, bn, bs, m)
       \/ \E x \in Handles, r \in Refs : GetObjectClass(t, x, r)
       \/ \E x \in Handles, b \in Bufs : GetStringUTFChars(t, x, b)
       \/ \E k, x \in Handles, m \in Ids, r \in Refs : NewObject(t, k, m, x, r)
       \/ \E x, y \in Handles, m \in Ids : CallMethod(t, x, m, y)
       \/ \E x \in Handles, g \in Globals : NewGlobalRef(t, x, g)
       \/ \E r \in Handles : DeleteRef(t, r)
  \/ \E b \in Bufs, x \in Written : WriteBuf(b, x)

-----------------------------------------------------------------------------
(* Reading the memory of the target, late.                                 *)
cstr(b) == IF mem THEN buf[b] ELSE None

validName(x) == x # None /\ x \notin Garbage
validSig(x)  == x # None /\ x \notin Garbage

resolveObj(v) == IF mem /\ v \in Refs THEN slot[v] ELSE None

(* What is shown: a number, a class name with its slashes as dots, an      *)
(* object of a class, a text in quotes.                                    *)
Hex(x)       == <<"0x", x>>
Dotted(n)    == <<"dotted", n>>
Quoted(x)    == <<"quoted", x>>
Instance(n, v) == <<"@", n, v>>
IsHex(s)     == s[1] = "0x"

classNameOfRef(v) ==
  LET obj == resolveObj(v) IN
  CASE obj = None /\ v \in DOMAIN classNames -> classNames[v]
    [] obj = None /\ v \notin DOMAIN classNames -> Hex(v)
    [] obj # None /\ obj \in DOMAIN nameByClass -> nameByClass[obj]
    [] OTHER -> IF ClassOf[obj] \in DOMAIN nameByClass THEN nameByClass[ClassOf[obj]]
                ELSE Hex(obj)

objClassName(v) ==
  IF v \in DOMAIN jstr THEN Quoted(jstr[v])
  ELSE LET n == classNameOfRef(v) IN IF IsHex(n) THEN n ELSE Instance(n, v)

(* describeCall: the class of the receiver, or else the class through      *)
(* which the id was got.                                                   *)
ClassOfCall(e) ==
  LET cls == classNameOfRef(e.a1) IN
  IF IsHex(cls) /\ e.a2 \in DOMAIN idClass THEN classNameOfRef(idClass[e.a2]) ELSE cls

(* The text of the last line, after the caches were fed.                   *)
Line(e, cls, name, val) == [rec |-> e, cls |-> cls, name |-> name, val |-> val]

describeCall(e) ==
  IF e.a2 \in DOMAIN idName
    THEN Line(e, ClassOfCall(e), idName[e.a2], objClassName(e.a3))
    ELSE Line(e, << >>, Hex(e.a2), << >>)

fmtRet(e) ==
  CASE e.fn \in {"FindClass", "GetObjectClass"} -> classNameOfRef(e.rc)
    [] e.fn = "GetMethodID" -> IF e.rc \in DOMAIN idName THEN idName[e.rc] ELSE Hex(e.rc)
    [] e.fn = "NewStringUTF" ->
         IF e.rc \in DOMAIN jstr THEN Quoted(jstr[e.rc]) ELSE classNameOfRef(e.rc)
    [] e.fn = "GetStringUTFChars" -> Quoted(cstr(e.rc))
    [] e.fn = "NewObject" -> objClassName(e.rc)

-----------------------------------------------------------------------------
(* The event loop.                                                         *)
Put(f, k, v) == [x \in DOMAIN f \cup {k} |-> IF x = k THEN v ELSE f[x]]

Taint(keys, bad) == (tainted \ keys) \cup (bad \ {None})

Read(e, kind) ==
  /\ queue # << >>
  /\ e = Head(queue) /\ e.kind = kind
  /\ queue' = Tail(queue)
  /\ UNCHANGED <<targetVars, mem>>

SkipRecord(e) ==
  /\ Read(e, e.kind)
  /\ e.tid \notin WatchTids
  /\ shown' = << >>
  /\ UNCHANGED <<cacheVars, tainted, torn>>

HandleCall(e) ==
  /\ Read(e, "call")
  /\ e.tid \in WatchTids
  /\ shown' = IF e.fn \in Visible THEN describeCall(e) ELSE << >>
  /\ UNCHANGED <<cacheVars, tainted, torn>>

(* Mutants of FeedGetMethodID: the arguments for name and signature are    *)
(* swapped; the id is filed under the address of its name.                 *)
FeedGetMethodIDSwapped(e) ==
  LET nm == cstr(e.a3)
      sg == cstr(e.a2)
      ok == validName(nm) /\ validSig(sg) IN
  /\ idName' = IF ok THEN Put(idName, e.rc, <<nm, sg>>) ELSE idName
  /\ idClass' = Put(idClass, e.rc, e.a1)
  /\ tainted' = IF ok THEN Taint({e.rc}, IF e.late THEN {e.rc} ELSE {}) ELSE tainted
  /\ torn' = IF e.late /\ ~ok THEN torn \cup {e.rc} ELSE torn
  /\ UNCHANGED <<classNames, nameByClass, objClass, jstr>>

FeedGetMethodIDClass(e) ==
  LET nm == cstr(e.a2)
      sg == cstr(e.a3)
      ok == validName(nm) /\ validSig(sg) IN
  /\ idName' = IF ok THEN Put(idName, e.rc, <<nm, sg>>) ELSE idName
  /\ idClass' = Put(idClass, e.rc, e.a2)
  /\ tainted' = IF ok THEN Taint({e.rc}, IF e.late THEN {e.rc} ELSE {}) ELSE tainted
  /\ torn' = IF e.late /\ ~ok THEN torn \cup {e.rc} ELSE torn
  /\ UNCHANGED <<classNames, nameByClass, objClass, jstr>>

(* GetMethodID, and alike GetStaticMethodID, GetFieldID, GetStaticFieldID. *)
FeedGetMethodID(e) ==
  LET nm == cstr(e.a2)
      sg == cstr(e.a3)
      ok == validName(nm) /\ validSig(sg) IN
  /\ idName' = IF ok THEN Put(idName, e.rc, <<nm, sg>>) ELSE idName
  /\ idClass' = Put(idClass, e.rc, e.a1)
  /\ tainted' = IF ok THEN Taint({e.rc}, IF e.late THEN {e.rc} ELSE {}) ELSE tainted
  /\ torn' = IF e.late /\ ~ok THEN torn \cup {e.rc} ELSE torn
  /\ UNCHANGED <<classNames, nameByClass, objClass, jstr>>

(* A mutant: the name is filed under the class of the class object.        *)
FeedFindClassDeref(e) ==
  LET nm  == cstr(e.a1)
      obj == resolveObj(e.rc)
      ok  == validName(nm) IN
  /\ classNames' = IF ok THEN Put(classNames, e.rc, Dotted(nm)) ELSE classNames
  /\ nameByClass' = IF ok /\ obj # None THEN Put(nameByClass, ClassOf[obj], Dotted(nm))
                    ELSE nameByClass
  /\ tainted' = IF ok THEN Taint({e.rc, obj}, (IF e.late THEN {e.rc, obj} ELSE {})
                                         \cup (IF obj # e.obj.rc THEN {obj} ELSE {}))
               ELSE tainted
  /\ UNCHANGED <<idName, idClass, objClass, jstr, torn>>

FeedFindClass(e) ==
  LET nm  == cstr(e.a1)
      obj == resolveObj(e.rc)
      ok  == validName(nm) IN
  /\ classNames' = IF ok THEN Put(classNames, e.rc, Dotted(nm)) ELSE classNames
  /\ nameByClass' = IF ok /\ obj # None THEN Put(nameByClass, obj, Dotted(nm)) ELSE nameByClass
  /\ tainted' = IF ok THEN Taint({e.rc, obj}, (IF e.late THEN {e.rc, obj} ELSE {})
                                         \cup (IF obj # e.obj.rc THEN {obj} ELSE {}))
               ELSE tainted
  /\ UNCHANGED <<idName, idClass, objClass, jstr, torn>>

(* GetObjectClass and NewObject: objClass is written here and nowhere read.*)
FeedObject(e) ==
  LET op == resolveObj(IF e.fn = "NewObject" THEN e.rc ELSE e.a1)
      cp == resolveObj(IF e.fn = "NewObject" THEN e.a1 ELSE e.rc) IN
  /\ objClass' = IF op # None /\ cp # None THEN Put(objClass, op, cp) ELSE objClass
  /\ UNCHANGED <<idName, idClass, classNames, nameByClass, jstr, tainted, torn>>

(* The text of a string, whatever it is: it is not tested.                 *)
FeedString(e) ==
  LET key == IF e.fn = "NewStringUTF" THEN e.rc ELSE e.a1
      txt == cstr(IF e.fn = "NewStringUTF" THEN e.a1 ELSE e.rc) IN
  /\ jstr' = Put(jstr, key, txt)
  /\ tainted' = Taint({key}, IF e.late THEN {key} ELSE {})
  /\ UNCHANGED <<idName, idClass, classNames, nameByClass, objClass, torn>>

Feed(e) ==
  \/ e.fn = "GetMethodID" /\ FeedGetMethodID(e)
  \/ e.fn = "FindClass" /\ FeedFindClass(e)
  \/ e.fn \in {"GetObjectClass", "NewObject"} /\ FeedObject(e)
  \/ e.fn \in {"GetStringUTFChars", "NewStringUTF"} /\ FeedString(e)

(* A mutant: the filters are asked before the caches are fed.              *)
handleReturnFiltered(e) ==
  /\ Read(e, "return")
  /\ e.tid \in WatchTids
  /\ IF mem /\ e.fn \in Visible THEN Feed(e) ELSE UNCHANGED <<cacheVars, tainted, torn>>
  /\ shown' = IF e.fn \in Visible THEN Line(e, << >>, << >>, fmtRet(e)') ELSE << >>

(* The caches are fed whether or not the call is shown.                    *)
handleReturn(e) ==
  /\ Read(e, "return")
  /\ e.tid \in WatchTids
  /\ IF mem THEN Feed(e) ELSE UNCHANGED <<cacheVars, tainted, torn>>
  /\ shown' = IF e.fn \in Visible THEN Line(e, << >>, << >>, fmtRet(e)') ELSE << >>

Loop == \E e \in {queue[i] : i \in DOMAIN queue} : SkipRecord(e) \/ HandleCall(e) \/ handleReturn(e)

Next == Target \/ Loop

Spec == Init /\ [][Next]_vars

-----------------------------------------------------------------------------
Map(f, K, V) == DOMAIN f \subseteq K /\ \A k \in DOMAIN f : f[k] \in V

(* Each cache maps what it says to what it says: ids to names and class    *)
(* references, references and classes to class names, strings to texts.    *)
TypeOK ==
  /\ slot \in [Handles -> Objects \cup {None}] /\ live \subseteq Handles
  /\ buf \in [Bufs -> Texts \cup {None}]
  /\ have \subseteq Ids /\ got \subseteq Ids /\ torn \subseteq Ids
  /\ queue \in Seq(Record) /\ mem \in BOOLEAN /\ nops \in 0..MaxOps
  /\ Map(idName, Ids, Texts \X Texts) /\ Map(idClass, Ids, Handles)
  /\ Map(classNames, Refs, {Dotted(n) : n \in Texts})
  /\ Map(nameByClass, Objects, {Dotted(n) : n \in Texts})
  /\ Map(objClass, Objects, Objects) /\ Map(jstr, Handles, Texts \cup {None})
  /\ used \subseteq Handles /\ reused \subseteq used
  /\ tainted \subseteq Handles \cup Objects \cup Ids

(* The ways to show the object o that a call had under the reference v.    *)
ClassTexts(v, o) ==
  {Hex(v), Hex(o), Dotted(NameOf[ClassOf[o]])}
    \cup (IF o \in Classes THEN {Dotted(NameOf[o])} ELSE {})

RefTexts(v, o) ==
  {Hex(v), Hex(o)} \cup {Instance(n, v) : n \in ClassTexts(v, o)}
    \cup (IF o \in Strings THEN {Quoted(TextOf[o])} ELSE {})

Excused(v, o) == {v, o, ClassOf[o]} \cap (reused \cup tainted) # {}

Shows(kind) == shown # << >> /\ shown.rec.kind = kind

(* A decoded call is shown with the name and the signature of the method   *)
(* that was called, however late it is shown and whatever became of the    *)
(* references since, unless the buffer of the name was rewritten before    *)
(* the return of GetMethodID was handled; and with the class of its        *)
(* receiver or the one through which the id was got, unless one of these   *)
(* references was given to another object.                                 *)
CallShownRight ==
  Shows("call") /\ shown.name # Hex(shown.rec.a2) =>
    LET e == shown.rec
        k == idClass[e.a2] IN
    /\ e.a2 \notin tainted => shown.name = <<IdName[e.a2], IdSig[e.a2]>>
    /\ ~Excused(e.a1, e.obj.a1) /\ ~Excused(k, Decl[e.a2]) =>
         shown.cls \in ClassTexts(e.a1, e.obj.a1) \cup ClassTexts(k, Decl[e.a2])

(* An argument or a result that is an object is shown as that object: its  *)
(* number, its class, or its text if it is a string.  Deleting the         *)
(* reference never makes it wrong, only giving it away again does.         *)
RefsShownRight ==
  /\ Shows("call") /\ shown.val # << >> =>
       LET e == shown.rec IN
       ~Excused(e.a3, e.obj.a3) => shown.val \in RefTexts(e.a3, e.obj.a3)
  /\ Shows("return") /\ shown.rec.obj.rc # None =>
       LET e == shown.rec IN
       ~Excused(e.rc, e.obj.rc) =>
         shown.val \in ClassTexts(e.rc, e.obj.rc) \cup RefTexts(e.rc, e.obj.rc)

(* README: ids `are only resolved for IDs obtained via GetMethodID while   *)
(* attached'; these are: if a watched thread got the id before the call,   *)
(* on this or another thread, the call is decoded, whatever the filters    *)
(* show, unless the buffers with its name were rewritten too soon.         *)
AttachedIdsKnown ==
  Shows("call") /\ shown.rec.got /\ mem /\ shown.rec.a2 \notin torn =>
    shown.name # Hex(shown.rec.a2)
=============================================================================
