----------------------------- MODULE TraceLoop -----------------------------
(***************************************************************************)
(* What a trace shows: the event loop of runProbe and handleReturn         *)
(* (loader/trace.go) with the filters (loader/filters.go), the goroutine   *)
(* that reads commands from the terminal and changes the filters while the *)
(* loop runs (applyCommand), and the ways in which a trace ends.           *)
(*                                                                         *)
(* The probes are ideal here: no record is lost and each return carries    *)
(* the depth of its own entry, which is what Pairing shows of a balanced   *)
(* thread.  The loop takes the lock of the filters twice for a line        *)
(* (matchSlot, matchLine), and a command may come in between.              *)
(*                                                                         *)
(* A JNI function is a slot.  An item of a list given to --only, --exclude *)
(* or --from stands for the set of the names it is a part of, possibly     *)
(* none, a regular expression for the set of the texts it matches, and the *)
(* text of a line for the words --grep may look for.                       *)
(***************************************************************************)
EXTENDS Integers, Sequences, FiniteSets, Functions

CONSTANTS
  Threads, Slots,
  CallSlots,   \* those that isCallMethod knows: Call*Method*, NewObject*
  AlwaysWatch, \* those whose returns feed the caches
  VoidSlots,   \* those that return nothing
  Cat,         \* slot -> its category
  CallWords,   \* slot -> words in the text of a call
  RetWords,    \* slot -> words in the text of a return value
  Modules,     \* modules a call may come from
  StartFilters, \* what --mode, --only, ... may be
  SlotLists, ModuleLists, Words, \* arguments of the commands
  NoReturns, Verbose, Count, \* flags
  MaxDepth,    \* --max-depth, 0 for no limit
  RunSec,      \* whether --run is given
  MaxCalls, MaxCmds \* bounds of the model

NoDepth == -1
None    == "none"
NoText  == 0

Filters ==
  [modes: SUBSET (Range(Cat) \cup {"all"}), only: SUBSET SUBSET Slots,
   exclude: SUBSET SUBSET Slots, from: SUBSET SUBSET Modules, grep: Words \cup {None},
   re: SUBSET SUBSET (Slots \X {"call", "name", "text"})]

ASSUME TraceAssumption ==
  /\ StartFilters \subseteq Filters
  /\ SlotLists \subseteq SUBSET SUBSET Slots /\ ModuleLists \subseteq SUBSET SUBSET Modules
  /\ CallSlots \subseteq Slots /\ AlwaysWatch \subseteq Slots /\ VoidSlots \subseteq Slots
  /\ NoReturns \in BOOLEAN /\ Verbose \in BOOLEAN /\ Count \in BOOLEAN /\ RunSec \in BOOLEAN
  /\ MaxDepth \in Nat /\ MaxCalls \in Nat /\ MaxCmds \in Nat

VARIABLES
  f,       \* the filters
  retSet,  \* slots with a return probe, fixed when the trace starts
  open,    \* per thread, its open calls, innermost last
  queue,   \* records not yet read
  frames,  \* (tid, depth) -> frame
  reader,  \* "open" or "closed"
  pc,      \* the loop: "read", "entry" and "return" between the two locks, "done";
           \* or the whole process: "exit", "crashed"
  cur,     \* << >> or what the loop works on between the two locks
  stats,   \* whether the terminal goroutine is iterating over counts
  ncalls,
  ncmds,   \* commands so far
  log      \* ghost: what was decided about each record, between which commands,
           \* and by which filters

targetVars == <<open, ncalls>>
loopVars   == <<frames, pc, cur, log>>
consoleVars == <<f, stats, ncmds>>
vars == <<f, retSet, open, queue, frames, reader, pc, cur, stats, ncalls, ncmds, log>>

Calls ==
  [id: 1..MaxCalls, tid: Threads, slot: Slots, mod: Modules \cup {None}, known: BOOLEAN,
   depth: Nat \cup {NoDepth}]

(* What the loop handles are calls of the target, between its two locks    *)
(* one at a time, and what it notes of them are numbers of calls and of    *)
(* commands.                                                               *)
TypeOK ==
  /\ f \in Filters /\ retSet \subseteq Slots
  /\ open \in [Threads -> Seq(Calls)]
  /\ queue \in Seq([kind: {"entry", "return"}, call: Calls])
  /\ DOMAIN frames \subseteq Threads \X Nat
  /\ \A k \in DOMAIN frames : frames[k] \in [call: Calls, text: 0..MaxCalls]
  /\ reader \in {"open", "closed"} /\ stats \in BOOLEAN
  /\ pc \in {"read", "entry", "return", "done", "exit", "crashed"}
  /\ pc \in {"entry", "return"} => Len(cur) = 1 /\ cur[1].call \in Calls /\ cur[1].since \in 0..ncmds
  /\ pc = "return" => cur[1].frame \in [call: Calls, text: 1..MaxCalls]
  /\ ncalls \in 0..MaxCalls /\ ncmds \in 0..MaxCmds
  /\ log \subseteq [kind: {"entry", "return"}, call: Calls, text: 0..MaxCalls, shown: BOOLEAN,
                    since: 0..ncmds, until: 0..ncmds, by: Filters]

-----------------------------------------------------------------------------
(* The filters.                                                            *)
MatchSlot(g, s) ==
  /\ IF g.only # {} THEN s \in UNION g.only ELSE "all" \in g.modes \/ Cat[s] \in g.modes
  /\ s \notin UNION g.exclude

(* The class and method that a line is matched against: a call has the     *)
(* same in both of its lines; another function has its name in the first   *)
(* and, cut at the last dot, the text of the call in the second.           *)
ReText(s, kind) == IF s \in CallSlots THEN <<s, "call">> ELSE <<s, kind>>

MatchLine(g, s, kind, words, mod) ==
  /\ g.grep = None \/ g.grep \in words
  /\ \A x \in g.re : ReText(s, kind) \in x
  /\ g.from = {} \/ mod \in UNION g.from

TooDeep(d) == MaxDepth > 0 /\ d > MaxDepth

(* What gets a return probe, by the filters of the command line.           *)
RetSet(g) ==
  {s \in Slots : s \in AlwaysWatch \/ (~NoReturns /\ s \notin VoidSlots /\ MatchSlot(g, s))}

-----------------------------------------------------------------------------
Init ==
  /\ f \in StartFilters
  /\ retSet = RetSet(f)
  /\ open = [t \in Threads |-> << >>]
  /\ queue = << >>
  /\ frames = [k \in {} |-> None]
  /\ reader = "open" /\ pc = "read" /\ cur = << >>
  /\ stats = FALSE
  /\ ncalls = 0 /\ ncmds = 0
  /\ log = {}

Running == pc \notin {"done", "exit", "crashed"}

(* A thread calls slot s from module mod; known says whether the cache     *)
(* will have the method id when the loop describes the call.  The depth is *)
(* the number of open calls with a return probe.                           *)
Call(t, s, mod, known) ==
  LET tracked == {i \in DOMAIN open[t] : open[t][i].slot \in retSet}
      c == [id |-> ncalls + 1, tid |-> t, slot |-> s, mod |-> mod, known |-> known,
            depth |-> IF s \in retSet THEN Cardinality(tracked) ELSE NoDepth] IN
  /\ Running /\ ncalls < MaxCalls
  /\ s \notin CallSlots => known
  /\ ncalls' = ncalls + 1
  /\ open' = [open EXCEPT ![t] = Append(@, c)]
  /\ queue' = Append(queue, [kind |-> "entry", call |-> c])
  /\ UNCHANGED <<retSet, loopVars, reader, consoleVars>>

Return(t) ==
  LET n == Len(open[t]) IN
  /\ Running /\ n > 0
  /\ open' = [open EXCEPT ![t] = SubSeq(@, 1, n - 1)]
  /\ queue' = IF open[t][n].slot \in retSet
                THEN Append(queue, [kind |-> "return", call |-> open[t][n]]) ELSE queue
  /\ UNCHANGED <<retSet, ncalls, loopVars, reader, consoleVars>>

-----------------------------------------------------------------------------
Put(g, k, v) == [x \in DOMAIN g \cup {k} |-> IF x = k THEN v ELSE g[x]]

(* A mutant: the frame is found and stays.                                 *)
DeleteNothing(g, k) == g

Delete(g, k) == [x \in DOMAIN g \ {k} |-> g[x]]

(* A mutant: the depth is counted without the call itself.                 *)
KeyOuter(c) == <<c.tid, c.depth - 1>>

Key(c) == <<c.tid, c.depth>>

Log(kind, c, text, shown, since) ==
  log' = log \cup {[kind |-> kind, call |-> c, text |-> text, shown |-> shown,
                    since |-> since, until |-> ncmds, by |-> f]}

ReadRecord(kind) ==
  /\ pc = "read" /\ reader = "open"
  /\ queue # << >> /\ Head(queue).kind = kind
  /\ queue' = Tail(queue)
  /\ UNCHANGED <<retSet, targetVars, reader, consoleVars>>

(* A mutant: the text of every entry is set at once.                       *)
ReadEntryText ==
  LET c == Head(queue).call IN
  /\ ReadRecord("entry")
  /\ frames' = Put(frames, <<c.tid, IF c.depth >= 0 THEN c.depth ELSE 0>>, [call |-> c, text |-> c.id])
  /\ IF MatchSlot(f, c.slot) /\ ~TooDeep(c.depth)
       THEN /\ pc' = "entry" /\ cur' = <<[call |-> c, since |-> ncmds]>>
            /\ UNCHANGED log
       ELSE /\ UNCHANGED <<pc, cur>>
            /\ Log("entry", c, c.id, FALSE, ncmds)

(* An entry: open a frame, which has its text already unless it is a call, *)
(* then matchSlot and --max-depth.                                         *)
ReadEntry ==
  LET c == Head(queue).call IN
  /\ ReadRecord("entry")
  /\ frames' = IF c.slot \in retSet /\ c.depth >= 0
                 THEN Put(frames, Key(c), [call |-> c, text |-> IF c.slot \in CallSlots THEN NoText ELSE c.id])
                 ELSE frames
  /\ IF MatchSlot(f, c.slot) /\ ~TooDeep(c.depth)
       THEN /\ pc' = "entry" /\ cur' = <<[call |-> c, since |-> ncmds]>>
            /\ UNCHANGED log
       ELSE /\ UNCHANGED <<pc, cur>>
            /\ Log("entry", c, c.id, FALSE, ncmds)

(* emit.  With --count it writes the map that `stats' may be iterating     *)
(* over, which the Go runtime may or may not notice; it aborts if it does. *)
Emit(shown) ==
  \/ pc' = "read"
  \/ shown /\ Count /\ stats /\ pc' = "crashed"

(* A mutant: the text of a call does not get into its frame.               *)
EntryLineNoText ==
  LET c == cur[1].call
      shown == /\ c.known \/ Verbose
               /\ MatchLine(f, c.slot, "name", CallWords[c.slot], c.mod) IN
  /\ pc = "entry"
  /\ Emit(shown)
  /\ Log("entry", c, c.id, shown, cur[1].since)
  /\ cur' = << >>
  /\ UNCHANGED <<retSet, targetVars, queue, frames, reader, consoleVars>>

(* The rest of an entry: the text of a call goes into its frame, and       *)
(* matchLine decides.                                                      *)
EntryLine ==
  LET c == cur[1].call
      shown == /\ c.known \/ Verbose
               /\ MatchLine(f, c.slot, "name", CallWords[c.slot], c.mod) IN
  /\ pc = "entry"
  /\ frames' = IF c.slot \in CallSlots /\ Key(c) \in DOMAIN frames
                 THEN [frames EXCEPT ![Key(c)].text = c.id] ELSE frames
  /\ Emit(shown)
  /\ Log("entry", c, c.id, shown, cur[1].since)
  /\ cur' = << >>
  /\ UNCHANGED <<retSet, targetVars, queue, reader, consoleVars>>

(* A mutant: --max-depth is not applied to returns.                        *)
ReadReturnDeep ==
  LET c == Head(queue).call IN
  /\ ReadRecord("return")
  /\ frames' = Delete(frames, Key(c))
  /\ IF /\ Key(c) \in DOMAIN frames
        /\ MatchSlot(f, frames[Key(c)].call.slot)
        /\ frames[Key(c)].text # NoText
       THEN /\ pc' = "return"
            /\ cur' = <<[call |-> c, since |-> ncmds, frame |-> frames[Key(c)]]>>
            /\ UNCHANGED log
       ELSE /\ UNCHANGED <<pc, cur>>
            /\ Log("return", c, NoText, FALSE, ncmds)

(* handleReturn: find and delete the frame (what feeds the caches is left  *)
(* out), then matchSlot, whether the frame has a text, and --max-depth.    *)
ReadReturn ==
  LET c == Head(queue).call IN
  /\ ReadRecord("return")
  /\ frames' = Delete(frames, Key(c))
  /\ IF /\ Key(c) \in DOMAIN frames
        /\ MatchSlot(f, frames[Key(c)].call.slot)
        /\ frames[Key(c)].text # NoText
        /\ ~TooDeep(c.depth)
       THEN /\ pc' = "return"
            /\ cur' = <<[call |-> c, since |-> ncmds, frame |-> frames[Key(c)]]>>
            /\ UNCHANGED log
       ELSE /\ UNCHANGED <<pc, cur>>
            /\ Log("return", c, NoText, FALSE, ncmds)

ReturnLine ==
  LET g == cur[1].frame.call
      shown == MatchLine(f, g.slot, "text", CallWords[g.slot] \cup RetWords[g.slot], g.mod) IN
  /\ pc = "return"
  /\ Emit(shown)
  /\ Log("return", cur[1].call, cur[1].frame.text, shown, cur[1].since)
  /\ cur' = << >>
  /\ UNCHANGED <<retSet, targetVars, queue, frames, reader, consoleVars>>

(* A mutant: `continue' instead of `break'.                                *)
DoneAgain ==
  /\ pc = "read" /\ reader = "closed"
  /\ UNCHANGED vars

(* rd.Read fails on a closed reader, even if records are left.             *)
Done ==
  /\ pc = "read" /\ reader = "closed"
  /\ pc' = "done"
  /\ UNCHANGED <<retSet, targetVars, queue, frames, reader, cur, log, consoleVars>>

-----------------------------------------------------------------------------
(* Ctrl-C, or the timer of --run; each ends in rd.Close, which may be      *)
(* called twice.                                                           *)
CloseReader ==
  /\ Running
  /\ reader' = "closed"
  /\ UNCHANGED <<retSet, targetVars, queue, loopVars, consoleVars>>

Signal == CloseReader /\ reader = "open"

Timer == RunSec /\ CloseReader /\ reader = "open"

(* applyCommand, on a goroutine of its own.                                *)
Command(g) ==
  /\ Running /\ ~stats /\ ncmds < MaxCmds
  /\ f' = g
  /\ ncmds' = ncmds + 1
  /\ UNCHANGED <<retSet, targetVars, queue, loopVars, reader, stats>>

CmdOnly    == \E l \in SlotLists : Command([f EXCEPT !.only = l])
CmdExclude == \E l \in SlotLists : Command([f EXCEPT !.exclude = l])
CmdFrom    == \E l \in ModuleLists : Command([f EXCEPT !.from = l])
CmdGrep    == \E w \in Words \cup {None} : Command([f EXCEPT !.grep = w])
CmdMode    == \E m \in SUBSET (Range(Cat) \cup {"all"}) : Command([f EXCEPT !.modes = m])
CmdClear   == Command([modes |-> {"all"}, only |-> {}, exclude |-> {}, from |-> {},
                       grep |-> None, re |-> {}])

(* counts holds the lines that emit got, if --count is given; printStats   *)
(* returns at once when there are none.                                    *)
Counted == Count /\ \E r \in log : r.shown

StatsBegin ==
  /\ Running /\ ~stats /\ ncmds < MaxCmds
  /\ stats' = Counted
  /\ ncmds' = ncmds + 1
  /\ UNCHANGED <<f, retSet, targetVars, queue, loopVars, reader>>

StatsEnd ==
  /\ Running /\ stats
  /\ stats' = FALSE
  /\ UNCHANGED <<f, retSet, targetVars, queue, loopVars, reader, ncmds>>

Quit ==
  /\ Running /\ ~stats /\ ncmds < MaxCmds
  /\ pc' = "exit"
  /\ ncmds' = ncmds + 1
  /\ UNCHANGED <<f, retSet, targetVars, queue, frames, reader, cur, log, stats>>

Loop == ReadEntry \/ EntryLine \/ ReadReturn \/ ReturnLine \/ Done

Console ==
  \/ CmdOnly \/ CmdExclude \/ CmdFrom \/ CmdGrep \/ CmdMode \/ CmdClear
  \/ StatsBegin \/ StatsEnd \/ Quit

Target ==
  \E t \in Threads :
    \/ Return(t)
    \/ \E s \in Slots, mod \in Modules \cup {None}, known \in BOOLEAN : Call(t, s, mod, known)

Next == Target \/ Loop \/ Console \/ Signal \/ Timer

Spec == Init /\ [][Next]_vars

(* The loop waits for records only, and the sleep of --run ends.           *)
FairSpec == Spec /\ WF_vars(Loop) /\ WF_vars(Timer)

-----------------------------------------------------------------------------
Unreturned ==
  (UNION {Range(open[t]) : t \in Threads}) \cup
    {e.call : e \in {x \in Range(queue) : x.kind = "return"}}

Unread == {e.call : e \in {x \in Range(queue) : x.kind = "entry"}}

(* frames holds the calls that have been read entering and not yet         *)
(* returning, each under its own depth: nothing leaks and nothing is       *)
(* missing, whatever the filters hide and whenever they change.            *)
FramesAreOpenCalls ==
  /\ \A k \in DOMAIN frames : Key(frames[k].call) = k
  /\ {frames[k].call : k \in DOMAIN frames} =
       {c \in Unreturned \ Unread : c.slot \in retSet}

(* The second line of a call shows the text of that call.                  *)
ReturnShowsItsCall ==
  \A r \in log : r.kind = "return" /\ r.shown => r.text = r.call.id

(* With no command in between, `-> call' and `<- call = ret' come together:*)
(* the second line is shown if the first was, and the first was if the     *)
(* second is; save for a call that only its return value or -v lets pass,  *)
(* and for a regular expression that sees another text in each.            *)
LinesComeInPairs ==
  \A e, r \in log :
    (/\ e.kind = "entry" /\ r.kind = "return" /\ e.call = r.call /\ e.since = r.until
     /\ r.by.re = {} \/ r.call.slot \in CallSlots)
    => /\ e.shown => r.shown
       /\ (/\ r.shown
           /\ r.call.known \/ Verbose
           /\ r.by.grep \notin RetWords[r.call.slot] \ CallWords[r.call.slot]) => e.shown

(* --run: `run N seconds then exit'.                                       *)
RunEnds == RunSec => <>~Running

(* `stats' may be typed while the trace goes on.                           *)
StatsSafe == pc # "crashed"
=============================================================================
