----------------------------- MODULE CallTrace -----------------------------
(***************************************************************************)
(* What a trace of calls promises, without probes, depths, frames or a     *)
(* ring buffer: on each thread calls open and close like brackets, each    *)
(* return waits to be read, and the returns of a thread are shown in their *)
(* order, each with the entry of its own call.                             *)
(*                                                                         *)
(* A lossy trace may lose an entry or a return.  Nothing is promised of    *)
(* the later returns of that thread; a return on any other thread is shown *)
(* with its own entry or not at all.                                       *)
(***************************************************************************)
EXTENDS Integers, Sequences

CONSTANTS
  Threads,
  Watched,   \* the threads whose returns are shown
  Numbers,   \* the calls, in the order in which they are made
  Lossy      \* whether anything can be lost

VARIABLES
  made,     \* how many calls were made
  open,     \* per thread, the calls whose return will be seen, innermost last
  broken,   \* the threads that lost something
  excused,  \* the calls that returned on such a thread
  waiting,  \* the returns to be read, in the order of their tickets
  shown     \* the returns shown, each with the call of the entry, 0 for none

vars == <<made, open, broken, excused, waiting, shown>>

Init ==
  /\ made = 0
  /\ open = [t \in Threads |-> << >>]
  /\ broken = {} /\ excused = {}
  /\ waiting = {} /\ shown = {}

Innermost(t) == open[t][Len(open[t])]

Close(t) ==
  /\ open[t] # << >>
  /\ open' = [open EXCEPT ![t] = SubSeq(@, 1, Len(@) - 1)]

(* A call is made; it may be of a function whose return nobody wants.      *)
Enter(t) ==
  /\ made' = made + 1
  /\ open' \in {open, [open EXCEPT ![t] = Append(@, made + 1)]}
  /\ \/ broken' = broken
     \/ Lossy /\ broken' = broken \cup {t}
  /\ UNCHANGED <<excused, waiting, shown>>

Excuse(t) ==
  /\ t \in broken
  /\ open[t] # << >>
  /\ excused' = excused \cup {Innermost(t)}
  /\ UNCHANGED <<made, open, broken, waiting, shown>>

Leave(t) ==
  /\ Close(t)
  /\ t \in broken => Innermost(t) \in excused
  /\ \E w \in waiting' :
       /\ waiting' = waiting \cup {w}
       /\ w.tid = t /\ w.call = Innermost(t)
       /\ \A v \in waiting : v.tid = t => v.ticket < w.ticket
  /\ UNCHANGED <<made, broken, excused, shown>>

Lose(t) ==
  /\ Lossy
  /\ Close(t)
  /\ broken' = broken \cup {t}
  /\ UNCHANGED <<made, excused, waiting, shown>>

(* The entries that a return may be shown with.                            *)
Entries(c) ==
  IF c \in excused THEN Numbers \cup {0} ELSE IF Lossy THEN {c, 0} ELSE {c}

Show(t) ==
  \E w \in waiting :
    /\ w.tid = t
    /\ \A v \in waiting : v.tid = t => w.ticket <= v.ticket
    /\ waiting' = waiting \ {w}
    /\ IF t \in Watched
         THEN \E c \in Entries(w.call) :
                shown' = shown \cup {[tid |-> t, call |-> w.call, entry |-> c]}
         ELSE shown' = shown
    /\ UNCHANGED <<made, open, broken, excused>>

Next == \E t \in Threads : Enter(t) \/ Excuse(t) \/ Leave(t) \/ Lose(t) \/ Show(t)

Spec == Init /\ [][Next]_vars
=============================================================================
