--------------------------- MODULE PairingRefines ---------------------------
(***************************************************************************)
(* Pairing implements CallTrace.  The return of a call waits from the      *)
(* moment up_ret submits its record until the loop reads it, and is read   *)
(* at the position of the record.                                          *)
(***************************************************************************)
EXTENDS PairingInv

ReturnsAt == {p \in cons..(prod - 1) : ring[p].kind = "return" /\ ring[p].state = "ready"}

Waiting == {[ticket |-> p, tid |-> ring[p].tid, call |-> ring[p].call] : p \in ReturnsAt}

LossyCalls == INSTANCE CallTrace WITH
  Lossy <- TRUE, Watched <- WatchTids, Numbers <- Calls,
  made <- ncalls, open <- rets, broken <- skewed, excused <- stray,
  waiting <- Waiting, shown <- reports

ExactCalls == INSTANCE CallTrace WITH
  Lossy <- FALSE, Watched <- WatchTids, Numbers <- Calls,
  made <- ncalls, open <- rets, broken <- skewed, excused <- stray,
  waiting <- Waiting, shown <- reports

(* Whatever is lost, a trace implements the lossy CallTrace: returns of a  *)
(* thread are handled in order, and each is joined with its own entry or   *)
(* with none until that very thread lost something.                        *)
LossyTrace == LossyCalls!Spec

(* A trace that loses nothing (the target waits for the probes, which can  *)
(* all be attached, and no buffer or map overflows) implements the exact   *)
(* one: every return is joined with its entry.                             *)
ExactTrace == ExactCalls!Spec
=============================================================================
