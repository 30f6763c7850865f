---------------------------- MODULE FeedPromise ----------------------------
(***************************************************************************)
(* What the deck promises about hook events, without a word on sockets,    *)
(* spools, buffers or replays: the log only grows, by events it does not   *)
(* hold yet, and what a tab shows is always the log up to some event,      *)
(* never goes back, and catches up.                                        *)
(***************************************************************************)
EXTENDS Integers, Sequences, SequencesExt

VARIABLES
  log,    (* the events applied, in order                                   *)
  shown   (* positions of the log a tab reflects                            *)

Init == IsInjective(log) /\ shown = {}

Grow ==
  /\ IsStrictPrefix(log, log') /\ IsInjective(log')
  /\ UNCHANGED shown

CatchUp ==
  /\ \E n \in 1..Len(log): /\ n \notin shown
                           /\ shown' = 1..n
  /\ UNCHANGED log

Safety == Init /\ [][Grow \/ CatchUp]_<<log, shown>>

Spec == Safety /\ WF_<<log, shown>>(CatchUp)
=============================================================================
