---- MODULE MCDriverLock ----
(* Model checking DriverLock: four pids, so that a stale holder, a         *)
(* takeover, a second takeover and a fresh dispatch can overlap.           *)
EXTENDS DriverLock, TLC

Symmetry == Permutations(Pids)
====
