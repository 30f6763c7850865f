------------------------------- MODULE MCAsk -------------------------------
(* Model checking Ask: three asks of three threads, two runs at a time, so *)
(* that one waits.                                                         *)
EXTENDS Ask, TLC
CONSTANTS m1, m2, m3
ThreadsOfAsks == (m1 :> 1) @@ (m2 :> 2) @@ (m3 :> 3)
=============================================================================
