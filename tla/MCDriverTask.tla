---- MODULE MCDriverTask ----
(* Model checking DriverTask: enough attempts for a first run, a refusal   *)
(* and a fix round with a crash in each, and one ref move by somebody      *)
(* else.                                                                   *)
EXTENDS DriverTask
====
