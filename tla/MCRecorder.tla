---- MODULE MCRecorder ----
(* Model checking Recorder: two meetings, so that one can be lost or       *)
(* stopped while another is started or found.                              *)
EXTENDS Recorder
====
