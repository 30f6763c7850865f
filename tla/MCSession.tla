---- MODULE MCSession ----
(* Model checking Session: every life of up to four hooks with one tool    *)
(* call, one question and one subagent, delivered in every order, and what *)
(* the server notices by itself beside three hooks, or twice beside two.   *)
EXTENDS Session
====
