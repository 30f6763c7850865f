---- MODULE MCDeliver ----
(* Model checking Deliver: three answers, so that a Try again follows an   *)
(* answer that did not land and is itself followed by another, with and    *)
(* without a crash.                                                        *)
EXTENDS Deliver
====
