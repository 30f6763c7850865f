-------------------------- MODULE MCWorkflowStep --------------------------
(* WorkflowStep with two controllers and a few attempts.                   *)
EXTENDS WorkflowStep, TLC
Symmetry == Permutations(Controllers)
=============================================================================
