------------------------------ MODULE MCPhase ------------------------------
EXTENDS Phase
CONSTANTS t1, t2
TwoTasks == <<t1, t2>>
=============================================================================
