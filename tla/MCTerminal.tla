------------------------------ MODULE MCTerminal ------------------------------
EXTENDS Terminal
Symmetry == Permutations(Tabs)
=============================================================================
