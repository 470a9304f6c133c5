------------------------------ MODULE MCEditor ------------------------------
EXTENDS Editor, TLC

Symmetry == Permutations(Docs) \cup Permutations(Saves)
=============================================================================
