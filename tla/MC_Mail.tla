-------------------------------- MODULE MC_Mail --------------------------------
EXTENDS Mail, TLC

CONSTANTS c1, c2, fabian, lars

Symmetry == Permutations(Callers) \cup Permutations(Numbers)
=============================================================================
