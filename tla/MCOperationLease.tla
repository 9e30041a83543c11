--------------------------- MODULE MCOperationLease ---------------------------
EXTENDS OperationLease, TLC

CONSTANTS p1, p2, p3

Symmetry == Permutations(Proc) \cup Permutations(OpId) \cup Permutations(Token)
===============================================================================
