------------------------------ MODULE MCSessions ------------------------------
EXTENDS Sessions
Symmetry == Permutations(Client)
=============================================================================
