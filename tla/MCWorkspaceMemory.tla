------------------------- MODULE MCWorkspaceMemory -------------------------
EXTENDS WorkspaceMemory, TLC

CONSTANTS c1, c2, c3, c4, k1, k2

Interchangeable == Permutations(Calls) \cup Permutations(Contacts)
=============================================================================
