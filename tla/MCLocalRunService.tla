--------------------------- MODULE MCLocalRunService ---------------------------
EXTENDS LocalRunService, TLC

Symmetric == Permutations(Runs) \cup Permutations(Clients)
===============================================================================
