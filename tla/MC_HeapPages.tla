--------------------------- MODULE MC_HeapPages ---------------------------
EXTENDS HeapPages, TLC

Symmetry == Permutations(Threads) \cup Permutations(Pages) \cup Permutations(Classes)
=============================================================================
