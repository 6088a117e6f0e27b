--------------------------- MODULE MC_HeapLarge ---------------------------
(* Blocks of one unit: more of them than the budget and one per thread.    *)
EXTENDS HeapLarge, TLC

Lengths == [b \in Blocks |-> 1]

Symmetry == Permutations(Threads) \cup Permutations(Blocks)
=============================================================================
