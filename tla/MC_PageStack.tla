--------------------------- MODULE MC_PageStack ---------------------------
(* Three threads over two entries: enough for a pop to sleep while others  *)
(* pop its entry and push it back (the ABA case) with a chain below it.    *)
EXTENDS PageStack, TLC

Symmetry == Permutations(Threads) \cup Permutations(Entries)
=============================================================================
