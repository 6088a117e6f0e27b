------------------------ MODULE MC_HeapReservation ------------------------
(* Two mappings for the threads to race with: the base of the first is    *)
(* aligned to a medium page, that of the second only to a large unit.      *)
EXTENDS HeapReservation, TLC

Symmetry == Permutations(Threads)

TwoMappings == {<<5, 36>>, <<57, 36>>}

Addresses == {0, 4, 7, 8, 44, 45, 56, 57, 60, 95, 96, 140}
=============================================================================
