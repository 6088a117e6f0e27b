-------------------------- MODULE MC_SizeClasses --------------------------
(* Every size up to two powers of two above the table, the sizes around    *)
(* the larger classes, and those around unit boundaries of the large       *)
(* region.                                                                 *)
EXTENDS SizeClasses

LargeEdges == {u * LARGE_UNIT - PAGE_HEADER + d : u \in {1, 2, 64}, d \in {0, 1}}

ClassEdges == {BlockSize(c) + d : c \in Classes, d \in {-1, 0, 1}}

AllSizes == 1..4100 \cup ClassEdges \cup LargeEdges

EdgeSizes == LargeEdges \cup {1, 9, 1024, 1025, MAX_POOL, MAX_POOL + 1}
=============================================================================
