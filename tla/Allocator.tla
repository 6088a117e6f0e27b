----------------------------- MODULE Allocator -----------------------------
(***************************************************************************)
(* What an allocator promises the program: a block it hands out is not one *)
(* the program still holds, and the program keeps a block until it frees   *)
(* it.  holders[b] counts how often block b is handed out.                 *)
(***************************************************************************)
EXTENDS Naturals

CONSTANT AllBlocks

VARIABLE holders

Init == holders = [b \in AllBlocks |-> 0]

Alloc(b) == holders[b] = 0 /\ holders' = [holders EXCEPT ![b] = 1]

Free(b) == holders[b] = 1 /\ holders' = [holders EXCEPT ![b] = 0]

Next == \E b \in AllBlocks : Alloc(b) \/ Free(b)

Spec == Init /\ [][Next]_holders
=============================================================================
