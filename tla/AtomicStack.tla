---------------------------- MODULE AtomicStack ----------------------------
(***************************************************************************)
(* What a pool of free entries promises the page and large-block code: a   *)
(* LIFO of entries nobody uses, from which a thread takes the top entry    *)
(* for itself and to which it gives an entry back, each in one step.       *)
(***************************************************************************)
EXTENDS Sequences

CONSTANTS Threads, Entries

VARIABLES stack,  \* free entries, top first
          held    \* [Threads -> SUBSET Entries], entries a thread owns

vars == <<stack, held>>

Init ==
    /\ stack = <<>>
    /\ held \in [Threads -> SUBSET Entries]
    /\ \A t, u \in Threads : t # u => held[t] \cap held[u] = {}

Push(t, e) ==
    /\ e \in held[t]
    /\ stack' = <<e>> \o stack
    /\ held' = [held EXCEPT ![t] = @ \ {e}]

Pop(t) ==
    /\ stack # <<>>
    /\ stack' = Tail(stack)
    /\ held' = [held EXCEPT ![t] = @ \cup {Head(stack)}]

Next == \E t \in Threads : Pop(t) \/ \E e \in Entries : Push(t, e)

Spec == Init /\ [][Next]_vars
=============================================================================
