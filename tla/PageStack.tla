----------------------------- MODULE PageStack -----------------------------
(***************************************************************************)
(* The lock-free LIFO of free 64 KiB entries (`PageStack` in region.rs):   *)
(* a head word packing the top entry with a version, and one link word per *)
(* entry.  Each action is one atomic access of the code; `compare_exchange *)
(* _weak` may fail spuriously.  Any number of threads push and pop.        *)
(*                                                                         *)
(* An operator named ...Bug is the operator after it with a mistake such   *)
(* code could have; the properties are checked to notice it.  No           *)
(* specification uses one.                                                 *)
(***************************************************************************)
EXTENDS Naturals, FiniteSets

CONSTANTS
    Threads,
    Entries,         \* the entries that circulate through this stack
    Nil,             \* index 0: the empty stack, the end of a chain
    VersionModulus   \* values of the version part of the head, 2^40 in the code

ASSUME ThreadsAssumption == IsFiniteSet(Threads)
ASSUME EntriesAssumption == IsFiniteSet(Entries) /\ Nil \notin Entries
ASSUME ModulusAssumption == VersionModulus \in Nat \ {0, 1}

VARIABLES
    head,    \* [version, index], the AtomicUsize `head`
    count,   \* the AtomicUsize `count`
    link,    \* [Entries -> index], the `stack_link` word of each entry
    held,    \* [Threads -> SUBSET Entries], entries their caller owns
    pc,      \* the next atomic access of each thread
    entry,   \* the argument of a push in progress
    snap,    \* the head word a thread last read
    next     \* the link a pop last read

vars == <<head, count, link, held, pc, entry, snap, next>>

Index == Entries \cup {Nil}
Heads == [version : 0..(VersionModulus - 1), index : Index]

(* Threads between reading the head and their next compare-exchange.       *)
InFlight(t) == pc[t] \in {"push_link", "push_cas", "pop_link", "pop_cas"}

SuccessorBug(h, i) == [version |-> h.version, index |-> i]

Successor(h, i) == [version |-> (h.version + 1) % VersionModulus, index |-> i]

Goto(t, label) == pc' = [pc EXCEPT ![t] = label]
----------------------------------------------------------------------------
(* Every entry has been carved by some thread and nothing is pooled yet;   *)
(* the link words are the zero pages of the fresh mapping.                 *)
Init ==
    /\ head = [version |-> 0, index |-> Nil]
    /\ count = 0
    /\ link = [e \in Entries |-> Nil]
    /\ \E carver \in [Entries -> Threads] :
           held = [t \in Threads |-> {e \in Entries : carver[e] = t}]
    /\ pc = [t \in Threads |-> "idle"]
    /\ entry = [t \in Threads |-> Nil]
    /\ snap = [t \in Threads |-> head]
    /\ next = [t \in Threads |-> Nil]

PushBeginBug(t, e) ==
    /\ pc[t] = "idle"
    /\ e \in held[t]
    /\ entry' = [entry EXCEPT ![t] = e]
    /\ Goto(t, "push_load")
    /\ UNCHANGED <<head, count, link, held, snap, next>>

(* push: `count.fetch_add`.                                                *)
PushBegin(t, e) ==
    /\ pc[t] = "idle"
    /\ e \in held[t]
    /\ entry' = [entry EXCEPT ![t] = e]
    /\ count' = count + 1
    /\ Goto(t, "push_load")
    /\ UNCHANGED <<head, link, held, snap, next>>

PushLoad(t) ==
    /\ pc[t] = "push_load"
    /\ snap' = [snap EXCEPT ![t] = head]
    /\ Goto(t, "push_link")
    /\ UNCHANGED <<head, count, link, held, entry, next>>

PushLink(t) ==
    /\ pc[t] = "push_link"
    /\ link' = [link EXCEPT ![entry[t]] = snap[t].index]
    /\ Goto(t, "push_cas")
    /\ UNCHANGED <<head, count, held, entry, snap, next>>

PushCas(t) ==
    /\ pc[t] = "push_cas"
    /\ \/ /\ head = snap[t]
          /\ head' = Successor(snap[t], entry[t])
          /\ held' = [held EXCEPT ![t] = @ \ {entry[t]}]
          /\ Goto(t, "idle")
          /\ UNCHANGED snap
       \/ /\ snap' = [snap EXCEPT ![t] = head]
          /\ Goto(t, "push_link")
          /\ UNCHANGED <<head, held>>
    /\ UNCHANGED <<count, link, entry, next>>

(* pop: an empty head ends the loop, whether it was loaded first or came   *)
(* from a failed compare-exchange.                                         *)
PopLoad(t) ==
    /\ pc[t] = "idle"
    /\ snap' = [snap EXCEPT ![t] = head]
    /\ Goto(t, IF head.index = Nil THEN "idle" ELSE "pop_link")
    /\ UNCHANGED <<head, count, link, held, entry, next>>

PopLink(t) ==
    /\ pc[t] = "pop_link"
    /\ next' = [next EXCEPT ![t] = link[snap[t].index]]
    /\ Goto(t, "pop_cas")
    /\ UNCHANGED <<head, count, link, held, entry, snap>>

PopCas(t) ==
    /\ pc[t] = "pop_cas"
    /\ \/ /\ head = snap[t]
          /\ head' = Successor(snap[t], next[t])
          /\ held' = [held EXCEPT ![t] = @ \cup {snap[t].index}]
          /\ Goto(t, "pop_count")
          /\ UNCHANGED snap
       \/ /\ snap' = [snap EXCEPT ![t] = head]
          /\ Goto(t, IF head.index = Nil THEN "idle" ELSE "pop_link")
          /\ UNCHANGED <<head, held>>
    /\ UNCHANGED <<count, link, entry, next>>

(* pop: `count.fetch_sub`, then the entry is returned.                     *)
PopCount(t) ==
    /\ pc[t] = "pop_count"
    /\ count' = count - 1
    /\ Goto(t, "idle")
    /\ UNCHANGED <<head, link, held, entry, snap, next>>

Step(t) ==
    \/ \E e \in Entries : PushBegin(t, e)
    \/ PushLoad(t) \/ PushLink(t) \/ PushCas(t)
    \/ PopLoad(t) \/ PopLink(t) \/ PopCas(t) \/ PopCount(t)

(* An assumption on scheduling, which the code relies on and nothing in it *)
(* enforces: no thread stays between reading the head and its              *)
(* compare-exchange while the version goes all the way round, 2^40 updates *)
(* of the head in the code, to the value it read.  A thread that did would *)
(* install a stale link, and ExclusiveOwnership would fail.                *)
NoFullWrap ==
    head' # head =>
        \A u \in Threads :
            InFlight(u) => snap[u].version # (head.version + 1) % VersionModulus

Next == (\E t \in Threads : Step(t)) /\ NoFullWrap

Spec == Init /\ [][Next]_vars
----------------------------------------------------------------------------
Labels == {"idle", "push_load", "push_link", "push_cas",
           "pop_link", "pop_cas", "pop_count"}

(* Every word of the stack and every local of push and pop has its type.   *)
TypeOK ==
    /\ head \in Heads
    /\ count \in Nat
    /\ link \in [Entries -> Index]
    /\ held \in [Threads -> SUBSET Entries]
    /\ pc \in [Threads -> Labels]
    /\ entry \in [Threads -> Index]
    /\ snap \in [Threads -> Heads]
    /\ next \in [Threads -> Index]

(* No two callers ever own the same entry, and the entry on top of the     *)
(* stack is owned by nobody: a pop that lost the race to other pops and    *)
(* pushes of the same entry never installs its stale link.  It holds under *)
(* NoFullWrap and not without it.                                          *)
ExclusiveOwnership ==
    /\ \A t, u \in Threads : t # u => held[t] \cap held[u] = {}
    /\ \A t \in Threads : head.index \notin held[t]

(* The entries reached from the head, top first.                           *)
Walk[i \in 0..Cardinality(Entries)] ==
    IF i = 0 THEN head.index
    ELSE IF Walk[i - 1] = Nil THEN Nil ELSE link[Walk[i - 1]]

Depth == Cardinality({i \in DOMAIN Walk : Walk[i] # Nil})

Contents == [i \in 1..Depth |-> Walk[i - 1]]

(* `count` is raised before a push and lowered after a pop, so what        *)
(* `pool_page` compares with the resident budget is never less than the    *)
(* number of entries really in the stack, and never underflows.            *)
CountCoversStack == count >= Depth

(* The chain behind the head is a LIFO that changes only by one whole push *)
(* or one whole pop: the interleaved accesses implement AtomicStack.       *)
Atomic == INSTANCE AtomicStack WITH stack <- Contents

ImplementsAtomicStack == Atomic!Spec
=============================================================================
