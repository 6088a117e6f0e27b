----------------------------- MODULE HeapLarge -----------------------------
(***************************************************************************)
(* Large blocks: alloc_large and free_large by concurrent threads, the     *)
(* resident and the reclaimed stack of each unit count, the budget of      *)
(* resident bytes, and what the memory of a block contains.  A push or a   *)
(* pop of a stack is one step, which is what PageStack is shown to         *)
(* implement.                                                              *)
(*                                                                         *)
(* An operator named ...Bug is the operator after it with a mistake such   *)
(* code could have; no specification uses one.                             *)
(***************************************************************************)
EXTENDS Integers, Sequences, FiniteSets, FiniteSetsExt

CONSTANTS
    Threads,
    Blocks,         \* the blocks the region has room for
    Units,          \* Units[b]: the length of block b, in LARGE_UNITs
    Budget,         \* LARGE_POOL_RESIDENT_BYTES, in units
    NoBlock

ASSUME BlocksAssumption ==
    /\ Units \in [Blocks -> Nat \ {0}]
    /\ Budget \in Nat \ {0}
    /\ NoBlock \notin Blocks

VARIABLES
    warm, cold,     \* LARGE_WARM and LARGE_COLD, by unit count
    warmBytes,      \* LARGE_WARM_BYTES, in units
    carved,         \* blocks carved from the region so far
    held,           \* blocks the program holds
    dirty,          \* parts of each block that are not zero
    zero,           \* parts the program was promised to be zero and has not written
    refused,        \* the kernel refused to drop some block's pages
    loc             \* per thread: where it is in alloc_large or free_large

vars == <<warm, cold, warmBytes, carved, held, dirty, zero, refused, loc>>

(* The first OS page of a block stays resident for its header and stack    *)
(* link; the body is the rest.                                             *)
Parts == {"first", "body"}

Counts == {Units[b] : b \in Blocks}

(* A process has finitely many threads; LARGE_BUCKETS bounds the lengths.  *)
ASSUME BoundsAssumption ==
    /\ IsFiniteSet(Threads)
    /\ \E u \in Counts : \A v \in Counts : v <= u

(* The parts a request of some size reaches into.                          *)
Extents == {{"first"}, Parts}

Idle == [at |-> "idle", block |-> NoBlock, units |-> 0, extent |-> {}, zeroed |-> FALSE]

Init ==
    /\ warm = [u \in Counts |-> <<>>]
    /\ cold = [u \in Counts |-> <<>>]
    /\ warmBytes = 0
    /\ carved = {}
    /\ held = {}
    /\ dirty = [b \in Blocks |-> {}]
    /\ zero = [b \in Blocks |-> {}]
    /\ refused = FALSE
    /\ loc = [t \in Threads |-> Idle]
----------------------------------------------------------------------------
Goto(t, from, to) == loc[t].at = from /\ loc' = [loc EXCEPT ![t].at = to]

(* The block is returned: `cleared' is what write_bytes zeroed in it.      *)
Return(t, b, cleared) ==
    /\ loc' = [loc EXCEPT ![t] = Idle]
    /\ held' = held \cup {b}
    /\ dirty' = [dirty EXCEPT ![b] = @ \ (IF loc[t].zeroed THEN cleared ELSE {})]
    /\ zero' = [zero EXCEPT ![b] = IF loc[t].zeroed THEN loc[t].extent ELSE {}]

(* What a reclaimed block still holds of its former contents.              *)
StalePartsBug == {}

StaleParts == {"first"}

AllocBegin(t, u, extent, zeroed) ==
    /\ loc[t].at = "idle"
    /\ loc' = [loc EXCEPT ![t] = [at |-> "warm", block |-> NoBlock, units |-> u,
                                  extent |-> extent, zeroed |-> zeroed]]
    /\ UNCHANGED <<warm, cold, warmBytes, carved, held, dirty, zero, refused>>

PopWarm(t) ==
    LET u == loc[t].units IN
    /\ loc[t].at = "warm"
    /\ \/ /\ warm[u] # <<>>
          /\ warm' = [warm EXCEPT ![u] = Tail(@)]
          /\ loc' = [loc EXCEPT ![t].at = "sub", ![t].block = Head(warm[u])]
       \/ /\ warm[u] = <<>>
          /\ loc' = [loc EXCEPT ![t].at = "cold"]
          /\ UNCHANGED warm
    /\ UNCHANGED <<cold, warmBytes, carved, held, dirty, zero, refused>>

SubBytes(t) ==
    /\ loc[t].at = "sub"
    /\ warmBytes' = warmBytes - loc[t].units
    /\ Return(t, loc[t].block, loc[t].extent)
    /\ UNCHANGED <<warm, cold, carved, refused>>

PopCold(t) ==
    LET u == loc[t].units IN
    /\ loc[t].at = "cold"
    /\ \/ /\ cold[u] # <<>>
          /\ cold' = [cold EXCEPT ![u] = Tail(@)]
          /\ Return(t, Head(cold[u]), StaleParts \cap loc[t].extent)
       \/ /\ cold[u] = <<>>
          /\ loc' = [loc EXCEPT ![t].at = "carve"]
          /\ UNCHANGED <<cold, held, dirty, zero>>
    /\ UNCHANGED <<warm, warmBytes, carved, refused>>

(* Untouched memory of the reservation, zero as it is; null when the       *)
(* region is exhausted.                                                    *)
Carve(t) ==
    LET fresh == {b \in Blocks \ carved : Units[b] = loc[t].units} IN
    /\ loc[t].at = "carve"
    /\ \/ \E b \in fresh : carved' = carved \cup {b} /\ Return(t, b, {})
       \/ /\ fresh = {}
          /\ loc' = [loc EXCEPT ![t] = Idle]
          /\ UNCHANGED <<carved, held, dirty, zero>>
    /\ UNCHANGED <<warm, cold, warmBytes, refused>>

(* The program writes into a block it holds.                               *)
Write(b, part) ==
    /\ b \in held
    /\ dirty' = [dirty EXCEPT ![b] = @ \cup {part}]
    /\ zero' = [zero EXCEPT ![b] = @ \ {part}]
    /\ UNCHANGED <<warm, cold, warmBytes, carved, held, refused, loc>>

(* A block kept resident is counted before it can be popped.               *)
KeepOrderBug == <<"push", "add">>

KeepOrder == <<"add", "push">>

AfterKeep(t) ==
    loc' = [loc EXCEPT ![t] = IF loc[t].at = KeepOrder[1]
                              THEN [loc[t] EXCEPT !.at = KeepOrder[2]] ELSE Idle]

Free(t, b) ==
    /\ loc[t].at = "idle"
    /\ b \in held
    /\ held' = held \ {b}
    /\ zero' = [zero EXCEPT ![b] = {}]
    /\ loc' = [loc EXCEPT ![t] = [Idle EXCEPT !.at = "check", !.block = b, !.units = Units[b]]]
    /\ UNCHANGED <<warm, cold, warmBytes, carved, dirty, refused>>

OverBudgetBug == warmBytes > 2 * Budget

OverBudget == warmBytes >= Budget

CheckBudget(t) ==
    /\ Goto(t, "check", IF OverBudget THEN "reclaim" ELSE KeepOrder[1])
    /\ UNCHANGED <<warm, cold, warmBytes, carved, held, dirty, zero, refused>>

(* madvise drops the body; it may refuse, and with OS pages as long as the *)
(* block there is no body to drop.                                         *)
Reclaim(t) ==
    \/ /\ Goto(t, "reclaim", "pushcold")
       /\ dirty' = [dirty EXCEPT ![loc[t].block] = @ \ {"body"}]
       /\ UNCHANGED <<warm, cold, warmBytes, carved, held, zero, refused>>
    \/ /\ Goto(t, "reclaim", KeepOrder[1])
       /\ refused' = TRUE
       /\ UNCHANGED <<warm, cold, warmBytes, carved, held, dirty, zero>>

PushCold(t) ==
    /\ loc[t].at = "pushcold"
    /\ loc' = [loc EXCEPT ![t] = Idle]
    /\ cold' = [cold EXCEPT ![loc[t].units] = <<loc[t].block>> \o @]
    /\ UNCHANGED <<warm, warmBytes, carved, held, dirty, zero, refused>>

AddBytes(t) ==
    /\ loc[t].at = "add" /\ AfterKeep(t)
    /\ warmBytes' = warmBytes + loc[t].units
    /\ UNCHANGED <<warm, cold, carved, held, dirty, zero, refused>>

PushWarm(t) ==
    /\ loc[t].at = "push" /\ AfterKeep(t)
    /\ warm' = [warm EXCEPT ![loc[t].units] = <<loc[t].block>> \o @]
    /\ UNCHANGED <<cold, warmBytes, carved, held, dirty, zero, refused>>

Next ==
    \/ \E t \in Threads :
        \/ \E u \in Counts, extent \in Extents, zeroed \in BOOLEAN :
               AllocBegin(t, u, extent, zeroed)
        \/ PopWarm(t) \/ SubBytes(t) \/ PopCold(t) \/ Carve(t)
        \/ \E b \in Blocks : Free(t, b)
        \/ CheckBudget(t) \/ Reclaim(t) \/ PushCold(t) \/ AddBytes(t) \/ PushWarm(t)
    \/ \E b \in Blocks, part \in Parts : Write(b, part)

Spec == Init /\ [][Next]_vars
----------------------------------------------------------------------------
Length(b) == Units[b]

WarmBlocks == {b \in Blocks : \E u \in Counts : \E i \in 1..Len(warm[u]) : warm[u][i] = b}

(* Memory promised zero by alloc_zeroed is zero until the program writes   *)
(* it, through any reuse of the block: resident blocks are cleared whole,  *)
(* reclaimed ones only where the kernel did not drop them, fresh ones not  *)
(* at all.                                                                 *)
ZeroedIsZero == \A b \in held : zero[b] \cap dirty[b] = {}

(* LARGE_WARM_BYTES never counts less than the resident stacks hold, so    *)
(* subtracting after a pop cannot wrap the unsigned counter.               *)
WarmBytesCover == warmBytes >= MapThenSumSet(Length, WarmBlocks)

(* The budget is checked before the bytes are added, so racing frees can   *)
(* overshoot it, but by no more than one block per thread; unless the      *)
(* kernel refuses to drop a block.                                         *)
ResidentBudget ==
    ~refused => warmBytes < Budget + Cardinality(Threads) * Max(Counts)
=============================================================================
