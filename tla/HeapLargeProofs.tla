-------------------------- MODULE HeapLargeProofs --------------------------
(***************************************************************************)
(* HeapLarge for any number of threads and blocks of any lengths: the      *)
(* bound on the resident bytes, and memory that is zero when it should be. *)
(***************************************************************************)
EXTENDS HeapLarge, FiniteSetTheorems, TLAPS

(* A leaf that names no prover is tried with SMT, with Zenon and, if the   *)
(* machine was too busy for either, with SMT once more.                    *)
USE SMTT(10), ZenonT(20), SMTT(30)

Labels == {"idle", "warm", "sub", "cold", "carve", "check", "reclaim", "pushcold", "add", "push"}

Locals == [at : Labels, block : Blocks \cup {NoBlock}, units : Counts \cup {0},
           extent : SUBSET Parts, zeroed : BOOLEAN]

(* The longest block.                                                      *)
Longest == Max(Counts)

LEMMA LongestBounds ==
    /\ Longest \in Nat \ {0}
    /\ \A u \in Counts \cup {0} : u \in Nat /\ u <= Longest
<1>1. Counts \subseteq Nat \ {0}
  BY BlocksAssumption DEF Counts
<1>2. PICK u \in Counts : \A v \in Counts : u >= v
  BY <1>1, BoundsAssumption
<1>3. Longest \in Counts /\ \A v \in Counts : Longest >= v
  BY <1>2 DEF Longest, Max
<1> QED
  BY <1>1, <1>3

(* The labels at which a thread has a block nobody else may touch.         *)
Holding == {"sub", "check", "reclaim", "pushcold", "add", "push"}

LocalOk(l) ==
    /\ l \in Locals
    /\ l.at # "idle" => l.units \in Counts
    /\ l.at \in Holding => l.block \in Blocks

LocOk == loc \in [Threads -> Locals] /\ \A t \in Threads : LocalOk(loc[t])

Typed ==
    /\ LocOk
    /\ warm \in [Counts -> Seq(Blocks)] /\ cold \in [Counts -> Seq(Blocks)]
    /\ warmBytes \in Int
    /\ carved \in SUBSET Blocks /\ held \in SUBSET Blocks
    /\ dirty \in [Blocks -> SUBSET Parts] /\ zero \in [Blocks -> SUBSET Parts]

LEMMA InitTyped == Init => Typed
BY DEF Init, Typed, LocOk, LocalOk, Idle, Locals, Labels, Holding

(* One thread moves; the others stay where they are.                       *)
LEMMA LocalStep ==
    ASSUME LocOk, NEW t \in Threads, NEW l, LocalOk(l), loc' = [loc EXCEPT ![t] = l]
    PROVE  LocOk' /\ loc'[t] = l /\ \A u \in Threads \ {t} : loc'[u] = loc[u]
<1>1. /\ loc' \in [Threads -> Locals]
      /\ loc'[t] = l /\ \A u \in Threads \ {t} : loc'[u] = loc[u]
  BY DEF LocOk, LocalOk
<1>2. \A u \in Threads : LocalOk(loc'[u])
  BY <1>1 DEF LocOk
<1> QED
  BY <1>1, <1>2, ZenonT(30) DEF LocOk, LocalOk, Locals, Labels, Holding, Counts, Parts

LEMMA IdleStep ==
    ASSUME LocOk, NEW t \in Threads, loc' = [loc EXCEPT ![t] = Idle]
    PROVE  LocOk' /\ loc'[t] = Idle /\ \A u \in Threads \ {t} : loc'[u] = loc[u]
<1>1. LocalOk(Idle)
  BY DEF Idle, LocalOk, Locals, Labels, Holding
<1> QED
  BY <1>1, LocalStep, ZenonT(30)

LEMMA GotoStep ==
    ASSUME LocOk, NEW t \in Threads, NEW to \in Labels, loc' = [loc EXCEPT ![t].at = to],
           loc[t].at # "idle", to \in Holding => loc[t].block \in Blocks
    PROVE  /\ LocOk' /\ loc'[t] = [loc[t] EXCEPT !.at = to]
           /\ \A u \in Threads \ {t} : loc'[u] = loc[u]
<1> DEFINE l == [loc[t] EXCEPT !.at = to]
<1>1. loc[t] \in Locals /\ loc[t].units \in Counts
  BY DEF LocOk, LocalOk
<1>2. LocalOk(l)
  BY <1>1 DEF LocalOk, Locals
<1>3. loc' = [loc EXCEPT ![t] = l]
  BY <1>1 DEF LocOk
<1> QED
  BY <1>2, <1>3, LocalStep, ZenonT(30)
LEMMA ReturnStep ==
    ASSUME Typed, NEW t \in Threads, NEW b \in Blocks, NEW cleared, Return(t, b, cleared)
    PROVE  /\ LocOk' /\ loc'[t] = Idle /\ \A u \in Threads \ {t} : loc'[u] = loc[u]
           /\ held' \in SUBSET Blocks
           /\ dirty' \in [Blocks -> SUBSET Parts] /\ zero' \in [Blocks -> SUBSET Parts]
<1>1. loc[t].extent \in SUBSET Parts
  BY DEF Typed, LocOk, Locals
<1>2. held' \in SUBSET Blocks
  BY DEF Return, Typed
<1>3. dirty' \in [Blocks -> SUBSET Parts] /\ zero' \in [Blocks -> SUBSET Parts]
  BY <1>1 DEF Return, Typed
<1> QED
  BY <1>2, <1>3, IdleStep, ZenonT(30) DEF Return, Typed

(* What each operation on a stack takes or leaves.                         *)
LEMMA PopTyped ==
    ASSUME NEW stack \in [Counts -> Seq(Blocks)], NEW u \in Counts, stack[u] # <<>>
    PROVE  Head(stack[u]) \in Blocks /\ [stack EXCEPT ![u] = Tail(@)] \in [Counts -> Seq(Blocks)]
<1>1. stack[u] \in Seq(Blocks)
  OBVIOUS
<1>2. Head(stack[u]) \in Blocks /\ Tail(stack[u]) \in Seq(Blocks)
  BY <1>1
<1> QED
  BY <1>2

LEMMA PushTyped ==
    ASSUME NEW stack \in [Counts -> Seq(Blocks)], NEW u \in Counts, NEW b \in Blocks
    PROVE  [stack EXCEPT ![u] = <<b>> \o @] \in [Counts -> Seq(Blocks)]
<1>1. <<b>> \o stack[u] \in Seq(Blocks)
  OBVIOUS
<1> QED
  BY <1>1

(* What an action finds where it starts.                                   *)
LEMMA AtLabel ==
    ASSUME Typed, NEW t \in Threads
    PROVE  /\ loc[t] \in Locals
           /\ loc[t].at # "idle" => loc[t].units \in Counts /\ loc[t].units \in Nat
           /\ loc[t].at \in Holding => loc[t].block \in Blocks
BY LongestBounds DEF Typed, LocOk, LocalOk

LEMMA NextTyped == Typed /\ [Next]_vars => Typed'
<1> SUFFICES ASSUME Typed, [Next]_vars PROVE Typed'
  OBVIOUS
<1>1. ASSUME NEW t \in Threads, NEW u \in Counts, NEW extent \in Extents,
             NEW zeroed \in BOOLEAN, AllocBegin(t, u, extent, zeroed)
      PROVE  Typed'
  <2>1. LocalOk([at |-> "warm", block |-> NoBlock, units |-> u,
                 extent |-> extent, zeroed |-> zeroed])
    BY DEF LocalOk, Locals, Labels, Holding, Extents, Parts
  <2> QED
    BY <1>1, <2>1, LocalStep, ZenonT(30) DEF AllocBegin, Typed
<1>2. ASSUME NEW t \in Threads, PopWarm(t) PROVE Typed'
  <2> DEFINE u == loc[t].units
  <2>1. u \in Counts /\ loc[t] \in Locals /\ loc[t].at = "warm"
    BY <1>2, AtLabel DEF PopWarm
  <2>2. CASE warm[u] # <<>>
    <3> DEFINE l == [loc[t] EXCEPT !.at = "sub", !.block = Head(warm[u])]
    <3>1. Head(warm[u]) \in Blocks /\ warm' \in [Counts -> Seq(Blocks)]
      <4>1. warm \in [Counts -> Seq(Blocks)]
        BY DEF Typed
      <4>2. warm' = [warm EXCEPT ![u] = Tail(@)]
        BY <1>2, <2>2 DEF PopWarm
      <4> HIDE DEF u
      <4> QED
        BY <2>1, <2>2, <4>1, <4>2, PopTyped
    <3>2. LocalOk(l)
      BY <2>1, <3>1, ZenonT(30) DEF LocalOk, Locals, Labels, Holding
    <3>3. loc' = [loc EXCEPT ![t] = l]
      BY <1>2, <2>1, <2>2, ZenonT(30) DEF PopWarm, Typed, LocOk
    <3>4. LocOk'
      BY <3>2, <3>3, LocalStep, ZenonT(30) DEF Typed
    <3> QED
      BY <1>2, <3>1, <3>4 DEF PopWarm, Typed
  <2>3. CASE warm[u] = <<>>
    <3>1. LocOk'
      BY <1>2, <2>1, <2>3, GotoStep, ZenonT(30) DEF PopWarm, Typed, Labels, Holding
    <3> QED
      BY <1>2, <2>3, <3>1 DEF PopWarm, Typed
  <2> QED
    BY <2>2, <2>3
<1>3. ASSUME NEW t \in Threads, SubBytes(t) PROVE Typed'
  <2>1. loc[t].units \in Nat /\ loc[t].block \in Blocks
    BY <1>3, AtLabel DEF SubBytes, Holding
  <2>2. warmBytes' \in Int
    BY <1>3, <2>1 DEF SubBytes, Typed
  <2> QED
    BY <1>3, <2>1, <2>2, ReturnStep DEF SubBytes, Typed
<1>4. ASSUME NEW t \in Threads, PopCold(t) PROVE Typed'
  <2> DEFINE u == loc[t].units
  <2>1. u \in Counts /\ loc[t].at = "cold"
    BY <1>4, AtLabel DEF PopCold
  <2>2. CASE cold[u] # <<>>
    <3>1. Head(cold[u]) \in Blocks /\ cold' \in [Counts -> Seq(Blocks)]
      <4>1. cold \in [Counts -> Seq(Blocks)]
        BY DEF Typed
      <4>2. cold' = [cold EXCEPT ![u] = Tail(@)]
        BY <1>4, <2>2 DEF PopCold
      <4> HIDE DEF u
      <4> QED
        BY <2>1, <2>2, <4>1, <4>2, PopTyped
    <3> QED
      BY <1>4, <2>2, <3>1, ReturnStep DEF PopCold, Typed
  <2>3. CASE cold[u] = <<>>
    <3>1. LocOk'
      BY <1>4, <2>1, <2>3, GotoStep, ZenonT(30) DEF PopCold, Typed, Labels, Holding
    <3> QED
      BY <1>4, <2>3, <3>1 DEF PopCold, Typed
  <2> QED
    BY <2>2, <2>3
<1>5. ASSUME NEW t \in Threads, Carve(t) PROVE Typed'
  <2>1. CASE loc' = [loc EXCEPT ![t] = Idle] /\ UNCHANGED <<carved, held, dirty, zero>>
    BY <1>5, <2>1, IdleStep, ZenonT(30) DEF Carve, Typed
  <2>2. ASSUME NEW b \in Blocks, carved' = carved \cup {b}, Return(t, b, {})
        PROVE  Typed'
    BY <1>5, <2>2, ReturnStep DEF Carve, Typed
  <2> QED
    BY <1>5, <2>1, <2>2 DEF Carve
<1>6. ASSUME NEW b \in Blocks, NEW part \in Parts, Write(b, part) PROVE Typed'
  BY <1>6 DEF Write, Typed, LocOk
<1>7. ASSUME NEW t \in Threads, NEW b \in Blocks, Free(t, b) PROVE Typed'
  <2>1. LocalOk([Idle EXCEPT !.at = "check", !.block = b, !.units = Units[b]])
    BY ZenonT(30) DEF LocalOk, Locals, Labels, Holding, Idle, Counts
  <2> QED
    BY <1>7, <2>1, LocalStep, ZenonT(30) DEF Free, Typed
<1>8. ASSUME NEW t \in Threads, CheckBudget(t) PROVE Typed'
  <2>1. LocOk'
    BY <1>8, AtLabel, GotoStep, ZenonT(30) DEF CheckBudget, Goto, KeepOrder, Typed, Labels, Holding
  <2> QED
    BY <1>8, <2>1 DEF CheckBudget, Typed
<1>9. ASSUME NEW t \in Threads, Reclaim(t) PROVE Typed'
  <2>1. LocOk'
    BY <1>9, AtLabel, GotoStep, ZenonT(30) DEF Reclaim, Goto, KeepOrder, Typed, Labels, Holding
  <2>2. dirty' \in [Blocks -> SUBSET Parts]
    BY <1>9 DEF Reclaim, Typed
  <2> QED
    BY <1>9, <2>1, <2>2 DEF Reclaim, Typed
<1>10. ASSUME NEW t \in Threads, PushCold(t) PROVE Typed'
  <2>1. LocOk'
    BY <1>10, IdleStep, ZenonT(30) DEF PushCold, Typed
  <2>2. cold' \in [Counts -> Seq(Blocks)]
    BY <1>10, AtLabel, PushTyped DEF PushCold, Typed, Holding
  <2> QED
    BY <1>10, <2>1, <2>2 DEF PushCold, Typed
<1>11. ASSUME NEW t \in Threads, AddBytes(t) PROVE Typed'
  <2>1. loc[t].units \in Nat /\ loc[t].block \in Blocks /\ loc[t].at = "add"
    BY <1>11, AtLabel DEF AddBytes, Holding
  <2>2. loc' = [loc EXCEPT ![t].at = "push"]
    BY <1>11, <2>1 DEF AddBytes, AfterKeep, KeepOrder, Typed, LocOk
  <2>3. LocOk'
    BY <2>1, <2>2, GotoStep, ZenonT(30) DEF Typed, Labels, Holding
  <2> QED
    BY <1>11, <2>1, <2>3 DEF AddBytes, Typed
<1>12. ASSUME NEW t \in Threads, PushWarm(t) PROVE Typed'
  <2>1. LocOk'
    BY <1>12, IdleStep, ZenonT(30) DEF PushWarm, AfterKeep, KeepOrder, Typed
  <2>2. warm' \in [Counts -> Seq(Blocks)]
    BY <1>12, AtLabel, PushTyped DEF PushWarm, Typed, Holding
  <2> QED
    BY <1>12, <2>1, <2>2 DEF PushWarm, Typed
<1>13. CASE UNCHANGED vars
  BY <1>13 DEF vars, Typed, LocOk
<1> QED
  BY <1>1, <1>2, <1>3, <1>4, <1>5, <1>6, <1>7, <1>8, <1>9, <1>10, <1>11, <1>12, <1>13 DEF Next

LEMMA AlwaysTyped == Spec => []Typed
BY InitTyped, NextTyped, PTL DEF Spec
-----------------------------------------------------------------------------
(* The budget. *)

(* Threads that found the budget not yet spent and have not added to it.   *)
Adding == {t \in Threads : loc[t].at = "add"}

Reserved == Cardinality(Adding) * Longest

Allowed == Budget + Cardinality(Threads) * Longest

(* The inductive invariant.  A thread that is about to add its block has   *)
(* a share of the overshoot reserved from the moment it saw the budget     *)
(* unspent, and there are no more shares than threads.                     *)
BudgetInv == ~refused => warmBytes + Reserved < Allowed

LEMMA Shares ==
    /\ Cardinality(Threads) \in Nat
    /\ Cardinality(Adding) \in Nat /\ Cardinality(Adding) <= Cardinality(Threads)
    /\ IsFiniteSet(Adding)
    /\ Reserved \in Nat /\ Allowed \in Nat /\ Budget + Reserved <= Allowed
<1>1. Adding \in SUBSET Threads
  BY DEF Adding
<1>2. IsFiniteSet(Adding) /\ Cardinality(Adding) <= Cardinality(Threads)
  BY <1>1, BoundsAssumption, FS_Subset
<1>3. Cardinality(Threads) \in Nat /\ Cardinality(Adding) \in Nat
  BY <1>2, BoundsAssumption, FS_CardinalityType
<1>4. ASSUME NEW a \in Nat, NEW n \in Nat, NEW k \in Nat, a <= n
      PROVE  a * k \in Nat /\ n * k \in Nat /\ a * k <= n * k
  BY <1>4
<1> QED
  BY <1>2, <1>3, <1>4, LongestBounds, BlocksAssumption DEF Reserved, Allowed

(* The share of a thread that comes to add, and of one that has added.     *)
LEMMA ShareTaken ==
    ASSUME NEW t \in Threads, t \notin Adding, Adding' = Adding \cup {t}
    PROVE  Reserved' = Reserved + Longest /\ Budget + Reserved' <= Allowed
<1>1. Cardinality(Adding') = Cardinality(Adding) + 1
  BY Shares, FS_AddElement
<1>2. Adding' \in SUBSET Threads
  BY DEF Adding
<1>3. Cardinality(Adding') <= Cardinality(Threads)
  BY <1>2, BoundsAssumption, FS_Subset
<1>4. ASSUME NEW a \in Nat, NEW n \in Nat, NEW k \in Nat, a + 1 <= n
      PROVE  (a + 1) * k = a * k + k /\ a * k \in Nat /\ (a + 1) * k <= n * k /\ n * k \in Nat
  BY <1>4
<1> QED
  BY <1>1, <1>3, <1>4, Shares, LongestBounds, BlocksAssumption DEF Reserved, Allowed, Longest

LEMMA ShareUsed ==
    ASSUME NEW t \in Threads, t \in Adding, Adding' = Adding \ {t}
    PROVE  Reserved' = Reserved - Longest
<1>1. Cardinality(Adding') = Cardinality(Adding) - 1
  BY Shares, FS_RemoveElement
<1>2. ASSUME NEW a \in Nat, NEW k \in Nat
      PROVE  (a - 1) * k = a * k - k
  OBVIOUS
<1> QED
  BY <1>1, <1>2, Shares, LongestBounds DEF Reserved, Longest

LEMMA InitBudgetInv == Init => BudgetInv
<1> SUFFICES ASSUME Init PROVE BudgetInv
  OBVIOUS
<1>1. Adding = {}
  BY DEF Init, Idle, Adding
<1>2. Reserved = 0
  BY <1>1, FS_EmptySet, LongestBounds DEF Reserved
<1>3. Budget + Reserved <= Allowed /\ Allowed \in Nat
  BY Shares
<1> QED
  BY <1>2, <1>3, BlocksAssumption DEF Init, BudgetInv

LEMMA LessUsed ==
    ASSUME NEW a \in Int, NEW b \in Int, b <= a, NEW r \in Nat, NEW n \in Nat, a + r < n
    PROVE  b + r < n
OBVIOUS

(* Most steps neither come to add nor add.                                 *)
LEMMA QuietStep ==
    ASSUME BudgetInv, NEW t \in Threads, loc[t].at # "add", loc'[t].at # "add",
           \A u \in Threads \ {t} : loc'[u] = loc[u],
           refused' = refused, warmBytes \in Int, warmBytes' \in Int, warmBytes' <= warmBytes
    PROVE  BudgetInv'
<1>1. Adding' = Adding
  BY DEF Adding
<1>2. Reserved' = Reserved
  BY <1>1 DEF Reserved, Longest, Counts
<1>3. Reserved \in Nat /\ Allowed \in Nat /\ Allowed' = Allowed
  BY Shares DEF Allowed, Longest, Counts
<1>4. CASE refused'
  BY <1>4 DEF BudgetInv
<1>5. CASE ~refused'
  <2>1. warmBytes + Reserved < Allowed
    BY <1>5 DEF BudgetInv
  <2>2. warmBytes' + Reserved' < Allowed'
    BY <1>2, <1>3, <2>1, LessUsed, ZenonT(30)
  <2> QED
    BY <2>2 DEF BudgetInv
<1> QED
  BY <1>4, <1>5

LEMMA NextBudgetInv == Typed /\ BudgetInv /\ [Next]_vars => BudgetInv'
<1> SUFFICES ASSUME Typed, BudgetInv, [Next]_vars PROVE BudgetInv'
  OBVIOUS
<1>1. warmBytes \in Int /\ loc \in [Threads -> Locals]
  BY DEF Typed, LocOk
<1>2. ASSUME NEW t \in Threads, NEW u \in Counts, NEW extent \in Extents,
             NEW zeroed \in BOOLEAN, AllocBegin(t, u, extent, zeroed)
      PROVE  BudgetInv'
  BY <1>1, <1>2, QuietStep DEF AllocBegin
<1>3. ASSUME NEW t \in Threads, PopWarm(t) PROVE BudgetInv'
  <2>1. loc'[t].at \in {"sub", "cold"} /\ \A u \in Threads \ {t} : loc'[u] = loc[u]
    BY <1>1, <1>3 DEF PopWarm, Locals
  <2> QED
    BY <1>1, <1>3, <2>1, QuietStep DEF PopWarm
<1>4. ASSUME NEW t \in Threads, SubBytes(t) PROVE BudgetInv'
  <2>1. loc[t].units \in Nat /\ loc[t].block \in Blocks
    BY <1>4, AtLabel DEF SubBytes, Holding
  <2>2. warmBytes' \in Int /\ warmBytes' <= warmBytes
    BY <1>1, <1>4, <2>1 DEF SubBytes
  <2> QED
    BY <1>1, <1>4, <2>1, <2>2, ReturnStep, QuietStep DEF SubBytes, Idle
<1>5. ASSUME NEW t \in Threads, PopCold(t) PROVE BudgetInv'
  <2>1. loc'[t].at \in {"idle", "carve"} /\ \A u \in Threads \ {t} : loc'[u] = loc[u]
    BY <1>1, <1>5 DEF PopCold, Return, Idle, Locals
  <2> QED
    BY <1>1, <1>5, <2>1, QuietStep DEF PopCold
<1>6. ASSUME NEW t \in Threads, Carve(t) PROVE BudgetInv'
  <2>1. loc'[t].at = "idle" /\ \A u \in Threads \ {t} : loc'[u] = loc[u]
    BY <1>1, <1>6 DEF Carve, Return, Idle
  <2> QED
    BY <1>1, <1>6, <2>1, QuietStep DEF Carve
<1>7. ASSUME NEW b \in Blocks, NEW part \in Parts, Write(b, part) PROVE BudgetInv'
  BY <1>7 DEF Write, BudgetInv, Reserved, Adding, Allowed, Longest, Counts
<1>8. ASSUME NEW t \in Threads, NEW b \in Blocks, Free(t, b) PROVE BudgetInv'
  <2>1. loc'[t].at = "check" /\ \A u \in Threads \ {t} : loc'[u] = loc[u]
    BY <1>1, <1>8 DEF Free, Idle
  <2> QED
    BY <1>1, <1>8, <2>1, QuietStep DEF Free
<1>9. ASSUME NEW t \in Threads, CheckBudget(t) PROVE BudgetInv'
  <2>1. loc[t].at = "check" /\ UNCHANGED <<warmBytes, refused>>
    BY <1>9 DEF CheckBudget, Goto
  <2>2. CASE OverBudget
    <3>1. loc'[t].at = "reclaim" /\ \A u \in Threads \ {t} : loc'[u] = loc[u]
      BY <1>1, <1>9, <2>2 DEF CheckBudget, Goto, Locals
    <3> QED
      BY <1>1, <2>1, <3>1, QuietStep
  <2>3. CASE ~OverBudget
    <3>1. loc'[t].at = "add" /\ \A u \in Threads \ {t} : loc'[u] = loc[u]
      BY <1>1, <1>9, <2>3 DEF CheckBudget, Goto, Locals, KeepOrder
    <3>2. t \notin Adding /\ Adding' = Adding \cup {t}
      BY <2>1, <3>1 DEF Adding
    <3>3. Reserved' = Reserved + Longest /\ Budget + Reserved' <= Allowed
      BY <3>2, ShareTaken
    <3>4. warmBytes < Budget
      BY <1>1, <2>3, BlocksAssumption DEF OverBudget
    <3>5. Reserved' \in Nat /\ Allowed \in Nat /\ Allowed' = Allowed
      BY <3>3, Shares, LongestBounds DEF Allowed, Longest, Counts
    <3> QED
      BY <1>1, <2>1, <3>3, <3>4, <3>5, BlocksAssumption DEF BudgetInv
  <2> QED
    BY <2>2, <2>3
<1>10. ASSUME NEW t \in Threads, Reclaim(t) PROVE BudgetInv'
  <2>1. CASE refused'
    BY <2>1 DEF BudgetInv
  <2>2. CASE ~refused'
    <3>1. loc[t].at = "reclaim" /\ UNCHANGED <<warmBytes, refused>>
      BY <1>10, <2>2 DEF Reclaim, Goto
    <3>2. loc'[t].at = "pushcold" /\ \A u \in Threads \ {t} : loc'[u] = loc[u]
      BY <1>1, <1>10, <2>2 DEF Reclaim, Goto, Locals
    <3> QED
      BY <1>1, <3>1, <3>2, QuietStep
  <2> QED
    BY <2>1, <2>2
<1>11. ASSUME NEW t \in Threads, PushCold(t) PROVE BudgetInv'
  BY <1>1, <1>11, QuietStep DEF PushCold, Idle
<1>12. ASSUME NEW t \in Threads, AddBytes(t) PROVE BudgetInv'
  <2>1. loc[t].at = "add" /\ warmBytes' = warmBytes + loc[t].units /\ refused' = refused
    BY <1>12 DEF AddBytes
  <2>2. loc'[t].at = "push" /\ \A u \in Threads \ {t} : loc'[u] = loc[u]
    BY <1>1, <1>12 DEF AddBytes, AfterKeep, KeepOrder, Locals
  <2>3. t \in Adding /\ Adding' = Adding \ {t}
    BY <2>1, <2>2 DEF Adding
  <2>4. Reserved' = Reserved - Longest
    BY <2>3, ShareUsed
  <2>5. loc[t].units \in Nat /\ loc[t].units <= Longest /\ Longest \in Nat
    BY <2>1, AtLabel, LongestBounds
  <2>6. Reserved \in Nat /\ Allowed \in Nat /\ Allowed' = Allowed
    BY Shares DEF Allowed, Longest, Counts
  <2> QED
    BY <1>1, <2>1, <2>4, <2>5, <2>6 DEF BudgetInv
<1>13. ASSUME NEW t \in Threads, PushWarm(t) PROVE BudgetInv'
  <2>1. loc'[t].at = "idle" /\ \A u \in Threads \ {t} : loc'[u] = loc[u]
    BY <1>1, <1>13 DEF PushWarm, AfterKeep, KeepOrder, Idle
  <2> QED
    BY <1>1, <1>13, <2>1, QuietStep DEF PushWarm
<1>14. CASE UNCHANGED vars
  BY <1>14 DEF vars, BudgetInv, Reserved, Adding, Allowed, Longest, Counts
<1> QED
  BY <1>2, <1>3, <1>4, <1>5, <1>6, <1>7, <1>8, <1>9, <1>10, <1>11, <1>12, <1>13, <1>14 DEF Next

(* Racing frees overshoot LARGE_POOL_RESIDENT_BYTES by less than one block *)
(* per thread, however many threads and whatever the lengths: free_large   *)
(* checks the budget before it adds.                                       *)
THEOREM BudgetHolds == Spec => []ResidentBudget
<1>1. Typed /\ BudgetInv => ResidentBudget
  BY Shares DEF Typed, BudgetInv, ResidentBudget, Allowed, Longest
<1> QED
  BY AlwaysTyped, InitBudgetInv, NextBudgetInv, <1>1, PTL DEF Spec
-----------------------------------------------------------------------------
(* Zeroed memory. *)

Stacks == [Counts -> Seq(Blocks)]

Kept(stack) == {b \in Blocks : \E u \in Counts : \E i \in 1..Len(stack[u]) : stack[u][i] = b}

Distinct(stack) ==
    \A u, v \in Counts : \A i \in 1..Len(stack[u]), j \in 1..Len(stack[v]) :
        stack[u][i] = stack[v][j] => u = v /\ i = j

LEMMA PopKept ==
    ASSUME NEW stack \in Stacks, Distinct(stack), NEW u \in Counts, stack[u] # <<>>,
           NEW rest, rest = [stack EXCEPT ![u] = Tail(@)]
    PROVE  /\ Distinct(rest) /\ Kept(rest) = Kept(stack) \ {Head(stack[u])}
           /\ Head(stack[u]) \in Kept(stack)
<1> DEFINE s == stack[u]
<1>1. s \in Seq(Blocks) /\ s # <<>> /\ rest \in [Counts -> Seq(Blocks)]
  BY DEF Stacks
<1>2. /\ Len(s) \in Nat /\ Len(s) > 0 /\ Head(s) = s[1] /\ Head(s) \in Blocks
      /\ Len(Tail(s)) = Len(s) - 1 /\ \A i \in 1..Len(Tail(s)) : Tail(s)[i] = s[i + 1]
  BY <1>1
<1>3. rest[u] = Tail(s) /\ \A v \in Counts \ {u} : rest[v] = stack[v]
  BY DEF Stacks
<1>4. \A v \in Counts : Len(stack[v]) \in Nat
  BY DEF Stacks
<1> HIDE DEF s
<1>5. ASSUME NEW v \in Counts, NEW i \in 1..Len(rest[v])
      PROVE  \E k \in 1..Len(stack[v]) :
                 rest[v][i] = stack[v][k] /\ k = IF v = u THEN i + 1 ELSE i
  <2>1. CASE v # u
    BY <1>3, <1>4, <2>1
  <2>2. CASE v = u
    <3>1. rest[v] = Tail(s) /\ stack[v] = s /\ i \in 1..Len(Tail(s))
      BY <1>3, <2>2, ZenonT(30) DEF s
    <3>2. i + 1 \in 1..Len(s) /\ Tail(s)[i] = s[i + 1]
      BY <1>2, <3>1
    <3> QED
      BY <2>2, <3>1, <3>2
  <2> QED
    BY <2>1, <2>2
<1>6. Distinct(rest)
  <2> SUFFICES ASSUME NEW v \in Counts, NEW w \in Counts, NEW i \in 1..Len(rest[v]),
                      NEW j \in 1..Len(rest[w]), rest[v][i] = rest[w][j]
               PROVE  v = w /\ i = j
    BY DEF Distinct
  <2>1. PICK k \in 1..Len(stack[v]) :
            rest[v][i] = stack[v][k] /\ k = IF v = u THEN i + 1 ELSE i
    BY <1>5
  <2>2. PICK m \in 1..Len(stack[w]) :
            rest[w][j] = stack[w][m] /\ m = IF w = u THEN j + 1 ELSE j
    BY <1>5, ZenonT(30)
  <2>3. v = w /\ k = m
    BY <2>1, <2>2 DEF Distinct
  <2>4. i \in Nat /\ j \in Nat
    OBVIOUS
  <2> QED
    BY <2>1, <2>2, <2>3, <2>4
<1>7. Head(s) \in Kept(stack)
  BY <1>2 DEF Kept, s
<1>8. Head(s) \notin Kept(rest)
  <2> SUFFICES ASSUME NEW v \in Counts, NEW i \in 1..Len(rest[v]), rest[v][i] = Head(s)
               PROVE  FALSE
    BY DEF Kept
  <2>1. PICK k \in 1..Len(stack[v]) :
            rest[v][i] = stack[v][k] /\ k = IF v = u THEN i + 1 ELSE i
    BY <1>5, ZenonT(30)
  <2>2. stack[v][k] = stack[u][1] /\ 1 \in 1..Len(stack[u])
    BY <1>2, <2>1 DEF s
  <2>3. v = u /\ k = 1
    BY <2>2 DEF Distinct
  <2>4. i \in Nat /\ i > 0
    OBVIOUS
  <2> QED
    BY <2>1, <2>3, <2>4
<1>9. Kept(rest) \subseteq Kept(stack)
  <2> SUFFICES ASSUME NEW b \in Blocks, NEW v \in Counts, NEW i \in 1..Len(rest[v]),
                      rest[v][i] = b
               PROVE  b \in Kept(stack)
    BY DEF Kept
  <2> QED
    BY <1>5, ZenonT(30) DEF Kept
<1>10. ASSUME NEW b \in Kept(stack), b # Head(s) PROVE b \in Kept(rest)
  <2>1. PICK v \in Counts : \E i \in 1..Len(stack[v]) : stack[v][i] = b
    BY DEF Kept
  <2>2. PICK i \in 1..Len(stack[v]) : stack[v][i] = b
    BY <2>1
  <2>3. CASE v # u
    BY <1>3, <2>2, <2>3 DEF Kept
  <2>4. CASE v = u
    <3>1. i # 1 /\ i \in 1..Len(s) /\ s[i] = b
      BY <1>2, <1>10, <2>2, <2>4 DEF s
    <3>2. i - 1 \in 1..Len(Tail(s))
      BY <1>2, <3>1
    <3>3. Tail(s)[i - 1] = s[(i - 1) + 1] /\ (i - 1) + 1 = i
      BY <1>2, <3>1, <3>2
    <3> QED
      BY <1>3, <3>1, <3>2, <3>3 DEF Kept
  <2> QED
    BY <2>3, <2>4
<1> QED
  BY <1>6, <1>7, <1>8, <1>9, <1>10, ZenonT(30) DEF s

LEMMA PushKept ==
    ASSUME NEW stack \in Stacks, Distinct(stack), NEW u \in Counts,
           NEW b \in Blocks, b \notin Kept(stack),
           NEW more, more = [stack EXCEPT ![u] = <<b>> \o @]
    PROVE  Distinct(more) /\ Kept(more) = Kept(stack) \cup {b}
<1> DEFINE s == stack[u]
           n == <<b>> \o s
<1>1. s \in Seq(Blocks)
  BY DEF Stacks
<1>2. /\ Len(s) \in Nat /\ Len(n) = Len(s) + 1 /\ n[1] = b
      /\ \A i \in 2..Len(n) : n[i] = s[i - 1]
  BY <1>1
<1>3. more[u] = n /\ \A v \in Counts \ {u} : more[v] = stack[v]
  BY DEF Stacks
<1>4. \A v \in Counts : Len(stack[v]) \in Nat
  BY DEF Stacks
<1> HIDE DEF n, s
<1>5. ASSUME NEW v \in Counts, NEW i \in 1..Len(more[v])
      PROVE  \/ v = u /\ i = 1 /\ more[v][i] = b
             \/ \E k \in 1..Len(stack[v]) :
                    more[v][i] = stack[v][k] /\ i = IF v = u THEN k + 1 ELSE k
  <2>1. CASE v # u
    BY <1>3, <1>4, <2>1
  <2>2. CASE v = u /\ i = 1
    BY <1>2, <1>3, <2>2
  <2>3. CASE v = u /\ i # 1
    <3>1. i - 1 \in 1..Len(stack[v]) /\ more[v][i] = stack[v][i - 1]
      BY <1>2, <1>3, <2>3 DEF s
    <3> QED
      BY <1>2, <2>3, <3>1
  <2> QED
    BY <2>1, <2>2, <2>3
<1>6. \A v \in Counts : \A k \in 1..Len(stack[v]) : stack[v][k] # b
  BY DEF Kept
<1>7. Distinct(more)
  <2> SUFFICES ASSUME NEW v \in Counts, NEW w \in Counts, NEW i \in 1..Len(more[v]),
                      NEW j \in 1..Len(more[w]), more[v][i] = more[w][j]
               PROVE  v = w /\ i = j
    BY DEF Distinct
  <2> DEFINE Old(x, y, k) == more[x][y] = stack[x][k] /\ y = IF x = u THEN k + 1 ELSE k
  <2>1. CASE v = u /\ i = 1 /\ more[v][i] = b
    BY <1>5, <1>6, <2>1
  <2>2. CASE w = u /\ j = 1 /\ more[w][j] = b
    BY <1>5, <1>6, <2>2
  <2>3. ASSUME NEW k \in 1..Len(stack[v]), Old(v, i, k),
               NEW m \in 1..Len(stack[w]), Old(w, j, m)
        PROVE  v = w /\ i = j
    <3>1. v = w /\ k = m
      BY <2>3 DEF Distinct
    <3> QED
      BY <2>3, <3>1
  <2>4. \/ v = u /\ i = 1 /\ more[v][i] = b
        \/ \E k \in 1..Len(stack[v]) : Old(v, i, k)
    BY <1>5, ZenonT(30)
  <2>5. \/ w = u /\ j = 1 /\ more[w][j] = b
        \/ \E m \in 1..Len(stack[w]) : Old(w, j, m)
    BY <1>5, ZenonT(30)
  <2> QED
    BY <2>1, <2>2, <2>3, <2>4, <2>5
<1>8. Kept(more) \subseteq Kept(stack) \cup {b}
  <2> SUFFICES ASSUME NEW c \in Blocks, NEW v \in Counts, NEW i \in 1..Len(more[v]),
                      more[v][i] = c
               PROVE  c \in Kept(stack) \cup {b}
    BY DEF Kept
  <2> QED
    BY <1>5 DEF Kept
<1>9. b \in Kept(more)
  BY <1>2, <1>3 DEF Kept
<1>10. ASSUME NEW c \in Kept(stack) PROVE c \in Kept(more)
  <2>1. PICK v \in Counts : \E i \in 1..Len(stack[v]) : stack[v][i] = c
    BY DEF Kept
  <2>2. PICK i \in 1..Len(stack[v]) : stack[v][i] = c
    BY <2>1
  <2>3. CASE v # u
    BY <1>3, <2>2, <2>3 DEF Kept
  <2>4. CASE v = u
    <3>1. i + 1 \in 1..Len(more[u]) /\ more[u][i + 1] = c
      BY <1>2, <1>3, <2>2, <2>4 DEF s
    <3> QED
      BY <3>1 DEF Kept
  <2> QED
    BY <2>3, <2>4
<1> QED
  BY <1>7, <1>8, <1>9, <1>10, ZenonT(30)

(* The block a thread is moving.                                           *)
Mine(t) == IF loc[t].at \in Holding THEN {loc[t].block} ELSE {}

Stored == held \cup Kept(warm) \cup Kept(cold)

(* Every carved block is in one place: held by the program, on one of the  *)
(* two kinds of stacks, once, or moved by one thread.                      *)
OwnInv ==
    /\ Distinct(warm) /\ Distinct(cold)
    /\ Kept(warm) \cap Kept(cold) = {} /\ held \cap (Kept(warm) \cup Kept(cold)) = {}
    /\ Stored \subseteq carved
    /\ \A t \in Threads : Mine(t) \subseteq carved /\ Mine(t) \cap Stored = {}
    /\ \A t, u \in Threads : t # u => Mine(t) \cap Mine(u) = {}

(* What the memory of blocks that are not held contains.                   *)
ZeroInv ==
    /\ ZeroedIsZero
    /\ \A b \in Kept(cold) : "body" \notin dirty[b]
    /\ \A t \in Threads : loc[t].at = "pushcold" => "body" \notin dirty[loc[t].block]
    /\ \A b \in Blocks \ carved : dirty[b] = {}

(* A step of one thread, by what it does to the places of blocks.          *)
LEMMA OwnStep ==
    ASSUME OwnInv, NEW t \in Threads, \A u \in Threads \ {t} : Mine(u)' = Mine(u),
           Distinct(warm)', Distinct(cold)', carved \subseteq carved',
           (Kept(warm) \cap Kept(cold))' = {},
           (held \cap (Kept(warm) \cup Kept(cold)))' = {},
           Mine(t)' \cap Stored' = {},
           Stored' \cup Mine(t)' \subseteq Stored \cup Mine(t) \cup (carved' \ carved),
           \A u \in Threads : Mine(u) \subseteq carved
    PROVE  OwnInv'
<1>1. Stored' \subseteq carved'
  BY DEF OwnInv
<1>2. ASSUME NEW u \in Threads \ {t}
      PROVE  Mine(u)' \cap (Stored' \cup Mine(t)') = {} /\ Mine(u)' \subseteq carved'
  <2>1. Mine(u) \cap (Stored \cup Mine(t)) = {} /\ Mine(u) \subseteq carved
    BY DEF OwnInv
  <2> QED
    BY <2>1
<1>3. Mine(t)' \subseteq carved'
  BY DEF OwnInv
<1>4. ASSUME NEW u \in Threads, NEW v \in Threads, u # v PROVE Mine(u)' \cap Mine(v)' = {}
  <2>1. CASE u # t /\ v # t
    BY <1>4, <2>1 DEF OwnInv
  <2> QED
    BY <1>2, <1>4, <2>1
<1> QED
  BY <1>1, <1>2, <1>3, <1>4 DEF OwnInv

(* A step that only shrinks what is dirty and puts no block on the cold    *)
(* stacks, nor makes any ready for them.                                   *)
LEMMA ZeroStep ==
    ASSUME Typed, Typed', ZeroInv, ZeroedIsZero', \A b \in Blocks : dirty'[b] \subseteq dirty[b],
           Kept(cold)' \subseteq Kept(cold), carved \subseteq carved',
           \A t \in Threads : loc'[t].at = "pushcold" => loc'[t] = loc[t]
    PROVE  ZeroInv'
<1>1. \A b \in Kept(cold)' : "body" \notin dirty'[b]
  BY DEF ZeroInv, Kept
<1>2. \A t \in Threads : loc'[t].at = "pushcold" => "body" \notin dirty'[loc'[t].block]
  BY AtLabel DEF ZeroInv, Holding
<1>3. \A b \in Blocks \ carved' : dirty'[b] = {}
  BY DEF ZeroInv
<1> QED
  BY <1>1, <1>2, <1>3 DEF ZeroInv

(* A block that is returned: what was promised of it is zero.              *)
LEMMA ReturnZero ==
    ASSUME Typed, ZeroInv, NEW t \in Threads, NEW b \in Blocks, NEW cleared,
           Return(t, b, cleared), b \notin held,
           loc[t].zeroed => loc[t].extent \cap dirty[b] \subseteq cleared
    PROVE  ZeroedIsZero' /\ \A c \in Blocks : dirty'[c] \subseteq dirty[c]
<1>1. /\ dirty'[b] = dirty[b] \ (IF loc[t].zeroed THEN cleared ELSE {})
      /\ zero'[b] = IF loc[t].zeroed THEN loc[t].extent ELSE {}
      /\ \A c \in Blocks \ {b} : dirty'[c] = dirty[c] /\ zero'[c] = zero[c]
      /\ held' = held \cup {b} /\ held \subseteq Blocks
  BY DEF Return, Typed
<1>2. zero'[b] \cap dirty'[b] = {}
  BY <1>1
<1>3. \A c \in held : zero[c] \cap dirty[c] = {}
  BY DEF ZeroInv, ZeroedIsZero
<1> QED
  BY <1>1, <1>2, <1>3 DEF ZeroedIsZero

Inv == OwnInv /\ ZeroInv

LEMMA InitInv == Init => Inv
<1> SUFFICES ASSUME Init PROVE Inv
  OBVIOUS
<1>1. Kept(warm) = {} /\ Kept(cold) = {} /\ Distinct(warm) /\ Distinct(cold)
  BY DEF Init, Kept, Distinct
<1>2. \A t \in Threads : Mine(t) = {} /\ loc[t].at # "pushcold"
  BY DEF Init, Idle, Mine, Holding
<1>3. OwnInv
  BY <1>1, <1>2 DEF Init, OwnInv, Stored
<1>4. ZeroInv
  BY <1>1, <1>2 DEF Init, ZeroInv, ZeroedIsZero
<1> QED
  BY <1>3, <1>4 DEF Inv

(* A thread goes on with the block it has, or with none as before.         *)
LEMMA SameBlock ==
    ASSUME Typed, Typed', Inv, NEW t \in Threads, Mine(t)' = Mine(t),
           \A u \in Threads \ {t} : loc'[u] = loc[u], loc'[t].at # "pushcold",
           UNCHANGED <<warm, cold, carved, held, dirty, zero>>
    PROVE  Inv'
<1>1. \A u \in Threads \ {t} : Mine(u)' = Mine(u)
  BY DEF Mine
<1>2. UNCHANGED <<Kept(warm), Kept(cold), Distinct(warm), Distinct(cold), Stored>>
  BY DEF Stored, Kept, Distinct
<1>3. OwnInv'
  BY <1>1, <1>2, OwnStep DEF Inv, OwnInv
<1>4. ZeroedIsZero'
  BY DEF Inv, ZeroInv, ZeroedIsZero
<1>5. ZeroInv'
  BY <1>2, <1>4, ZeroStep DEF Inv
<1> QED
  BY <1>3, <1>5 DEF Inv

LEMMA PopWarmInv ==
    ASSUME Typed, Typed', Inv, NEW t \in Threads, PopWarm(t)
    PROVE  Inv'
<1> DEFINE u == loc[t].units
<1>1. /\ u \in Counts /\ loc[t] \in Locals /\ loc[t].at = "warm"
      /\ warm \in Stacks /\ loc \in [Threads -> Locals]
      /\ UNCHANGED <<cold, carved, held, dirty, zero>>
  BY AtLabel DEF PopWarm, Typed, LocOk, Stacks
<1>2. CASE warm[u] = <<>>
  <2>1. /\ loc'[t].at = "cold" /\ \A v \in Threads \ {t} : loc'[v] = loc[v]
        /\ UNCHANGED warm
    BY <1>1, <1>2 DEF PopWarm, Locals
  <2>2. Mine(t)' = Mine(t)
    BY <1>1, <2>1 DEF Mine, Holding
  <2> QED
    BY <1>1, <2>1, <2>2, SameBlock
<1>3. CASE warm[u] # <<>>
  <2>1. /\ loc'[t].at = "sub" /\ loc'[t].block = Head(warm[u])
        /\ \A v \in Threads \ {t} : loc'[v] = loc[v]
        /\ warm' = [warm EXCEPT ![u] = Tail(@)]
    BY <1>1, <1>3 DEF PopWarm, Locals
  <2>2. /\ Distinct(warm)' /\ Kept(warm)' = Kept(warm) \ {Head(warm[u])}
        /\ Head(warm[u]) \in Kept(warm)
    <3>1. Distinct(warm)
      BY DEF Inv, OwnInv
    <3> HIDE DEF u
    <3> QED
      BY <1>1, <1>3, <2>1, <3>1, PopKept, ZenonT(30)
  <2>3. Mine(t) = {} /\ Mine(t)' = {Head(warm[u])} /\ \A v \in Threads \ {t} : Mine(v)' = Mine(v)
    BY <1>1, <2>1 DEF Mine, Holding
  <2>4. UNCHANGED <<Kept(cold), Distinct(cold)>>
    BY <1>1 DEF Kept, Distinct
  <2>5. OwnInv'
    <3>1. Stored' = Stored \ {Head(warm[u])}
      BY <1>1, <2>2, <2>4 DEF Stored, Inv, OwnInv
    <3> QED
      BY <1>1, <2>2, <2>3, <2>4, <3>1, OwnStep DEF Inv, OwnInv, Stored
  <2>6. ZeroedIsZero'
    BY <1>1 DEF Inv, ZeroInv, ZeroedIsZero
  <2>7. ZeroInv'
    BY <1>1, <2>1, <2>4, <2>6, ZeroStep DEF Inv
  <2> QED
    BY <2>5, <2>7 DEF Inv
<1> QED
  BY <1>2, <1>3

(* The block a thread has popped, or carved, comes into the program's      *)
(* hands.                                                                  *)
LEMMA ReturnInv ==
    ASSUME Typed, Typed', Inv, NEW t \in Threads, NEW b \in Blocks, NEW cleared,
           Return(t, b, cleared), b \notin held, warm' = warm,
           carved \subseteq carved',
           b \in Mine(t) \cup Kept(cold) \cup (carved' \ carved),
           Distinct(cold)', Kept(cold)' = Kept(cold) \ {b},
           loc[t].zeroed => loc[t].extent \cap dirty[b] \subseteq cleared
    PROVE  Inv'
<1>1. loc'[t] = Idle /\ \A v \in Threads \ {t} : loc'[v] = loc[v]
  BY ReturnStep
<1>2. Mine(t)' = {} /\ \A v \in Threads \ {t} : Mine(v)' = Mine(v)
  BY <1>1 DEF Mine, Idle, Holding
<1>3. UNCHANGED <<Kept(warm), Distinct(warm)>> /\ held' = held \cup {b}
  BY DEF Kept, Distinct, Return
<1>4. b \notin Kept(warm)
  BY DEF Inv, OwnInv, Stored
<1>5. OwnInv'
  <2>1. Stored' = Stored \cup {b}
    BY <1>3 DEF Stored
  <2>2. Stored' \cup Mine(t)' \subseteq Stored \cup Mine(t) \cup (carved' \ carved)
    BY <1>2, <2>1 DEF Stored
  <2>3. /\ Distinct(warm)' /\ (Kept(warm) \cap Kept(cold))' = {}
        /\ (held \cap (Kept(warm) \cup Kept(cold)))' = {}
    BY <1>3, <1>4 DEF Inv, OwnInv
  <2> QED
    BY <1>2, <2>2, <2>3, OwnStep DEF Inv, OwnInv
<1>6. ZeroedIsZero' /\ \A c \in Blocks : dirty'[c] \subseteq dirty[c]
  BY ReturnZero DEF Inv
<1>7. ZeroInv'
  BY <1>1, <1>6, ZeroStep DEF Inv, Idle
<1> QED
  BY <1>5, <1>7 DEF Inv

LEMMA PopColdInv ==
    ASSUME Typed, Typed', Inv, NEW t \in Threads, PopCold(t)
    PROVE  Inv'
<1> DEFINE u == loc[t].units
           b == Head(cold[u])
<1>1. /\ u \in Counts /\ loc[t] \in Locals /\ loc[t].at = "cold"
      /\ cold \in Stacks /\ loc \in [Threads -> Locals]
      /\ UNCHANGED <<warm, carved>>
  BY AtLabel DEF PopCold, Typed, LocOk, Stacks
<1>2. CASE cold[u] = <<>>
  <2>1. /\ loc'[t].at = "carve" /\ \A v \in Threads \ {t} : loc'[v] = loc[v]
        /\ UNCHANGED <<cold, held, dirty, zero>>
    BY <1>1, <1>2 DEF PopCold, Locals
  <2>2. Mine(t)' = Mine(t)
    BY <1>1, <2>1 DEF Mine, Holding
  <2> QED
    BY <1>1, <2>1, <2>2, SameBlock
<1>3. CASE cold[u] # <<>>
  <2>1. /\ Return(t, b, StaleParts \cap loc[t].extent)
        /\ cold' = [cold EXCEPT ![u] = Tail(@)]
    BY <1>1, <1>3 DEF PopCold
  <2>2. Distinct(cold)' /\ Kept(cold)' = Kept(cold) \ {b} /\ b \in Kept(cold)
    <3>1. Distinct(cold)
      BY DEF Inv, OwnInv
    <3> HIDE DEF u
    <3> QED
      BY <1>1, <1>3, <2>1, <3>1, PopKept, ZenonT(30)
  <2>3. b \in Blocks /\ b \notin held
    BY <2>2, ZenonT(30) DEF Kept, Inv, OwnInv
  <2>4. loc[t].extent \cap dirty[b] \subseteq StaleParts \cap loc[t].extent
    <3>1. "body" \notin dirty[b] /\ loc[t].extent \subseteq {"first", "body"}
      BY <1>1, <2>2 DEF Inv, ZeroInv, Locals, Parts
    <3> QED
      BY <3>1 DEF StaleParts
  <2> HIDE DEF b
  <2> QED
    BY <1>1, <2>1, <2>2, <2>3, <2>4, ReturnInv, ZenonT(30)
<1> QED
  BY <1>2, <1>3

LEMMA CarveInv ==
    ASSUME Typed, Typed', Inv, NEW t \in Threads, Carve(t)
    PROVE  Inv'
<1>1. UNCHANGED <<warm, cold>> /\ loc[t].at = "carve" /\ loc \in [Threads -> Locals]
  BY DEF Carve, Typed, LocOk
<1>2. ASSUME NEW b \in Blocks \ carved, carved' = carved \cup {b}, Return(t, b, {})
      PROVE  Inv'
  <2>1. b \notin Stored
    BY DEF Inv, OwnInv
  <2>2. b \notin held /\ b \notin Kept(cold)
    BY <2>1 DEF Stored
  <2>3. Distinct(cold)' /\ Kept(cold)' = Kept(cold) \ {b}
    BY <1>1, <2>2 DEF Inv, OwnInv, Distinct, Kept
  <2>4. dirty[b] = {}
    BY DEF Inv, ZeroInv
  <2> QED
    BY <1>1, <1>2, <2>2, <2>3, <2>4, ReturnInv
<1>3. CASE loc' = [loc EXCEPT ![t] = Idle] /\ UNCHANGED <<carved, held, dirty, zero>>
  <2>1. loc'[t] = Idle /\ \A v \in Threads \ {t} : loc'[v] = loc[v]
    BY <1>1, <1>3
  <2>2. Mine(t)' = Mine(t)
    BY <1>1, <2>1 DEF Mine, Holding, Idle
  <2> QED
    BY <1>1, <1>3, <2>1, <2>2, SameBlock DEF Idle
<1> QED
  BY <1>2, <1>3 DEF Carve

LEMMA WriteInv ==
    ASSUME Typed, Typed', Inv, NEW b \in Blocks, NEW part \in Parts, Write(b, part)
    PROVE  Inv'
<1>1. /\ b \in held /\ UNCHANGED <<warm, cold, carved, held, loc>>
      /\ dirty'[b] = dirty[b] \cup {part} /\ zero'[b] = zero[b] \ {part}
      /\ \A c \in Blocks \ {b} : dirty'[c] = dirty[c] /\ zero'[c] = zero[c]
  BY DEF Write, Typed
<1>2. OwnInv'
  BY <1>1 DEF Inv, OwnInv, Stored, Mine, Kept, Distinct
<1>3. b \notin Kept(cold) /\ b \in carved /\ \A t \in Threads : b \notin Mine(t)
  BY <1>1 DEF Inv, OwnInv, Stored
<1>4. held \subseteq Blocks /\ Kept(cold)' = Kept(cold) /\ Kept(cold) \subseteq Blocks
  BY <1>1 DEF Typed, Kept
<1>5. ZeroedIsZero'
  BY <1>1, <1>4 DEF Inv, ZeroInv, ZeroedIsZero
<1>6. \A c \in Kept(cold)' : "body" \notin dirty'[c]
  BY <1>1, <1>3, <1>4 DEF Inv, ZeroInv
<1>7. ASSUME NEW t \in Threads, loc'[t].at = "pushcold"
      PROVE  "body" \notin dirty'[loc'[t].block]
  <2>1. Mine(t) = {loc[t].block} /\ loc[t].block \in Blocks
    BY <1>1, <1>7, AtLabel DEF Mine, Holding
  <2> QED
    BY <1>1, <1>3, <1>7, <2>1 DEF Inv, ZeroInv
<1>8. \A c \in Blocks \ carved' : dirty'[c] = {}
  BY <1>1, <1>3 DEF Inv, ZeroInv
<1> QED
  BY <1>2, <1>5, <1>6, <1>7, <1>8 DEF Inv, ZeroInv

LEMMA FreeInv ==
    ASSUME Typed, Typed', Inv, NEW t \in Threads, NEW b \in Blocks, Free(t, b)
    PROVE  Inv'
<1>1. /\ loc[t].at = "idle" /\ loc'[t].at = "check" /\ loc'[t].block = b
      /\ \A v \in Threads \ {t} : loc'[v] = loc[v]
      /\ b \in held /\ held' = held \ {b} /\ UNCHANGED <<warm, cold, carved, dirty>>
  BY DEF Free, Typed, LocOk, Idle
<1>2. Mine(t) = {} /\ Mine(t)' = {b} /\ \A v \in Threads \ {t} : Mine(v)' = Mine(v)
  BY <1>1 DEF Mine, Holding
<1>3. UNCHANGED <<Kept(warm), Kept(cold), Distinct(warm), Distinct(cold)>>
  BY <1>1 DEF Kept, Distinct
<1>4. OwnInv'
  <2>1. Stored' = Stored \ {b}
    BY <1>1, <1>3 DEF Stored, Inv, OwnInv
  <2>2. b \in Stored
    BY <1>1 DEF Stored
  <2> QED
    BY <1>1, <1>2, <1>3, <2>1, <2>2, OwnStep DEF Inv, OwnInv
<1>5. ZeroedIsZero'
  BY <1>1 DEF Free, Typed, Inv, ZeroInv, ZeroedIsZero
<1>6. ZeroInv'
  BY <1>1, <1>3, <1>5, ZeroStep DEF Inv
<1> QED
  BY <1>4, <1>6 DEF Inv

LEMMA ReclaimInv ==
    ASSUME Typed, Typed', Inv, NEW t \in Threads, Reclaim(t)
    PROVE  Inv'
<1>1. /\ loc[t].at = "reclaim" /\ loc[t].block \in Blocks /\ loc \in [Threads -> Locals]
      /\ UNCHANGED <<warm, cold, carved, held, zero>>
  BY AtLabel DEF Reclaim, Goto, Holding, Typed, LocOk
<1>2. CASE Goto(t, "reclaim", KeepOrder[1]) /\ dirty' = dirty
  <2>1. loc'[t] = [loc[t] EXCEPT !.at = "add"] /\ \A v \in Threads \ {t} : loc'[v] = loc[v]
    BY <1>1, <1>2 DEF Goto, KeepOrder
  <2>2. loc'[t].at = "add" /\ loc'[t].block = loc[t].block
    BY <1>1, <2>1 DEF Locals
  <2>3. Mine(t)' = Mine(t)
    BY <1>1, <2>2 DEF Mine, Holding
  <2> QED
    BY <1>1, <1>2, <2>1, <2>2, <2>3, SameBlock, ZenonT(30)
<1>3. CASE Goto(t, "reclaim", "pushcold")
           /\ dirty' = [dirty EXCEPT ![loc[t].block] = @ \ {"body"}]
  <2>1. loc'[t] = [loc[t] EXCEPT !.at = "pushcold"] /\ \A v \in Threads \ {t} : loc'[v] = loc[v]
    BY <1>1, <1>3 DEF Goto
  <2>2. loc'[t].at = "pushcold" /\ loc'[t].block = loc[t].block
    BY <1>1, <2>1 DEF Locals
  <2>3. Mine(t)' = Mine(t) /\ \A v \in Threads \ {t} : Mine(v)' = Mine(v)
    BY <1>1, <2>1, <2>2 DEF Mine, Holding
  <2>4. UNCHANGED <<Kept(warm), Kept(cold), Distinct(warm), Distinct(cold), Stored>>
    BY <1>1 DEF Stored, Kept, Distinct
  <2>5. OwnInv'
    BY <1>1, <2>3, <2>4, OwnStep DEF Inv, OwnInv
  <2>6. /\ dirty'[loc[t].block] = dirty[loc[t].block] \ {"body"}
        /\ \A b \in Blocks : dirty'[b] \subseteq dirty[b]
    BY <1>1, <1>3 DEF Typed
  <2>7. ZeroedIsZero'
    BY <1>1, <2>6 DEF Inv, ZeroInv, ZeroedIsZero, Typed
  <2>8. \A b \in Kept(cold)' : "body" \notin dirty'[b]
    BY <2>4, <2>6 DEF Inv, ZeroInv, Kept
  <2>9. ASSUME NEW v \in Threads, loc'[v].at = "pushcold"
        PROVE  "body" \notin dirty'[loc'[v].block]
    <3>1. CASE v = t
      BY <2>2, <2>6, <3>1
    <3>2. CASE v # t
      BY <2>1, <2>6, <2>9, <3>2, AtLabel DEF Inv, ZeroInv, Holding
    <3> QED
      BY <3>1, <3>2
  <2>10. \A b \in Blocks \ carved' : dirty'[b] = {}
    BY <1>1, <2>6 DEF Inv, ZeroInv
  <2> QED
    BY <2>5, <2>7, <2>8, <2>9, <2>10 DEF Inv, ZeroInv
<1> QED
  BY <1>2, <1>3 DEF Reclaim

LEMMA PushColdInv ==
    ASSUME Typed, Typed', Inv, NEW t \in Threads, PushCold(t)
    PROVE  Inv'
<1> DEFINE b == loc[t].block
           u == loc[t].units
<1>1. /\ loc[t].at = "pushcold" /\ b \in Blocks /\ u \in Counts /\ cold \in Stacks
      /\ cold' = [cold EXCEPT ![u] = <<b>> \o @]
      /\ UNCHANGED <<warm, carved, held, dirty, zero>>
      /\ loc'[t] = Idle /\ \A v \in Threads \ {t} : loc'[v] = loc[v]
  BY AtLabel DEF PushCold, Holding, Typed, LocOk, Stacks
<1>2. Mine(t) = {b} /\ Mine(t)' = {} /\ \A v \in Threads \ {t} : Mine(v)' = Mine(v)
  <2>1. loc[t].at \in Holding /\ Idle.at \notin Holding
    BY <1>1 DEF Holding, Idle
  <2>2. loc'[t] = Idle /\ \A v \in Threads \ {t} : loc'[v] = loc[v]
    BY <1>1
  <2> QED
    BY <2>1, <2>2 DEF Mine, Holding
<1>3. b \notin Stored /\ b \notin Kept(warm) /\ b \notin Kept(cold) /\ b \notin held
  BY <1>2 DEF Inv, OwnInv, Stored
<1>4. Distinct(cold)' /\ Kept(cold)' = Kept(cold) \cup {b}
  <2>1. Distinct(cold)
    BY DEF Inv, OwnInv
  <2> HIDE DEF b, u
  <2> QED
    BY <1>1, <1>3, <2>1, PushKept, ZenonT(30)
<1>5. UNCHANGED <<Kept(warm), Distinct(warm)>>
  BY <1>1 DEF Kept, Distinct
<1>6. OwnInv'
  <2>1. Stored' = Stored \cup {b}
    BY <1>1, <1>4, <1>5, ZenonT(30) DEF Stored
  <2>2. (Kept(warm) \cap Kept(cold))' = {} /\ (held \cap (Kept(warm) \cup Kept(cold)))' = {}
    BY <1>1, <1>3, <1>4, <1>5, ZenonT(30) DEF Inv, OwnInv
  <2>3. /\ Mine(t)' \cap Stored' = {} /\ carved' = carved
        /\ Stored' \cup Mine(t)' \subseteq Stored \cup Mine(t) \cup (carved' \ carved)
    BY <1>1, <1>2, <2>1
  <2>4. Distinct(warm)' /\ Distinct(cold)' /\ OwnInv /\ \A v \in Threads : Mine(v) \subseteq carved
    BY <1>4, <1>5 DEF Inv, OwnInv
  <2> QED
    BY <1>2, <2>2, <2>3, <2>4, OwnStep
<1>7. ZeroInv'
  <2>1. "body" \notin dirty[b]
    BY <1>1 DEF Inv, ZeroInv
  <2>2. ZeroedIsZero' /\ \A c \in Kept(cold)' : "body" \notin dirty'[c]
    BY <1>1, <1>4, <2>1, ZenonT(30) DEF Inv, ZeroInv, ZeroedIsZero
  <2>3. \A v \in Threads : loc'[v].at = "pushcold" => "body" \notin dirty'[loc'[v].block]
    BY <1>1 DEF Inv, ZeroInv, Idle
  <2> QED
    BY <1>1, <2>2, <2>3, ZenonT(30) DEF Inv, ZeroInv
<1> QED
  BY <1>6, <1>7 DEF Inv

LEMMA PushWarmInv ==
    ASSUME Typed, Typed', Inv, NEW t \in Threads, PushWarm(t)
    PROVE  Inv'
<1> DEFINE b == loc[t].block
           u == loc[t].units
<1>1. /\ loc[t].at = "push" /\ b \in Blocks /\ u \in Counts /\ warm \in Stacks
      /\ warm' = [warm EXCEPT ![u] = <<b>> \o @]
      /\ UNCHANGED <<cold, carved, held, dirty, zero>>
      /\ loc'[t] = Idle /\ \A v \in Threads \ {t} : loc'[v] = loc[v]
  BY AtLabel DEF PushWarm, AfterKeep, KeepOrder, Holding, Typed, LocOk, Stacks
<1>2. Mine(t) = {b} /\ Mine(t)' = {} /\ \A v \in Threads \ {t} : Mine(v)' = Mine(v)
  <2>1. loc[t].at \in Holding /\ Idle.at \notin Holding
    BY <1>1 DEF Holding, Idle
  <2>2. loc'[t] = Idle /\ \A v \in Threads \ {t} : loc'[v] = loc[v]
    BY <1>1
  <2> QED
    BY <2>1, <2>2 DEF Mine, Holding
<1>3. b \notin Kept(warm) /\ b \notin Kept(cold) /\ b \notin held
  BY <1>2 DEF Inv, OwnInv, Stored
<1>4. Distinct(warm)' /\ Kept(warm)' = Kept(warm) \cup {b}
  <2>1. Distinct(warm)
    BY DEF Inv, OwnInv
  <2> HIDE DEF b, u
  <2> QED
    BY <1>1, <1>3, <2>1, PushKept, ZenonT(30)
<1>5. UNCHANGED <<Kept(cold), Distinct(cold)>>
  BY <1>1 DEF Kept, Distinct
<1>6. OwnInv'
  <2>1. Stored' = Stored \cup {b}
    BY <1>1, <1>4, <1>5, ZenonT(30) DEF Stored
  <2>2. (Kept(warm) \cap Kept(cold))' = {} /\ (held \cap (Kept(warm) \cup Kept(cold)))' = {}
    BY <1>1, <1>3, <1>4, <1>5, ZenonT(30) DEF Inv, OwnInv
  <2>3. /\ Mine(t)' \cap Stored' = {} /\ carved' = carved
        /\ Stored' \cup Mine(t)' \subseteq Stored \cup Mine(t) \cup (carved' \ carved)
    BY <1>1, <1>2, <2>1
  <2>4. Distinct(warm)' /\ Distinct(cold)' /\ OwnInv /\ \A v \in Threads : Mine(v) \subseteq carved
    BY <1>4, <1>5 DEF Inv, OwnInv
  <2> QED
    BY <1>2, <2>2, <2>3, <2>4, OwnStep
<1>7. ZeroedIsZero'
  BY <1>1 DEF Inv, ZeroInv, ZeroedIsZero
<1>8. ZeroInv'
  <2>1. ASSUME NEW v \in Threads, loc'[v].at = "pushcold" PROVE loc'[v] = loc[v]
    <3>1. Idle.at # "pushcold"
      BY DEF Idle
    <3>2. loc'[t] = Idle /\ \A w \in Threads \ {t} : loc'[w] = loc[w]
      BY <1>1
    <3> QED
      BY <2>1, <3>1, <3>2, ZenonT(30)
  <2>2. /\ \A c \in Blocks : dirty'[c] \subseteq dirty[c]
        /\ Kept(cold)' \subseteq Kept(cold) /\ carved \subseteq carved'
    BY <1>1, <1>5, ZenonT(30)
  <2> QED
    BY <1>7, <2>1, <2>2, ZeroStep DEF Inv
<1> QED
  BY <1>6, <1>8 DEF Inv

LEMMA NextInv == Typed /\ Typed' /\ Inv /\ [Next]_vars => Inv'
<1> SUFFICES ASSUME Typed, Typed', Inv, [Next]_vars PROVE Inv'
  OBVIOUS
<1>1. loc \in [Threads -> Locals]
  BY DEF Typed, LocOk
<1>2. ASSUME NEW t \in Threads, NEW u \in Counts, NEW extent \in Extents,
             NEW zeroed \in BOOLEAN, AllocBegin(t, u, extent, zeroed)
      PROVE  Inv'
  <2>1. /\ loc[t].at = "idle" /\ loc'[t].at = "warm"
        /\ \A v \in Threads \ {t} : loc'[v] = loc[v]
    BY <1>1, <1>2 DEF AllocBegin
  <2>2. Mine(t)' = Mine(t)
    BY <2>1 DEF Mine, Holding
  <2> QED
    BY <1>2, <2>1, <2>2, SameBlock DEF AllocBegin
<1>3. ASSUME NEW t \in Threads, SubBytes(t) PROVE Inv'
  <2> DEFINE b == loc[t].block
  <2>1. /\ b \in Blocks /\ Return(t, b, loc[t].extent) /\ loc[t].at = "sub"
        /\ UNCHANGED <<warm, cold, carved>>
    BY <1>3, AtLabel DEF SubBytes, Holding
  <2>2. Mine(t) = {b}
    BY <2>1 DEF Mine, Holding
  <2>3. b \notin held /\ b \notin Kept(cold)
    BY <2>2 DEF Inv, OwnInv, Stored
  <2> HIDE DEF b
  <2>4. Distinct(cold)' /\ Kept(cold)' = Kept(cold) \ {b}
    <3>1. Distinct(cold)
      BY DEF Inv, OwnInv
    <3>2. cold' = cold
      BY <2>1
    <3>3. UNCHANGED <<Kept(cold), Distinct(cold)>>
      BY <3>2 DEF Kept, Distinct
    <3>4. Kept(cold) \ {b} = Kept(cold)
      BY <2>3
    <3> QED
      BY <3>1, <3>3, <3>4
  <2> QED
    BY <2>1, <2>2, <2>3, <2>4, ReturnInv
<1>4. ASSUME NEW t \in Threads, CheckBudget(t) PROVE Inv'
  <2> DEFINE to == IF OverBudget THEN "reclaim" ELSE "add"
  <2>1. /\ loc[t].at = "check" /\ loc'[t] = [loc[t] EXCEPT !.at = to]
        /\ \A v \in Threads \ {t} : loc'[v] = loc[v]
        /\ UNCHANGED <<warm, cold, carved, held, dirty, zero>>
    BY <1>1, <1>4 DEF CheckBudget, Goto, KeepOrder
  <2>2. loc'[t].at \in {"reclaim", "add"} /\ loc'[t].block = loc[t].block
    BY <1>1, <2>1 DEF Locals
  <2>3. Mine(t)' = Mine(t)
    BY <2>1, <2>2 DEF Mine, Holding
  <2> QED
    BY <2>1, <2>2, <2>3, SameBlock, ZenonT(30)
<1>5. ASSUME NEW t \in Threads, AddBytes(t) PROVE Inv'
  <2>1. /\ loc[t].at = "add" /\ loc'[t] = [loc[t] EXCEPT !.at = "push"]
        /\ \A v \in Threads \ {t} : loc'[v] = loc[v]
        /\ UNCHANGED <<warm, cold, carved, held, dirty, zero>>
    BY <1>1, <1>5 DEF AddBytes, AfterKeep, KeepOrder
  <2>2. loc'[t].at = "push" /\ loc'[t].block = loc[t].block
    BY <1>1, <2>1 DEF Locals
  <2>3. Mine(t)' = Mine(t)
    BY <2>1, <2>2 DEF Mine, Holding
  <2> QED
    BY <2>1, <2>2, <2>3, SameBlock, ZenonT(30)
<1>6. CASE UNCHANGED vars
  <2>1. UNCHANGED <<warm, cold, carved, held, dirty, zero, loc>>
    BY <1>6 DEF vars
  <2>2. UNCHANGED <<Kept(warm), Kept(cold)>>
    BY <2>1 DEF Kept
  <2>3. UNCHANGED <<Distinct(warm), Distinct(cold)>>
    BY <2>1 DEF Distinct
  <2>4. UNCHANGED Stored
    BY <2>1, <2>2 DEF Stored
  <2>5. \A t \in Threads : Mine(t)' = Mine(t)
    BY <2>1 DEF Mine
  <2>6. OwnInv'
    BY <2>1, <2>2, <2>3, <2>4, <2>5, ZenonT(30) DEF Inv, OwnInv
  <2>7. ZeroInv'
    BY <2>1, <2>2 DEF Inv, ZeroInv, ZeroedIsZero
  <2> QED
    BY <2>6, <2>7 DEF Inv
<1> QED
  BY <1>2, <1>3, <1>4, <1>5, <1>6, PopWarmInv, PopColdInv, CarveInv, WriteInv, FreeInv,
     ReclaimInv, PushColdInv, PushWarmInv DEF Next

(* Memory that alloc_zeroed promises zero is zero until the program writes *)
(* it, for any number of threads and blocks: alloc_large clears exactly    *)
(* what its stack of origin leaves stale, and no block is in two places.   *)
THEOREM ZeroedMemory == Spec => []ZeroedIsZero
<1>1. Inv => ZeroedIsZero
  BY DEF Inv, ZeroInv
<1> QED
  BY AlwaysTyped, InitInv, NextInv, <1>1, PTL DEF Spec
=============================================================================
