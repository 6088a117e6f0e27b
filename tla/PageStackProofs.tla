-------------------------- MODULE PageStackProofs --------------------------
(***************************************************************************)
(* PageStack for any number of threads and entries, under the scheduling   *)
(* assumption NoFullWrap that Next includes: its type invariant, exclusive *)
(* ownership of entries, the bound `count` gives, and that it implements   *)
(* AtomicStack.                                                            *)
(***************************************************************************)
EXTENDS PageStack, FiniteSetTheorems, SequenceTheorems, TLAPS

(* A leaf that names no prover is tried with SMT, with Zenon and, if the   *)
(* machine was too busy for either, with SMT once more.                    *)
USE SMTT(10), ZenonT(20), SMTT(30)

(* The chain behind the head, described without walking it: `rank` numbers *)
(* the entries of the stack from the bottom, 1 to `depth`, and is 0 for    *)
(* every entry outside it.                                                 *)
Ranked(rank, depth) ==
    /\ rank \in [Entries -> Nat]
    /\ depth \in Nat
    /\ \A e \in Entries : rank[e] <= depth
    /\ \A k \in 1..depth : \E e \in Entries : rank[e] = k
    /\ \A e, f \in Entries : rank[e] > 0 /\ rank[e] = rank[f] => e = f
    /\ IF depth = 0 THEN head.index = Nil
       ELSE head.index \in Entries /\ rank[head.index] = depth
    /\ \A e \in Entries : rank[e] = 1 => link[e] = Nil
    /\ \A e \in Entries :
           rank[e] > 1 => link[e] \in Entries /\ rank[link[e]] = rank[e] - 1
    /\ \A t \in Threads : \A e \in held[t] : rank[e] = 0

(* No entry has two owners.                                                *)
Disjoint == \A t, u \in Threads : t # u => held[t] \cap held[u] = {}

(* What a thread remembers is true of the head it would replace.           *)
Remembered(t) ==
    /\ pc[t] \in {"push_load", "push_link", "push_cas"} => entry[t] \in held[t]
    /\ pc[t] = "push_cas" => link[entry[t]] = snap[t].index
    /\ pc[t] \in {"pop_link", "pop_cas"} => snap[t].index \in Entries
    /\ InFlight(t) /\ snap[t].version = head.version => snap[t] = head
    /\ pc[t] = "pop_cas" /\ snap[t] = head => next[t] = link[head.index]

(* Threads that have counted their entry and not yet linked it, or have    *)
(* unlinked one and not yet uncounted it.                                  *)
Pending ==
    {t \in Threads : pc[t] \in {"push_load", "push_link", "push_cas", "pop_count"}}

Counted(depth) == count = depth + Cardinality(Pending)

(* The inductive invariant.  TypeOK and ExclusiveOwnership are not         *)
(* inductive by themselves: a stale pop is harmless only because the       *)
(* version tells it from a current one, and a current one only because the *)
(* link it remembers is the link of an entry nobody may write.             *)
StackInv ==
    /\ TypeOK
    /\ Disjoint
    /\ \A t \in Threads : Remembered(t)
    /\ \E rank, depth : Ranked(rank, depth) /\ Counted(depth)

LEMMA PendingFinite == IsFiniteSet(Pending)
BY ThreadsAssumption, FS_Subset DEF Pending

(* The count of pending threads after one more, or one less, of them.      *)
LEMMA PendingGrows ==
    ASSUME NEW t \in Threads, t \notin Pending, Pending' = Pending \cup {t}
    PROVE  Cardinality(Pending') = Cardinality(Pending) + 1
BY PendingFinite, FS_AddElement, ZenonT(30)

LEMMA PendingShrinks ==
    ASSUME NEW t \in Threads, t \in Pending, Pending' = Pending \ {t}
    PROVE  Cardinality(Pending') = Cardinality(Pending) - 1
BY PendingFinite, FS_RemoveElement

LEMMA PendingNat == Cardinality(Pending) \in Nat
BY PendingFinite, FS_CardinalityType

LEMMA PendingPositive ==
    ASSUME NEW t \in Threads, t \in Pending
    PROVE  Cardinality(Pending) >= 1
<1>1. Cardinality(Pending) # 0
  BY PendingFinite, FS_EmptySet
<1> QED
  BY <1>1, PendingNat

LEMMA InitStackInv == Init => StackInv
<1> SUFFICES ASSUME Init PROVE StackInv
  OBVIOUS
<1>1. TypeOK
  <2>1. PICK carver \in [Entries -> Threads] :
            held = [t \in Threads |-> {e \in Entries : carver[e] = t}]
    BY DEF Init
  <2>2. head \in Heads
    BY ModulusAssumption DEF Init, Heads, Index
  <2> QED
    BY <2>1, <2>2 DEF Init, TypeOK, Index, Labels
<1>2. Disjoint
  BY DEF Init, Disjoint
<1>3. \A t \in Threads : Remembered(t)
  BY DEF Init, Remembered, InFlight
<1>4. Ranked([e \in Entries |-> 0], 0)
  BY <1>1 DEF Init, Ranked, TypeOK
<1>5. Counted(0)
  <2>1. Pending = {}
    BY DEF Init, Pending
  <2> QED
    BY <2>1, FS_EmptySet DEF Init, Counted
<1> QED
  BY <1>1, <1>2, <1>3, <1>4, <1>5 DEF StackInv

(* What an action that leaves the chain alone must show of it.             *)
LEMMA RankedKept ==
    ASSUME NEW rank, NEW depth, Ranked(rank, depth),
           head' = head, link' = link, held' = held
    PROVE  Ranked(rank, depth)'
BY DEF Ranked

(* A successful compare-exchange changes the head.                         *)
LEMMA VersionMoves ==
    ASSUME TypeOK, head'.version = (head.version + 1) % VersionModulus
    PROVE  head' # head
<1>1. head.version \in 0..(VersionModulus - 1)
  BY DEF TypeOK, Heads
<1>2. (head.version + 1) % VersionModulus # head.version
  <2>1. CASE head.version = VersionModulus - 1
    BY <1>1, <2>1, ModulusAssumption
  <2>2. CASE head.version < VersionModulus - 1
    BY <1>1, <2>2, ModulusAssumption
  <2> QED
    BY <1>1, <2>1, <2>2, ModulusAssumption
<1> QED
  BY <1>2

LEMMA PushBeginStep ==
    ASSUME StackInv, NEW t \in Threads, NEW e \in Entries, PushBegin(t, e)
    PROVE  StackInv'
<1> USE DEF StackInv
<1>1. TypeOK' /\ Disjoint'
  BY DEF PushBegin, Goto, TypeOK, Disjoint, Index, Labels
<1>2. ASSUME NEW u \in Threads PROVE Remembered(u)'
  BY DEF PushBegin, Goto, TypeOK, Remembered, InFlight
<1>3. PICK rank, depth : Ranked(rank, depth) /\ Counted(depth)
  OBVIOUS
<1>4. Ranked(rank, depth)'
  BY <1>3, RankedKept DEF PushBegin
<1>5. Counted(depth)'
  <2>1. t \notin Pending /\ Pending' = Pending \cup {t}
    BY DEF PushBegin, Goto, TypeOK, Pending
  <2>2. Cardinality(Pending') = Cardinality(Pending) + 1
    BY <2>1, PendingGrows, ZenonT(30)
  <2> QED
    BY <2>2, <1>3, PendingNat DEF Counted, PushBegin, Ranked
<1> QED
  BY <1>1, <1>2, <1>4, <1>5

LEMMA PushLoadStep ==
    ASSUME StackInv, NEW t \in Threads, PushLoad(t)
    PROVE  StackInv'
<1> USE DEF StackInv
<1>1. TypeOK' /\ Disjoint'
  BY DEF PushLoad, Goto, TypeOK, Disjoint, Labels
<1>2. ASSUME NEW u \in Threads PROVE Remembered(u)'
  BY DEF PushLoad, Goto, TypeOK, Remembered, InFlight
<1>3. PICK rank, depth : Ranked(rank, depth) /\ Counted(depth)
  OBVIOUS
<1>4. Ranked(rank, depth)'
  BY <1>3, RankedKept DEF PushLoad
<1>5. Counted(depth)'
  <2>1. Pending' = Pending
    BY DEF PushLoad, Goto, TypeOK, Pending
  <2> QED
    BY <2>1, <1>3 DEF Counted, PushLoad
<1> QED
  BY <1>1, <1>2, <1>4, <1>5

(* The only write of a link word: the entry belongs to the writer, so it   *)
(* is neither in the chain nor the top another thread remembers.           *)
LEMMA PushLinkChain ==
    ASSUME StackInv, NEW t \in Threads, PushLink(t),
           NEW rank, NEW depth, Ranked(rank, depth)
    PROVE  Ranked(rank, depth)'
<1>1. entry[t] \in held[t] /\ entry[t] \in Entries /\ rank[entry[t]] = 0
  BY DEF StackInv, PushLink, Remembered, Ranked, TypeOK
<1>2. \A e \in Entries : rank[e] > 0 => link'[e] = link[e]
  BY <1>1 DEF StackInv, PushLink, TypeOK
<1> QED
  BY <1>2 DEF PushLink, Ranked

LEMMA PushLinkStep ==
    ASSUME StackInv, NEW t \in Threads, PushLink(t)
    PROVE  StackInv'
<1> USE DEF StackInv
<1>1. TypeOK' /\ Disjoint'
  BY ZenonT(30) DEF PushLink, Goto, TypeOK, Disjoint, Labels, Heads
<1>2. PICK rank, depth : Ranked(rank, depth) /\ Counted(depth)
  OBVIOUS
<1>3. entry[t] \in held[t] /\ entry[t] \in Entries /\ rank[entry[t]] = 0
  BY <1>2 DEF PushLink, Remembered, Ranked, TypeOK
<1>4. head.index # entry[t]
  BY <1>2, <1>3, EntriesAssumption DEF Ranked
<1>5. ASSUME NEW u \in Threads PROVE Remembered(u)'
  <2>1. Remembered(u)
    OBVIOUS
  <2>2. u # t /\ pc[u] = "push_cas" => entry[u] # entry[t]
    BY <2>1, <1>3 DEF Disjoint, Remembered
  <2>3. CASE u = t
    BY <2>1, <2>3, <1>3 DEF PushLink, Goto, TypeOK, Remembered, InFlight
  <2>4. CASE u # t
    <3>1. /\ pc'[u] = pc[u] /\ entry'[u] = entry[u] /\ held'[u] = held[u]
          /\ snap'[u] = snap[u] /\ next'[u] = next[u] /\ head' = head
      BY <2>4 DEF PushLink, Goto, TypeOK
    <3>2. pc[u] = "push_cas" => link'[entry[u]] = link[entry[u]]
      BY <2>1, <2>2, <2>4 DEF PushLink, TypeOK, Remembered
    <3>3. pc[u] = "pop_cas" /\ snap[u] = head => link'[head.index] = link[head.index]
      BY <2>1, <1>4 DEF PushLink, TypeOK, Remembered
    <3> QED
      BY <2>1, <3>1, <3>2, <3>3 DEF Remembered, InFlight
  <2> QED
    BY <2>3, <2>4
<1>6. Ranked(rank, depth)'
  BY <1>2, PushLinkChain
<1>7. Counted(depth)'
  <2>1. Pending' = Pending
    BY DEF PushLink, Goto, TypeOK, Pending
  <2> QED
    BY <2>1, <1>2 DEF Counted, PushLink
<1> QED
  BY <1>1, <1>5, <1>6, <1>7

(* A failed compare-exchange only reads the head again.                    *)
LEMMA RetryStep ==
    ASSUME StackInv, NEW t \in Threads,
           \/ pc[t] = "push_cas" /\ pc' = [pc EXCEPT ![t] = "push_link"]
           \/ /\ pc[t] = "pop_cas"
              /\ pc' = [pc EXCEPT ![t] = IF head.index = Nil THEN "idle" ELSE "pop_link"],
           snap' = [snap EXCEPT ![t] = head],
           UNCHANGED <<head, held, count, link, entry, next>>
    PROVE  StackInv'
<1> USE DEF StackInv
<1>1. TypeOK' /\ Disjoint'
  BY DEF TypeOK, Disjoint, Labels
<1>2. ASSUME NEW u \in Threads PROVE Remembered(u)'
  BY DEF TypeOK, Remembered, InFlight, Heads, Index
<1>3. PICK rank, depth : Ranked(rank, depth) /\ Counted(depth)
  OBVIOUS
<1>4. Ranked(rank, depth)'
  BY <1>3, RankedKept
<1>5. Counted(depth)'
  <2>1. Pending' = Pending
    BY DEF TypeOK, Pending
  <2> QED
    BY <2>1, <1>3 DEF Counted
<1> QED
  BY <1>1, <1>2, <1>4, <1>5

(* The compare-exchanges that succeed.                                     *)
Pushed(t) ==
    /\ pc[t] = "push_cas" /\ head = snap[t]
    /\ head' = Successor(snap[t], entry[t])
    /\ held' = [held EXCEPT ![t] = @ \ {entry[t]}]
    /\ pc' = [pc EXCEPT ![t] = "idle"]
    /\ UNCHANGED <<snap, count, link, entry, next>>

Popped(t) ==
    /\ pc[t] = "pop_cas" /\ head = snap[t]
    /\ head' = Successor(snap[t], next[t])
    /\ held' = [held EXCEPT ![t] = @ \cup {snap[t].index}]
    /\ pc' = [pc EXCEPT ![t] = "pop_count"]
    /\ UNCHANGED <<snap, count, link, entry, next>>

(* A push puts its entry above the chain that was there.                   *)
LEMMA PushedChain ==
    ASSUME StackInv, NEW t \in Threads, Pushed(t),
           NEW rank, NEW depth, Ranked(rank, depth)
    PROVE  Ranked([rank EXCEPT ![entry[t]] = depth + 1], depth + 1)'
<1> DEFINE rk == [rank EXCEPT ![entry[t]] = depth + 1]
<1> USE DEF Pushed
<1>1. /\ entry[t] \in held[t] /\ entry[t] \in Entries /\ rank[entry[t]] = 0
      /\ link[entry[t]] = head.index /\ head'.index = entry[t]
  BY DEF StackInv, Remembered, Ranked, TypeOK, Successor
<1>2. /\ rk \in [Entries -> Nat] /\ rk[entry[t]] = depth + 1
      /\ \A e \in Entries \ {entry[t]} : rk[e] = rank[e]
  BY <1>1 DEF Ranked
<1>3. \A u \in Threads : \A e \in held'[u] : e \in Entries /\ e # entry[t] /\ rank[e] = 0
  BY <1>1 DEF StackInv, Ranked, Disjoint, TypeOK
<1>4. \A u \in Threads : \A e \in held'[u] : rk[e] = 0
  BY <1>2, <1>3
<1>5. \A e \in Entries : rk[e] = 1 => link[e] = Nil
  BY <1>1, <1>2 DEF Ranked
<1>6. \A e \in Entries :
          rk[e] > 1 => link[e] \in Entries /\ rk[link[e]] = rk[e] - 1
  BY <1>1, <1>2 DEF Ranked
<1>7. \A e, f \in Entries : rk[e] > 0 /\ rk[e] = rk[f] => e = f
  BY <1>1, <1>2 DEF Ranked
<1>8. \A k \in 1..(depth + 1) : \E e \in Entries : rk[e] = k
  BY <1>1, <1>2 DEF Ranked
<1> HIDE DEF rk
<1> QED
  BY <1>1, <1>2, <1>4, <1>5, <1>6, <1>7, <1>8 DEF Ranked

(* A pop takes the top entry off the chain: the head had not changed since *)
(* it was read, so the link read from its entry is the one below it.       *)
LEMMA PoppedChain ==
    ASSUME StackInv, NEW t \in Threads, Popped(t),
           NEW rank, NEW depth, Ranked(rank, depth)
    PROVE  /\ head.index \in Entries /\ depth > 0 /\ rank[head.index] = depth
           /\ \E rk : rk = [rank EXCEPT ![head.index] = 0] /\ Ranked(rk, depth - 1)'
<1> DEFINE top == head.index
<1> USE DEF Popped
<1>1. /\ top \in Entries /\ depth > 0 /\ rank[top] = depth
      /\ head'.index = link[top]
  BY EntriesAssumption DEF StackInv, Remembered, Ranked, Successor
<1>2. PICK rk : rk = [rank EXCEPT ![top] = 0]
  BY ZenonT(30)
<1>3. /\ rk \in [Entries -> Nat] /\ rk[top] = 0
      /\ \A e \in Entries \ {top} : rk[e] = rank[e]
  BY <1>1, <1>2 DEF Ranked
<1>4. \A e \in Entries : rk[e] <= depth - 1
  BY <1>1, <1>3 DEF Ranked
<1>5. \A u \in Threads : \A e \in held'[u] : e \in Entries /\ (e = top \/ rank[e] = 0)
  BY <1>1 DEF StackInv, Ranked, TypeOK
<1>6. \A u \in Threads : \A e \in held'[u] : rk[e] = 0
  BY <1>3, <1>5
<1>7. \A e \in Entries : rk[e] = 1 => link[e] = Nil
  BY <1>3 DEF Ranked
<1>8. \A e \in Entries :
          rk[e] > 1 => link[e] \in Entries /\ rk[link[e]] = rk[e] - 1
  BY <1>1, <1>3 DEF Ranked
<1>9. \A e, f \in Entries : rk[e] > 0 /\ rk[e] = rk[f] => e = f
  BY <1>3 DEF Ranked
<1>10. IF depth - 1 = 0 THEN link[top] = Nil
       ELSE link[top] \in Entries /\ rk[link[top]] = depth - 1
  BY <1>1, <1>3 DEF Ranked
<1>11. depth - 1 \in Nat
  BY <1>1 DEF Ranked
<1>12. \A k \in 1..(depth - 1) : \E e \in Entries : rk[e] = k
  <2> SUFFICES ASSUME NEW k \in 1..(depth - 1) PROVE \E e \in Entries : rk[e] = k
    OBVIOUS
  <2>1. PICK e \in Entries : rank[e] = k
    BY <1>11 DEF Ranked
  <2>2. e # top
    BY <1>1, <1>11, <2>1
  <2> QED
    BY <1>3, <2>1, <2>2
<1>13. Ranked(rk, depth - 1)'
  BY <1>1, <1>3, <1>4, <1>6, <1>7, <1>8, <1>9, <1>10, <1>11, <1>12 DEF Ranked
<1> QED
  BY <1>1, <1>2, <1>13, ZenonT(30)

(* A successful push gives the head a version no thread in flight has.     *)
LEMMA PushCasStep ==
    ASSUME StackInv, NEW t \in Threads, PushCas(t), NoFullWrap
    PROVE  StackInv'
<1> USE DEF StackInv
<1>1. ASSUME pc[t] = "push_cas",
             snap' = [snap EXCEPT ![t] = head],
             pc' = [pc EXCEPT ![t] = "push_link"],
             UNCHANGED <<head, held, count, link, entry, next>>
      PROVE  StackInv'
  BY <1>1, RetryStep, ZenonT(30)
<1>2. ASSUME Pushed(t)
      PROVE  StackInv'
  <2> USE DEF Pushed
  <2>1. PICK rank, depth : Ranked(rank, depth) /\ Counted(depth)
    OBVIOUS
  <2>2. /\ entry[t] \in held[t] /\ entry[t] \in Entries /\ rank[entry[t]] = 0
        /\ link[entry[t]] = head.index
    BY <1>2, <2>1 DEF Remembered, Ranked, TypeOK
  <2>3. /\ head'.index = entry[t]
        /\ head'.version = (head.version + 1) % VersionModulus
    BY <1>2 DEF Successor
  <2>4. TypeOK'
    <3>1. head' \in Heads
      BY <1>2, <2>2, ModulusAssumption DEF Successor, Heads, Index, TypeOK
    <3> QED
      BY <1>2, <3>1 DEF TypeOK, Labels
  <2>5. Disjoint'
    BY <1>2 DEF Disjoint, TypeOK
  <2>6. ASSUME NEW u \in Threads PROVE Remembered(u)'
    <3>1. CASE u = t
      BY <1>2, <3>1 DEF Remembered, InFlight, TypeOK
    <3>2. CASE u # t
      <4>1. Remembered(u) /\ pc'[u] = pc[u] /\ held'[u] = held[u]
        BY <1>2, <3>2 DEF TypeOK
      <4>2. InFlight(u) => snap[u].version # head'.version
        BY <2>3, VersionMoves DEF NoFullWrap
      <4> QED
        BY <1>2, <4>1, <4>2 DEF Remembered, InFlight
    <3> QED
      BY <3>1, <3>2
  <2>7. Ranked([rank EXCEPT ![entry[t]] = depth + 1], depth + 1)'
    BY <1>2, <2>1, PushedChain, ZenonT(30)
  <2>8. Counted(depth + 1)'
    <3>1. t \in Pending /\ Pending' = Pending \ {t}
      BY <1>2 DEF TypeOK, Pending
    <3>2. Cardinality(Pending') = Cardinality(Pending) - 1
      BY <3>1, PendingShrinks
    <3> QED
      BY <3>2, <2>1, <1>2, PendingNat DEF Counted, Ranked
  <2> QED
    BY <2>4, <2>5, <2>6, <2>7, <2>8
<1> QED
  BY <1>1, <1>2, ZenonT(30) DEF PushCas, Pushed, Goto

LEMMA PopLoadStep ==
    ASSUME StackInv, NEW t \in Threads, PopLoad(t)
    PROVE  StackInv'
<1> USE DEF StackInv
<1>1. TypeOK' /\ Disjoint'
  BY DEF PopLoad, Goto, TypeOK, Disjoint, Labels
<1>2. ASSUME NEW u \in Threads PROVE Remembered(u)'
  BY DEF PopLoad, Goto, TypeOK, Remembered, InFlight, Heads, Index
<1>3. PICK rank, depth : Ranked(rank, depth) /\ Counted(depth)
  OBVIOUS
<1>4. Ranked(rank, depth)'
  BY <1>3, RankedKept DEF PopLoad
<1>5. Counted(depth)'
  <2>1. Pending' = Pending
    BY DEF PopLoad, Goto, TypeOK, Pending
  <2> QED
    BY <2>1, <1>3 DEF Counted, PopLoad
<1> QED
  BY <1>1, <1>2, <1>4, <1>5

LEMMA PopLinkStep ==
    ASSUME StackInv, NEW t \in Threads, PopLink(t)
    PROVE  StackInv'
<1> USE DEF StackInv
<1>1. TypeOK' /\ Disjoint'
  BY DEF PopLink, Goto, TypeOK, Disjoint, Labels, Remembered
<1>2. ASSUME NEW u \in Threads PROVE Remembered(u)'
  BY DEF PopLink, Goto, TypeOK, Remembered, InFlight
<1>3. PICK rank, depth : Ranked(rank, depth) /\ Counted(depth)
  OBVIOUS
<1>4. Ranked(rank, depth)'
  BY <1>3, RankedKept DEF PopLink
<1>5. Counted(depth)'
  <2>1. Pending' = Pending
    BY DEF PopLink, Goto, TypeOK, Pending
  <2> QED
    BY <2>1, <1>3 DEF Counted, PopLink
<1> QED
  BY <1>1, <1>2, <1>4, <1>5

(* A successful pop: the head had not changed since it was read, so the    *)
(* link read from its top entry is still the one below it.                 *)
LEMMA PopCasStep ==
    ASSUME StackInv, NEW t \in Threads, PopCas(t), NoFullWrap
    PROVE  StackInv'
<1> USE DEF StackInv
<1>1. ASSUME pc[t] = "pop_cas",
             snap' = [snap EXCEPT ![t] = head],
             pc' = [pc EXCEPT ![t] = IF head.index = Nil THEN "idle" ELSE "pop_link"],
             UNCHANGED <<head, held, count, link, entry, next>>
      PROVE  StackInv'
  BY <1>1, RetryStep, ZenonT(30)
<1>2. ASSUME Popped(t)
      PROVE  StackInv'
  <2> USE DEF Popped
  <2> DEFINE top == head.index
  <2>1. PICK rank, depth : Ranked(rank, depth) /\ Counted(depth)
    OBVIOUS
  <2>2. /\ top \in Entries /\ depth > 0 /\ rank[top] = depth
        /\ next[t] = link[top]
    BY <1>2, <2>1, EntriesAssumption DEF Remembered, Ranked
  <2>3. \A u \in Threads : top \notin held[u]
    BY <2>1, <2>2 DEF Ranked
  <2>4. /\ head'.index = link[top]
        /\ head'.version = (head.version + 1) % VersionModulus
    BY <1>2, <2>2 DEF Successor
  <2>5. TypeOK'
    <3>1. head' \in Heads
      BY <1>2, ModulusAssumption DEF Successor, Heads, TypeOK
    <3>2. held' \in [Threads -> SUBSET Entries]
      BY <1>2, <2>2 DEF TypeOK
    <3> QED
      BY <1>2, <3>1, <3>2 DEF TypeOK, Labels
  <2>6. Disjoint'
    BY <1>2, <2>3 DEF Disjoint, TypeOK
  <2>7. ASSUME NEW u \in Threads PROVE Remembered(u)'
    <3>1. CASE u = t
      BY <1>2, <3>1 DEF Remembered, InFlight, TypeOK
    <3>2. CASE u # t
      <4>1. Remembered(u) /\ pc'[u] = pc[u] /\ held'[u] = held[u]
        BY <1>2, <3>2 DEF TypeOK
      <4>2. InFlight(u) => snap[u].version # head'.version
        BY <2>4, VersionMoves DEF NoFullWrap
      <4> QED
        BY <1>2, <4>1, <4>2 DEF Remembered, InFlight
    <3> QED
      BY <3>1, <3>2
  <2>9. \E rk : Ranked(rk, depth - 1)'
    BY <1>2, <2>1, PoppedChain, ZenonT(30)
  <2>10. Counted(depth - 1)'
    <3>1. t \notin Pending /\ Pending' = Pending \cup {t}
      BY <1>2 DEF TypeOK, Pending
    <3>2. Cardinality(Pending') = Cardinality(Pending) + 1
      BY <3>1, PendingGrows
    <3> QED
      BY <3>2, <2>1, <1>2, PendingNat DEF Counted, Ranked
  <2> QED
    BY <2>5, <2>6, <2>7, <2>9, <2>10
<1> QED
  BY <1>1, <1>2, ZenonT(30) DEF PopCas, Popped, Goto

(* The count is positive when a finished pop lowers it: the popping thread *)
(* is itself still counted.                                                *)
LEMMA PopCountStep ==
    ASSUME StackInv, NEW t \in Threads, PopCount(t)
    PROVE  StackInv'
<1> USE DEF StackInv
<1>1. PICK rank, depth : Ranked(rank, depth) /\ Counted(depth)
  OBVIOUS
<1>2. t \in Pending /\ Pending' = Pending \ {t}
  BY DEF PopCount, Goto, TypeOK, Pending
<1>3. Cardinality(Pending') = Cardinality(Pending) - 1
  BY <1>2, PendingShrinks
<1>4. count' = depth + Cardinality(Pending') /\ count' \in Nat
  BY <1>1, <1>2, <1>3, PendingNat, PendingPositive
  DEF Counted, Ranked, PopCount
<1>5. TypeOK' /\ Disjoint'
  BY <1>4 DEF PopCount, Goto, TypeOK, Disjoint, Labels
<1>6. ASSUME NEW u \in Threads PROVE Remembered(u)'
  BY DEF PopCount, Goto, TypeOK, Remembered, InFlight
<1>7. Ranked(rank, depth)'
  BY <1>1, RankedKept DEF PopCount
<1>8. Counted(depth)'
  BY <1>4 DEF Counted
<1> QED
  BY <1>5, <1>6, <1>7, <1>8

LEMMA StutterStep ==
    ASSUME StackInv, UNCHANGED vars
    PROVE  StackInv'
<1>1. TypeOK' /\ Disjoint' /\ (\A u \in Threads : Remembered(u)')
  BY DEF StackInv, vars, TypeOK, Disjoint, Remembered, InFlight
<1>2. PICK rank, depth : Ranked(rank, depth) /\ Counted(depth)
  BY DEF StackInv
<1>3. Ranked(rank, depth)' /\ Counted(depth)'
  BY <1>2, RankedKept DEF vars, Counted, Pending
<1> QED
  BY <1>1, <1>3 DEF StackInv

(* StackInv holds throughout.                                              *)
THEOREM StackInvariance == Spec => []StackInv
<1>1. Init => StackInv
  BY InitStackInv
<1>2. StackInv /\ [Next]_vars => StackInv'
  <2> SUFFICES ASSUME StackInv, [Next]_vars PROVE StackInv'
    OBVIOUS
  <2>1. ASSUME NEW t \in Threads, NEW e \in Entries, PushBegin(t, e)
        PROVE  StackInv'
    BY <2>1, PushBeginStep
  <2>2. ASSUME NEW t \in Threads, PushLoad(t) PROVE StackInv'
    BY <2>2, PushLoadStep
  <2>3. ASSUME NEW t \in Threads, PushLink(t) PROVE StackInv'
    BY <2>3, PushLinkStep
  <2>4. ASSUME NEW t \in Threads, PushCas(t), NoFullWrap PROVE StackInv'
    BY <2>4, PushCasStep
  <2>5. ASSUME NEW t \in Threads, PopLoad(t) PROVE StackInv'
    BY <2>5, PopLoadStep
  <2>6. ASSUME NEW t \in Threads, PopLink(t) PROVE StackInv'
    BY <2>6, PopLinkStep
  <2>7. ASSUME NEW t \in Threads, PopCas(t), NoFullWrap PROVE StackInv'
    BY <2>7, PopCasStep
  <2>8. ASSUME NEW t \in Threads, PopCount(t) PROVE StackInv'
    BY <2>8, PopCountStep
  <2>9. CASE UNCHANGED vars
    BY <2>9, StutterStep
  <2> QED
    BY <2>1, <2>2, <2>3, <2>4, <2>5, <2>6, <2>7, <2>8, <2>9 DEF Next, Step
<1> QED
  BY <1>1, <1>2, PTL DEF Spec

(* Types, for every number of threads and entries; `count` staying a       *)
(* natural number is the code's claim that it never underflows.            *)
THEOREM TypeCorrect == Spec => []TypeOK
<1>1. StackInv => TypeOK
  BY DEF StackInv
<1> QED
  BY <1>1, StackInvariance, PTL

(* No entry is ever handed to two callers, for every number of threads and *)
(* entries: the entry under a sleeping `pop` may be popped and pushed back *)
(* meanwhile.  Spec includes NoFullWrap: the theorem says nothing of a     *)
(* thread that sleeps through a whole turn of the version.                 *)
THEOREM OwnershipIsExclusive == Spec => []ExclusiveOwnership
<1>1. StackInv => ExclusiveOwnership
  <2> SUFFICES ASSUME StackInv PROVE ExclusiveOwnership
    OBVIOUS
  <2>1. PICK rank, depth : Ranked(rank, depth)
    BY DEF StackInv
  <2>2. \A t \in Threads : head.index \notin held[t]
    BY <2>1, EntriesAssumption DEF StackInv, Ranked, TypeOK
  <2> QED
    BY <2>2 DEF StackInv, Disjoint, ExclusiveOwnership
<1> QED
  BY <1>1, StackInvariance, PTL
----------------------------------------------------------------------------
(* Induction, as the existence of a least counterexample.                  *)
LEMMA LeastNat ==
    ASSUME NEW S, S \subseteq Nat, S # {}
    PROVE  \E m \in S : \A k \in S : m <= k
<1> DEFINE R == {ss \in Nat \X Nat : ss[1] < ss[2]}
<1>1. IsWellFoundedOn(R, Nat)
  BY NatLessThanWellFounded DEF OpToRel
<1>2. PICK x \in S : \A y \in S : ~ (<<y, x>> \in R)
  BY <1>1, WFMin
<1>3. \A y \in S : ~(y < x)
  BY <1>2
<1> QED
  BY <1>3

(* No more ranks than entries, so Walk goes far enough to see them all.    *)
LEMMA DepthFits ==
    ASSUME NEW rank, NEW depth, Ranked(rank, depth)
    PROVE  depth <= Cardinality(Entries) /\ Cardinality(Entries) \in Nat
<1>1. PICK f \in [1..depth -> Entries] : \A k \in 1..depth : rank[f[k]] = k
  <2> DEFINE f == [k \in 1..depth |-> CHOOSE e \in Entries : rank[e] = k]
  <2>1. \A k \in 1..depth : f[k] \in Entries /\ rank[f[k]] = k
    BY DEF Ranked
  <2> QED
    BY <2>1
<1>2. f \in Injection(1..depth, Entries)
  BY <1>1 DEF Injection, IsInjective
<1>3. depth \in Nat /\ Cardinality(1..depth) = depth
  BY FS_Interval DEF Ranked
<1>4. Cardinality(1..depth) <= Cardinality(Entries)
  BY <1>2, FS_Injection, EntriesAssumption
<1> QED
  BY <1>3, <1>4, EntriesAssumption, FS_CardinalityType

(* Following the links meets the entries from the highest rank down.  The  *)
(* function `w` satisfies the recursion of Walk, so Walk does; then the    *)
(* least index where Walk goes wrong is impossible.                        *)
LEMMA WalkIs ==
    ASSUME TypeOK, NEW rank, NEW depth, Ranked(rank, depth)
    PROVE  /\ DOMAIN Walk = 0..Cardinality(Entries)
           /\ \A i \in 0..Cardinality(Entries) :
               IF i < depth THEN Walk[i] \in Entries /\ rank[Walk[i]] = depth - i
               ELSE Walk[i] = Nil
<1> DEFINE N == Cardinality(Entries)
           Rest(w, i) == IF i = 0 THEN head.index
                         ELSE IF w[i - 1] = Nil THEN Nil ELSE link[w[i - 1]]
           Good(w, i) == IF i < depth THEN w[i] \in Entries /\ rank[w[i]] = depth - i
                         ELSE w[i] = Nil
<1>1. N \in Nat /\ depth \in Nat /\ depth <= N
  BY DepthFits DEF Ranked
<1>2. PICK w : w = [i \in 0..N |-> IF i < depth THEN CHOOSE e \in Entries : rank[e] = depth - i
                                   ELSE Nil]
  OBVIOUS
<1>3. ASSUME NEW i \in 0..N PROVE Good(w, i)
  <2>1. CASE i < depth
    <3>1. depth - i \in 1..depth
      BY <1>1, <2>1
    <3>2. \E e \in Entries : rank[e] = depth - i
      BY <3>1 DEF Ranked
    <3> QED
      BY <1>2, <2>1, <3>2
  <2> QED
    BY <1>2, <2>1, <1>1
<1>4. ASSUME NEW i \in 0..N PROVE w[i] = Rest(w, i)
  <2>1. CASE i = 0
    BY <1>1, <1>3, <2>1 DEF Ranked
  <2>2. CASE i > 0
    <3>1. i - 1 \in 0..N /\ Good(w, i) /\ Good(w, i - 1)
      BY <1>1, <1>3, <2>2
    <3>2. CASE i < depth
      BY <1>1, <2>2, <3>1, <3>2, EntriesAssumption DEF Ranked
    <3>3. CASE i >= depth
      BY <1>1, <2>2, <3>1, <3>3, EntriesAssumption DEF Ranked
    <3> QED
      BY <3>2, <3>3, <1>1
  <2> QED
    BY <2>1, <2>2, <1>1
<1>5. w = [i \in 0..N |-> Rest(w, i)]
  BY <1>2, <1>4
<1>6. Walk = [i \in 0..N |-> Rest(Walk, i)]
  BY <1>5, Zenon DEF Walk
<1>7. \A i \in 0..N : Good(Walk, i)
  <2> DEFINE Wrong == {i \in 0..N : ~Good(Walk, i)}
  <2> SUFFICES ASSUME Wrong # {} PROVE FALSE
    OBVIOUS
  <2>1. PICK m \in Wrong : \A k \in Wrong : m <= k
    <3>1. Wrong \subseteq Nat
      BY <1>1
    <3> HIDE DEF Wrong
    <3> QED
      BY <3>1, LeastNat
  <2>2. CASE m = 0
    BY <1>1, <1>6, <2>1, <2>2 DEF Ranked
  <2>3. CASE m > 0
    <3>1. m \in 0..N /\ m - 1 \in 0..N /\ Good(Walk, m - 1)
      BY <1>1, <2>1, <2>3
    <3>2. Walk[m] = Rest(Walk, m)
      BY <1>6, <3>1
    <3>3. Walk[m - 1] = w[m - 1]
      BY <1>3, <3>1 DEF Ranked
    <3> QED
      BY <3>1, <3>2, <3>3, <1>3, <1>4, <2>1, <2>3 DEF Ranked
  <2> QED
    BY <1>1, <2>1, <2>2, <2>3
<1> QED
  BY <1>6, <1>7

LEMMA DepthIs ==
    ASSUME TypeOK, NEW rank, NEW depth, Ranked(rank, depth)
    PROVE  Depth = depth /\ depth \in Nat
<1>1. /\ depth \in Nat /\ Cardinality(Entries) \in Nat
      /\ depth <= Cardinality(Entries)
  BY DepthFits DEF Ranked
<1>2. DOMAIN Walk = 0..Cardinality(Entries)
  BY WalkIs
<1>3. {i \in DOMAIN Walk : Walk[i] # Nil} = 0..(depth - 1)
  BY <1>1, <1>2, WalkIs, EntriesAssumption
<1>4. Cardinality(0..(depth - 1)) = depth
  BY <1>1, FS_Interval
<1> QED
  BY <1>1, <1>3, <1>4 DEF Depth

(* The chain as a sequence, top first.                                     *)
LEMMA ContentsAre ==
    ASSUME TypeOK, NEW rank, NEW depth, Ranked(rank, depth)
    PROVE  /\ Contents \in Seq(Entries) /\ Len(Contents) = depth
           /\ \A i \in 1..depth : rank[Contents[i]] = depth + 1 - i
<1>1. /\ depth \in Nat /\ Cardinality(Entries) \in Nat
      /\ depth <= Cardinality(Entries) /\ Depth = depth
  BY DepthFits, DepthIs
<1>2. Contents = [i \in 1..depth |-> Walk[i - 1]]
  BY <1>1 DEF Contents
<1>3. \A i \in 1..depth : Walk[i - 1] \in Entries /\ rank[Walk[i - 1]] = depth + 1 - i
  <2> SUFFICES ASSUME NEW i \in 1..depth
               PROVE  Walk[i - 1] \in Entries /\ rank[Walk[i - 1]] = depth + 1 - i
    OBVIOUS
  <2>1. i - 1 \in 0..Cardinality(Entries) /\ i - 1 < depth /\ depth - (i - 1) = depth + 1 - i
    BY <1>1
  <2> QED
    BY <2>1, WalkIs
<1>4. Contents \in [1..depth -> Entries]
  BY <1>2, <1>3
<1> QED
  BY <1>1, <1>2, <1>3, <1>4

(* The ranks number the sequence s downwards.                              *)
Numbers(rank, depth, s) ==
    /\ s \in Seq(Entries) /\ Len(s) = depth
    /\ \A i \in 1..depth : rank[s[i]] = depth + 1 - i

Injective(rank) == \A e, f \in Entries : rank[e] > 0 /\ rank[e] = rank[f] => e = f

(* One numbering, one sequence.                                            *)
LEMMA RankFixes ==
    ASSUME NEW rank, NEW depth \in Nat, Injective(rank),
           NEW s, Numbers(rank, depth, s), NEW r, Numbers(rank, depth, r)
    PROVE  s = r
<1>2. ASSUME NEW i \in 1..depth PROVE s[i] = r[i]
  <2>1. s[i] \in Entries /\ r[i] \in Entries /\ rank[s[i]] = rank[r[i]] /\ rank[s[i]] > 0
    BY DEF Numbers
  <2> QED
    BY <2>1 DEF Injective
<1> QED
  BY <1>2 DEF Numbers


Follows(rank, depth) == Numbers(rank, depth, Contents)

LEMMA ContentsFollow == \A rank, depth : TypeOK /\ Ranked(rank, depth) => Follows(rank, depth)
BY ContentsAre DEF Follows, Numbers

(* The same of the next state.                                             *)
LEMMA ContentsFollowNext ==
    (\A rank, depth : TypeOK /\ Ranked(rank, depth) => Follows(rank, depth))'
BY ContentsFollow, PTL

(* A step that moves no rank leaves the abstract stack alone.              *)
LEMMA SameContents ==
    ASSUME TypeOK, TypeOK', NEW rank, NEW depth, Ranked(rank, depth), Ranked(rank, depth)'
    PROVE  Contents' = Contents
<1>1. Follows(rank, depth) /\ Follows(rank, depth)'
  BY ContentsFollow, ContentsFollowNext
<1> QED
  BY <1>1, RankFixes DEF Follows, Ranked, Injective

LEMMA ConsSeq ==
    ASSUME NEW S, NEW e \in S, NEW q \in Seq(S)
    PROVE  /\ <<e>> \o q \in Seq(S) /\ Len(<<e>> \o q) = Len(q) + 1
           /\ (<<e>> \o q)[1] = e
           /\ \A i \in 1..Len(q) : (<<e>> \o q)[i + 1] = q[i]
<1>1. <<e>> \in Seq(S) /\ Len(<<e>>) = 1
  OBVIOUS
<1>2. <<e>> \o q \in Seq(S) /\ Len(<<e>> \o q) = 1 + Len(q)
  BY <1>1, ConcatProperties
<1>3. \A i \in 1..(1 + Len(q)) :
          (<<e>> \o q)[i] = IF i <= 1 THEN <<e>>[i] ELSE q[i - 1]
  BY <1>1, ConcatProperties
<1> QED
  BY <1>2, <1>3

LEMMA TailSeq ==
    ASSUME NEW S, NEW q \in Seq(S), q # <<>>
    PROVE  /\ Tail(q) \in Seq(S) /\ Len(Tail(q)) = Len(q) - 1
           /\ \A i \in 1..(Len(q) - 1) : Tail(q)[i] = q[i + 1]
OBVIOUS

LEMMA PushedContents ==
    ASSUME StackInv, StackInv', NEW t \in Threads, Pushed(t)
    PROVE  entry[t] \in held[t] /\ Contents' = <<entry[t]>> \o Contents
<1>1. PICK rank, depth : Ranked(rank, depth)
  BY DEF StackInv
<1>2. PICK rk : rk = [rank EXCEPT ![entry[t]] = depth + 1] /\ Ranked(rk, depth + 1)'
  BY <1>1, PushedChain DEF Pushed
<1>3. Follows(rank, depth) /\ Follows(rk, depth + 1)'
  BY <1>1, <1>2, ContentsFollow, ContentsFollowNext DEF StackInv
<1>4. /\ entry[t] \in held[t] /\ entry[t] \in Entries /\ rank[entry[t]] = 0
      /\ depth \in Nat /\ rank \in [Entries -> Nat]
  <2>1. Remembered(t) /\ pc[t] = "push_cas" /\ held[t] \subseteq Entries
    BY DEF StackInv, TypeOK, Pushed
  <2>2. entry[t] \in held[t]
    BY <2>1 DEF Remembered
  <2>3. /\ depth \in Nat /\ rank \in [Entries -> Nat]
        /\ \A e \in held[t] : rank[e] = 0
    BY <1>1 DEF Ranked
  <2> QED
    BY <2>1, <2>2, <2>3
<1>s. PICK s : s = <<entry[t]>> \o Contents
  OBVIOUS
<1>5. /\ s \in Seq(Entries) /\ Len(s) = depth + 1 /\ s[1] = entry[t]
      /\ \A i \in 1..depth : s[i + 1] = Contents[i]
  BY <1>s, <1>3, <1>4, ConsSeq DEF Follows, Numbers
<1>6. \A i \in 1..(depth + 1) : rk[s[i]] = (depth + 1) + 1 - i
  <2> SUFFICES ASSUME NEW i \in 1..(depth + 1) PROVE rk[s[i]] = depth + 2 - i
    BY <1>4
  <2>1. CASE i = 1
    BY <2>1, <1>2, <1>4, <1>5
  <2>2. CASE i > 1
    <3>1. i - 1 \in 1..depth /\ s[i] = Contents[i - 1]
      BY <2>2, <1>4, <1>5
    <3>2. rank[s[i]] = depth + 2 - i /\ s[i] \in Entries
      BY <3>1, <1>3, <1>4 DEF Follows, Numbers
    <3> QED
      BY <3>2, <1>2, <1>4
  <2> QED
    BY <2>1, <2>2
<1>7. Injective(rk) /\ Numbers(rk, depth + 1, s)
  BY <1>2, <1>5, <1>6 DEF Ranked, Injective, Numbers
<1>8. Contents' = s
  <2>1. depth + 1 \in Nat
    BY <1>4
  <2> QED
    BY <2>1, <1>3, <1>7, RankFixes, ZenonT(30) DEF Follows
<1> QED
  BY <1>s, <1>4, <1>8

LEMMA PoppedContents ==
    ASSUME StackInv, StackInv', NEW t \in Threads, Popped(t)
    PROVE  /\ Contents # <<>> /\ Head(Contents) = snap[t].index
           /\ Contents' = Tail(Contents)
<1>1. PICK rank, depth : Ranked(rank, depth)
  BY DEF StackInv
<1>2. /\ head.index \in Entries /\ depth > 0 /\ rank[head.index] = depth
      /\ \E rk : rk = [rank EXCEPT ![head.index] = 0] /\ Ranked(rk, depth - 1)'
  BY <1>1, PoppedChain, ZenonT(30)
<1>3. PICK rk : rk = [rank EXCEPT ![head.index] = 0] /\ Ranked(rk, depth - 1)'
  BY <1>2
<1>4. Follows(rank, depth) /\ Follows(rk, depth - 1)'
  BY <1>1, <1>3, ContentsFollow, ContentsFollowNext DEF StackInv
<1>5. depth \in Nat /\ depth - 1 \in Nat /\ rank \in [Entries -> Nat]
  BY <1>1, <1>2 DEF Ranked
<1>6. Contents # <<>> /\ Contents[1] \in Entries /\ rank[Contents[1]] = depth
  BY <1>2, <1>4, <1>5 DEF Follows, Numbers
<1>7. Head(Contents) = head.index
  BY <1>1, <1>2, <1>4, <1>5, <1>6 DEF Follows, Numbers, Ranked
<1>s. PICK s : s = Tail(Contents)
  OBVIOUS
<1>8. /\ s \in Seq(Entries) /\ Len(s) = depth - 1
      /\ \A i \in 1..(depth - 1) : s[i] = Contents[i + 1]
  BY <1>s, <1>4, <1>5, <1>6, TailSeq DEF Follows, Numbers
<1>9. \A i \in 1..(depth - 1) : rk[s[i]] = (depth - 1) + 1 - i
  <2> SUFFICES ASSUME NEW i \in 1..(depth - 1) PROVE rk[s[i]] = depth - i
    BY <1>5
  <2>1. i + 1 \in 1..depth /\ s[i] = Contents[i + 1] /\ s[i] \in Entries
    BY <1>5, <1>8
  <2>2. rank[s[i]] = depth - i
    BY <2>1, <1>4, <1>5 DEF Follows, Numbers
  <2> QED
    BY <2>1, <2>2, <1>2, <1>3, <1>5
<1>10. Injective(rk) /\ Numbers(rk, depth - 1, s)
  BY <1>3, <1>8, <1>9 DEF Ranked, Injective, Numbers
<1>11. Contents' = s
  BY <1>4, <1>5, <1>10, RankFixes, ZenonT(30) DEF Follows
<1> QED
  BY <1>s, <1>6, <1>7, <1>11 DEF Popped

(* The `count` that pool_page compares with its budget is never less than  *)
(* the entries really linked, for every number of threads and entries.     *)
THEOREM CountIsEnough == Spec => []CountCoversStack
<1>1. StackInv => CountCoversStack
  <2> SUFFICES ASSUME StackInv PROVE CountCoversStack
    OBVIOUS
  <2>1. PICK rank, depth : Ranked(rank, depth) /\ Counted(depth)
    BY DEF StackInv
  <2>2. Depth = depth /\ depth \in Nat
    BY <2>1, DepthIs DEF StackInv
  <2> QED
    BY <2>1, <2>2, PendingNat DEF Counted, CountCoversStack
<1> QED
  BY <1>1, StackInvariance, PTL

(* The refinement: initial states, then every step of every thread.        *)
LEMMA AtomicInit == Init /\ StackInv => Atomic!Init
<1> SUFFICES ASSUME Init, StackInv PROVE Atomic!Init
  OBVIOUS
<1>1. PICK rank, depth : Ranked(rank, depth)
  BY DEF StackInv
<1>2. depth = 0
  BY <1>1, EntriesAssumption DEF Ranked, Init
<1>3. Contents = <<>>
  BY <1>1, <1>2, ContentsFollow DEF StackInv, Follows, Numbers
<1> QED
  BY <1>3 DEF StackInv, TypeOK, Disjoint, Atomic!Init

LEMMA AtomicStep ==
    StackInv /\ StackInv' /\ [Next]_vars => [Atomic!Next]_(Atomic!vars)
<1> SUFFICES ASSUME StackInv, StackInv', [Next]_vars
             PROVE  Atomic!Next \/ UNCHANGED <<Contents, held>>
  BY DEF Atomic!vars
<1>1. PICK rank, depth : Ranked(rank, depth)
  BY DEF StackInv
<1>2. ASSUME head' = head, link' = link, held' = held
      PROVE  UNCHANGED <<Contents, held>>
  BY <1>1, <1>2, RankedKept, SameContents DEF StackInv
<1>3. ASSUME NEW t \in Threads, PushLink(t) PROVE UNCHANGED <<Contents, held>>
  BY <1>1, <1>3, PushLinkChain, SameContents DEF StackInv, PushLink
<1>4. ASSUME NEW t \in Threads, Pushed(t) PROVE Atomic!Next
  <2>1. entry[t] \in Entries
    BY <1>4, PushedContents DEF StackInv, TypeOK
  <2>2. Atomic!Push(t, entry[t])
    BY <1>4, PushedContents DEF Pushed, Atomic!Push
  <2> QED
    BY <2>1, <2>2 DEF Atomic!Next
<1>5. ASSUME NEW t \in Threads, Popped(t) PROVE Atomic!Next
  <2>1. Atomic!Pop(t)
    BY <1>5, PoppedContents DEF Popped, Atomic!Pop
  <2> QED
    BY <2>1 DEF Atomic!Next
<1>6. ASSUME NEW t \in Threads, PushCas(t) PROVE Atomic!Next \/ UNCHANGED <<Contents, held>>
  BY <1>2, <1>4, <1>6 DEF PushCas, Pushed, Goto
<1>7. ASSUME NEW t \in Threads, PopCas(t) PROVE Atomic!Next \/ UNCHANGED <<Contents, held>>
  BY <1>2, <1>5, <1>7 DEF PopCas, Popped, Goto
<1>8. ASSUME NEW t \in Threads,
             (\E e \in Entries : PushBegin(t, e)) \/ PushLoad(t) \/ PopLoad(t)
                 \/ PopLink(t) \/ PopCount(t)
      PROVE  UNCHANGED <<Contents, held>>
  BY <1>2, <1>8 DEF PushBegin, PushLoad, PopLoad, PopLink, PopCount
<1>9. CASE UNCHANGED vars
  BY <1>2, <1>9 DEF vars
<1> QED
  BY <1>3, <1>6, <1>7, <1>8, <1>9 DEF Next, Step

(* The atomic accesses of any number of pushes and pops, interleaved in    *)
(* any way that respects NoFullWrap, implement the atomic LIFO that the    *)
(* page and large-block code rely on.                                      *)
THEOREM StackRefinement == Spec => ImplementsAtomicStack
<1>1. Init /\ StackInv => Atomic!Init
  BY AtomicInit
<1>2. StackInv /\ StackInv' /\ [Next]_vars => [Atomic!Next]_(Atomic!vars)
  BY AtomicStep
<1> QED
  BY <1>1, <1>2, StackInvariance, PTL DEF Spec, ImplementsAtomicStack, Atomic!Spec
=============================================================================
