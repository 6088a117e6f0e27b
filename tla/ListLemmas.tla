----------------------------- MODULE ListLemmas -----------------------------
(***************************************************************************)
(* Sequences that list a set, each element once, and what appending to and *)
(* removing from them does; what sequences in general and finite sets are  *)
(* known to do.                                                            *)
(***************************************************************************)
EXTENDS Listing, TLAPS

(* A leaf that names no prover is tried with SMT, with Zenon and, if the   *)
(* machine was too busy for either, with SMT once more.                    *)
USE SMTT(10), ZenonT(20), SMTT(30)

(* What the operators of Sequences return.                                 *)
LEMMA SeqEmpty ==
    ASSUME NEW S
    PROVE  /\ << >> \in Seq(S) /\ Len(<< >>) = 0
           /\ \A s \in Seq(S) : s # << >> => Len(s) \in Nat /\ Len(s) >= 1
  OBVIOUS

LEMMA SeqSame ==
    ASSUME NEW S, NEW s \in Seq(S), NEW r \in Seq(S),
           Len(s) = Len(r), \A i \in 1..Len(s) : s[i] = r[i]
    PROVE  s = r
  OBVIOUS

LEMMA SeqConcat ==
    ASSUME NEW S, NEW s \in Seq(S), NEW r \in Seq(S)
    PROVE  /\ s \o r \in Seq(S) /\ Len(s \o r) = Len(s) + Len(r)
           /\ \A k \in 1..(Len(s) + Len(r)) :
                (s \o r)[k] = IF k <= Len(s) THEN s[k] ELSE r[k - Len(s)]
  OBVIOUS

LEMMA SeqHeadTail ==
    ASSUME NEW S, NEW s \in Seq(S), s # << >>
    PROVE  /\ Head(s) \in S /\ Tail(s) \in Seq(S) /\ Len(Tail(s)) = Len(s) - 1
           /\ \A k \in 1..Len(Tail(s)) : Tail(s)[k] = s[k + 1]
  OBVIOUS

LEMMA SeqAppend ==
    ASSUME NEW S, NEW s \in Seq(S), NEW x \in S
    PROVE  /\ Append(s, x) \in Seq(S) /\ Append(s, x) # << >>
           /\ Len(Append(s, x)) = Len(s) + 1 /\ Append(s, x)[Len(s) + 1] = x
           /\ \A k \in 1..Len(s) : Append(s, x)[k] = s[k]
  OBVIOUS

(* The parts of Counting.                                                  *)
LEMMA LeastNat ==
    ASSUME Counting, NEW S, S \subseteq Nat, S # {}
    PROVE  \E m \in S : \A k \in S : m <= k
  BY DEF Counting

LEMMA CountInterval ==
    ASSUME Counting, NEW a \in Int, NEW b \in Int
    PROVE  /\ IsFiniteSet(a..b)
           /\ Cardinality(a..b) = IF a > b THEN 0 ELSE b - a + 1
  BY DEF Counting

LEMMA CountNat ==
    ASSUME Counting, NEW S, IsFiniteSet(S)
    PROVE  Cardinality(S) \in Nat
  BY DEF Counting

LEMMA CountSubset ==
    ASSUME Counting, NEW S, IsFiniteSet(S), NEW T \in SUBSET S
    PROVE  IsFiniteSet(T) /\ Cardinality(T) <= Cardinality(S)
  BY DEF Counting

LEMMA CountAdd ==
    ASSUME Counting, NEW S, NEW x, IsFiniteSet(S)
    PROVE  /\ IsFiniteSet(S \cup {x})
           /\ Cardinality(S \cup {x}) = IF x \in S THEN Cardinality(S) ELSE Cardinality(S) + 1
<1>1. x \in S => S \cup {x} = S
  OBVIOUS
<1> QED
  BY <1>1 DEF Counting

LEMMA CountRemove ==
    ASSUME Counting, NEW S, NEW x, IsFiniteSet(S)
    PROVE  /\ IsFiniteSet(S \ {x})
           /\ Cardinality(S \ {x}) = IF x \in S THEN Cardinality(S) - 1 ELSE Cardinality(S)
<1>1. x \notin S => S \ {x} = S
  OBVIOUS
<1> QED
  BY <1>1 DEF Counting

LEMMA CountEmpty ==
    ASSUME Counting
    PROVE  /\ IsFiniteSet({}) /\ Cardinality({}) = 0
           /\ \A S : IsFiniteSet(S) => (Cardinality(S) = 0 <=> S = {})
<1>1. 1..0 = {}
  OBVIOUS
<1>2. IsFiniteSet({}) /\ Cardinality({}) = 0
  BY <1>1, CountInterval
<1>3. ASSUME NEW S, IsFiniteSet(S), S # {} PROVE Cardinality(S) # 0
  <2>1. PICK x \in S : TRUE
    BY <1>3
  <2>2. Cardinality(S \ {x}) \in Nat /\ Cardinality(S \ {x}) = Cardinality(S) - 1
    BY <1>3, <2>1, CountRemove, CountNat
  <2>3. Cardinality(S) \in Nat
    BY <1>3, CountNat
  <2> QED
    BY <2>2, <2>3
<1> QED
  BY <1>2, <1>3

LEMMA CountOne ==
    ASSUME Counting, NEW x
    PROVE  IsFiniteSet({x}) /\ Cardinality({x}) = 1
<1>1. {} \cup {x} = {x} /\ x \notin {}
  OBVIOUS
<1> QED
  BY <1>1, CountEmpty, CountAdd

LEMMA ListsAppend ==
    ASSUME NEW q, NEW S, NEW T, Lists(q, S, T), NEW t \in S, t \notin T
    PROVE  Lists(Append(q, t), S, T \cup {t})
<1> DEFINE r == Append(q, t)
<1>1. q \in Seq(S) /\ Len(q) \in Nat
  BY DEF Lists
<1>2. /\ r \in Seq(S) /\ Len(r) = Len(q) + 1
      /\ \A i \in 1..Len(q) : r[i] = q[i]
      /\ r[Len(q) + 1] = t
  BY <1>1, SeqAppend
<1> HIDE DEF r
<1>3. \A i \in 1..Len(q) : q[i] # t
  BY DEF Lists
<1>4. \A i, j \in 1..Len(r) : r[i] = r[j] => i = j
  BY <1>1, <1>2, <1>3 DEF Lists
<1>5. ASSUME NEW u \in S
      PROVE  u \in T \cup {t} <=> \E i \in 1..Len(r) : r[i] = u
  <2>1. u \in T <=> \E i \in 1..Len(q) : q[i] = u
    BY DEF Lists
  <2>2. u = t => \E i \in 1..Len(r) : r[i] = u
    BY <1>1, <1>2
  <2>3. ASSUME NEW i \in 1..Len(q), q[i] = u PROVE \E k \in 1..Len(r) : r[k] = u
    BY <1>1, <1>2, <2>3
  <2>4. ASSUME NEW i \in 1..Len(r), r[i] = u PROVE u = t \/ \E k \in 1..Len(q) : q[k] = u
    BY <1>1, <1>2, <2>4
  <2> QED
    BY <2>1, <2>2, <2>3, <2>4
<1> QED
  BY <1>2, <1>4, <1>5 DEF Lists, r

LEMMA ListsCons ==
    ASSUME NEW q, NEW S, NEW T, Lists(q, S, T), NEW t \in S, t \notin T
    PROVE  Lists(<<t>> \o q, S, T \cup {t})
<1> DEFINE r == <<t>> \o q
<1>1. q \in Seq(S) /\ Len(q) \in Nat /\ <<t>> \in Seq(S) /\ Len(<<t>>) = 1 /\ <<t>>[1] = t
  BY DEF Lists
<1>2. /\ r \in Seq(S) /\ Len(r) = Len(q) + 1
      /\ r[1] = t
      /\ \A i \in 2..(Len(q) + 1) : r[i] = q[i - 1]
  BY <1>1
<1> HIDE DEF r
<1>3. \A i \in 1..Len(q) : q[i] # t /\ r[i + 1] = q[i]
  BY <1>1, <1>2 DEF Lists
<1>4. \A i \in 1..Len(r) : i = 1 \/ (i - 1 \in 1..Len(q) /\ r[i] = q[i - 1])
  BY <1>1, <1>2
<1>5. ASSUME NEW i \in 1..Len(r), NEW j \in 1..Len(r), r[i] = r[j] PROVE i = j
  <2>1. CASE i = 1 \/ j = 1
    BY <1>2, <1>3, <1>4, <1>5, <2>1
  <2>2. CASE i # 1 /\ j # 1
    BY <1>4, <1>5, <2>2 DEF Lists
  <2> QED
    BY <2>1, <2>2
<1>6. ASSUME NEW u \in S
      PROVE  u \in T \cup {t} <=> \E i \in 1..Len(r) : r[i] = u
  <2>1. u \in T <=> \E i \in 1..Len(q) : q[i] = u
    BY DEF Lists
  <2>2. 1 \in 1..Len(r) /\ \A i \in 1..Len(q) : i + 1 \in 1..Len(r)
    BY <1>1, <1>2
  <2>3. ASSUME NEW i \in 1..Len(r), r[i] = u PROVE u = t \/ \E k \in 1..Len(q) : q[k] = u
    BY <1>2, <1>4, <2>3
  <2> QED
    BY <1>2, <1>3, <2>1, <2>2, <2>3
<1> QED
  BY <1>2, <1>5, <1>6 DEF Lists, r

LEMMA CutFacts ==
    ASSUME NEW S, NEW s \in Seq(S), NEW i \in 1..Len(s)
    PROVE  /\ Cut(s, i) \in Seq(S) /\ Len(Cut(s, i)) = Len(s) - 1
           /\ \A k \in 1..(Len(s) - 1) : Cut(s, i)[k] = IF k < i THEN s[k] ELSE s[k + 1]
<1> DEFINE a == SubSeq(s, 1, i - 1)
           b == SubSeq(s, i + 1, Len(s))
<1>1. Len(s) \in Nat /\ i \in Nat /\ 1 <= i /\ i <= Len(s)
  OBVIOUS
<1>2. a \in Seq(S) /\ Len(a) = i - 1 /\ \A k \in 1..(i - 1) : a[k] = s[k]
  BY <1>1
<1>3. b \in Seq(S) /\ Len(b) = Len(s) - i /\ \A k \in 1..(Len(s) - i) : b[k] = s[k + i]
  BY <1>1
<1> HIDE DEF a, b
<1>4. /\ a \o b \in Seq(S) /\ Len(a \o b) = Len(a) + Len(b)
      /\ \A k \in 1..(Len(a) + Len(b)) : (a \o b)[k] = IF k <= Len(a) THEN a[k] ELSE b[k - Len(a)]
  BY <1>2, <1>3, SeqConcat, ZenonT(30)
<1>5. ASSUME NEW k \in 1..(Len(s) - 1)
      PROVE  (a \o b)[k] = IF k < i THEN s[k] ELSE s[k + 1]
  <2>1. (a \o b)[k] = IF k <= i - 1 THEN a[k] ELSE b[k - (i - 1)]
    <3>1. k \in 1..(Len(a) + Len(b))
      BY <1>1, <1>2, <1>3
    <3>2. (a \o b)[k] = IF k <= Len(a) THEN a[k] ELSE b[k - Len(a)]
      BY <1>4, <3>1, ZenonT(30)
    <3> QED
      BY <1>2, <3>2, ZenonT(30)
  <2>2. CASE k < i
    BY <1>1, <1>2, <2>1, <2>2
  <2>3. CASE k >= i
    <3>1. k - (i - 1) \in 1..(Len(s) - i)
      BY <1>1, <2>3
    <3>2. b[k - (i - 1)] = s[k - (i - 1) + i]
      BY <1>3, <3>1
    <3>3. k - (i - 1) + i = k + 1
      BY <1>1
    <3> QED
      BY <1>1, <2>1, <2>3, <3>2, <3>3
  <2>4. k < i \/ k >= i
    BY <1>1
  <2> QED
    BY <2>2, <2>3, <2>4, ZenonT(30)
<1>6. Cut(s, i) = a \o b
  BY DEF Cut, a, b
<1>7. Len(a) + Len(b) = Len(s) - 1
  BY <1>1, <1>2, <1>3
<1> QED
  BY <1>4, <1>5, <1>6, <1>7, ZenonT(30)

LEMMA ListsCut ==
    ASSUME NEW q, NEW S, NEW T, Lists(q, S, T), NEW i \in 1..Len(q)
    PROVE  Lists(Cut(q, i), S, T \ {q[i]})
<1> DEFINE r == Cut(q, i)
<1>1. q \in Seq(S) /\ Len(q) \in Nat
  BY DEF Lists
<1>2. /\ r \in Seq(S) /\ Len(r) = Len(q) - 1
      /\ \A k \in 1..(Len(q) - 1) : r[k] = IF k < i THEN q[k] ELSE q[k + 1]
  BY <1>1, CutFacts, ZenonT(30)
<1> HIDE DEF r
<1>3. \A k, l \in 1..Len(r) : r[k] = r[l] => k = l
  <2> SUFFICES ASSUME NEW k \in 1..Len(r), NEW l \in 1..Len(r), r[k] = r[l] PROVE k = l
    OBVIOUS
  <2> DEFINE at(n) == IF n < i THEN n ELSE n + 1
  <2>1. at(k) \in 1..Len(q) /\ at(l) \in 1..Len(q) /\ r[k] = q[at(k)] /\ r[l] = q[at(l)]
    BY <1>1, <1>2
  <2>2. at(k) = at(l)
    BY <2>1, ZenonT(30) DEF Lists
  <2> QED
    BY <1>1, <1>2, <2>2
<1>4. ASSUME NEW u \in S
      PROVE  u \in T \ {q[i]} <=> \E k \in 1..Len(r) : r[k] = u
  <2>1. u \in T <=> \E k \in 1..Len(q) : q[k] = u
    BY DEF Lists
  <2>2. ASSUME NEW k \in 1..Len(q), q[k] = u, u # q[i] PROVE \E l \in 1..Len(r) : r[l] = u
    <3>1. CASE k < i
      <4>1. k \in 1..Len(r) /\ k \in 1..(Len(q) - 1)
        BY <1>1, <1>2, <3>1
      <4>2. r[k] = q[k]
        BY <1>2, <3>1, <4>1, ZenonT(30)
      <4> QED
        BY <2>2, <4>1, <4>2, ZenonT(30)
    <3>2. CASE k > i
      <4>1. k - 1 \in 1..Len(r) /\ ~(k - 1 < i) /\ k - 1 + 1 = k
        BY <1>1, <1>2, <3>2
      <4>2. r[k - 1] = q[k]
        BY <1>2, <4>1
      <4> QED
        BY <2>2, <4>1, <4>2
    <3>3. k # i
      BY <2>2
    <3> QED
      BY <1>1, <3>1, <3>2, <3>3
  <2>3. ASSUME NEW l \in 1..Len(r), r[l] = u PROVE u # q[i] /\ \E k \in 1..Len(q) : q[k] = u
    <3>1. PICK k \in 1..Len(q) : q[k] = u /\ k # i
      BY <1>1, <1>2, <2>3
    <3> QED
      BY <3>1 DEF Lists
  <2> QED
    BY <2>1, <2>2, <2>3
<1> QED
  BY <1>2, <1>3, <1>4 DEF Lists, r

LEMMA ListsTail ==
    ASSUME NEW q, NEW S, NEW T, Lists(q, S, T), q # << >>
    PROVE  Head(q) \in S /\ Head(q) \in T /\ Lists(Tail(q), S, T \ {Head(q)})
<1>1. q \in Seq(S) /\ Len(q) \in Nat /\ Len(q) >= 1
  BY SeqEmpty DEF Lists
<1>2. Head(q) = q[1] /\ q[1] \in S
  BY <1>1
<1>3. q[1] \in T
  BY <1>1, <1>2 DEF Lists
<1>4. Tail(q) = Cut(q, 1)
  <2>1. /\ Cut(q, 1) \in Seq(S) /\ Len(Cut(q, 1)) = Len(q) - 1
        /\ \A k \in 1..(Len(q) - 1) : Cut(q, 1)[k] = q[k + 1]
    BY <1>1, CutFacts
  <2>2. /\ Tail(q) \in Seq(S) /\ Len(Tail(q)) = Len(q) - 1
        /\ \A k \in 1..(Len(q) - 1) : Tail(q)[k] = q[k + 1]
    BY <1>1
  <2> QED
    BY <1>1, <2>1, <2>2, SeqSame
<1>5. Lists(Cut(q, 1), S, T \ {q[1]})
  BY <1>1, ListsCut
<1> QED
  BY <1>2, <1>3, <1>4, <1>5, ZenonT(30)

LEMMA ListsPositions ==
    ASSUME Counting, NEW q, NEW S, NEW T, Lists(q, S, T), NEW t \in S
    PROVE  Cardinality({i \in DOMAIN q : q[i] = t}) = IF t \in T THEN 1 ELSE 0
<1>1. DOMAIN q = 1..Len(q)
  BY DEF Lists
<1>2. CASE t \in T
  <2>1. PICK k \in 1..Len(q) : q[k] = t
    BY <1>2 DEF Lists
  <2>2. {i \in DOMAIN q : q[i] = t} = {k}
    BY <1>1, <2>1 DEF Lists
  <2> QED
    BY <1>2, <2>2, CountOne, ZenonT(30)
<1>3. CASE t \notin T
  <2>1. {i \in DOMAIN q : q[i] = t} = {}
    BY <1>1, <1>3 DEF Lists
  <2> QED
    BY <1>3, <2>1, CountEmpty
<1> QED
  BY <1>2, <1>3

(* The two halves of a list.                                               *)
LEMMA ListsSplit ==
    ASSUME NEW q, NEW S, NEW T, Lists(q, S, T), NEW n \in 0..Len(q)
    PROVE  \E D \in SUBSET T : /\ Lists(SubSeq(q, 1, n), S, D)
                               /\ Lists(SubSeq(q, n + 1, Len(q)), S, T \ D)
<1> DEFINE a == SubSeq(q, 1, n)
           b == SubSeq(q, n + 1, Len(q))
           D == {q[i] : i \in 1..n}
<1>1. /\ q \in Seq(S) /\ Len(q) \in Nat /\ n \in Nat /\ n <= Len(q)
      /\ \A i \in 1..Len(q) : q[i] \in S /\ q[i] \in T
      /\ \A i, j \in 1..Len(q) : q[i] = q[j] => i = j
      /\ \A t \in S : t \in T <=> \E i \in 1..Len(q) : q[i] = t
  BY DEF Lists
<1>2. a \in Seq(S) /\ Len(a) = n /\ \A i \in 1..n : a[i] = q[i]
  BY <1>1
<1>3. b \in Seq(S) /\ Len(b) = Len(q) - n /\ \A i \in 1..(Len(q) - n) : b[i] = q[n + i]
  BY <1>1
<1>4. D \in SUBSET T
  BY <1>1
<1>5. Lists(a, S, D)
  <2>1. \A i, j \in 1..Len(a) : a[i] = a[j] => i = j
    BY <1>1, <1>2
  <2>2. \A t \in S : t \in D <=> \E i \in 1..Len(a) : a[i] = t
    BY <1>1, <1>2
  <2> QED
    BY <1>2, <2>1, <2>2 DEF Lists
<1>6. Lists(b, S, T \ D)
  <2>1. \A i, j \in 1..Len(b) : b[i] = b[j] => i = j
    BY <1>1, <1>3
  <2>2. ASSUME NEW t \in S, t \in T \ D PROVE \E i \in 1..Len(b) : b[i] = t
    <3>1. PICK i \in 1..Len(q) : q[i] = t
      BY <1>1, <2>2
    <3>2. i \notin 1..n
      BY <2>2, <3>1
    <3>3. i - n \in 1..(Len(q) - n) /\ n + (i - n) = i
      BY <1>1, <3>2
    <3> QED
      BY <1>3, <3>1, <3>3
  <2>3. ASSUME NEW t \in S, NEW i \in 1..Len(b), b[i] = t PROVE t \in T \ D
    <3>1. n + i \in 1..Len(q) /\ q[n + i] = t
      BY <1>1, <1>3, <2>3
    <3>2. \A k \in 1..n : q[k] # t
      BY <1>1, <1>3, <2>3, <3>1
    <3> QED
      BY <1>1, <3>1, <3>2
  <2> QED
    BY <1>3, <2>1, <2>2, <2>3 DEF Lists
<1> HIDE DEF a, b, D
<1>7. Lists(a, S, D) /\ Lists(b, S, T \ D)
  BY <1>5, <1>6
<1> QED
  BY <1>4, <1>7 DEF a, b

(* A new entry anywhere in a list.                                         *)
LEMMA ListsInsert ==
    ASSUME NEW q, NEW S, NEW T, Lists(q, S, T), NEW t \in S, t \notin T,
           NEW i \in 1..(Len(q) + 1)
    PROVE  Lists(SubSeq(q, 1, i - 1) \o <<t>> \o SubSeq(q, i, Len(q)), S, T \cup {t})
<1> DEFINE a == SubSeq(q, 1, i - 1)
           b == SubSeq(q, i, Len(q))
           r == SubSeq(q, 1, i - 1) \o <<t>> \o SubSeq(q, i, Len(q))
           n == Len(q)
<1>1. /\ q \in Seq(S) /\ n \in Nat /\ i \in Nat /\ 1 <= i /\ i <= n + 1
      /\ \A k \in 1..n : q[k] \in S
      /\ \A k, j \in 1..n : q[k] = q[j] => k = j
      /\ \A u \in S : u \in T <=> \E k \in 1..n : q[k] = u
  BY DEF Lists
<1>2. a \in Seq(S) /\ Len(a) = i - 1 /\ \A k \in 1..(i - 1) : a[k] = q[k]
  BY <1>1
<1>3. b \in Seq(S) /\ Len(b) = n - i + 1 /\ \A k \in 1..(n - i + 1) : b[k] = q[i + k - 1]
  BY <1>1
<1>4. r = a \o <<t>> \o b
  OBVIOUS
<1> HIDE DEF a, b, r
<1>5. a \o <<t>> \in Seq(S) /\ Len(a \o <<t>>) = i /\ (a \o <<t>>)[i] = t
      /\ \A k \in 1..(i - 1) : (a \o <<t>>)[k] = q[k]
  BY <1>1, <1>2
<1>6. r \in Seq(S) /\ Len(r) = n + 1
  <2> DEFINE e == a \o <<t>>
  <2>1. e \in Seq(S) /\ Len(e) = i /\ r = e \o b
    BY <1>4, <1>5
  <2> HIDE DEF e
  <2>2. r \in Seq(S) /\ Len(r) = Len(e) + Len(b)
    BY <1>3, <2>1, SeqConcat
  <2> QED
    BY <1>1, <1>3, <2>1, <2>2
<1>7. \A k \in 1..(n + 1) : r[k] = IF k < i THEN q[k] ELSE IF k = i THEN t ELSE q[k - 1]
  <2> SUFFICES ASSUME NEW k \in 1..(n + 1)
               PROVE  r[k] = IF k < i THEN q[k] ELSE IF k = i THEN t ELSE q[k - 1]
    OBVIOUS
  <2>1. CASE k <= i
    BY <1>1, <1>3, <1>4, <1>5, <2>1
  <2>2. CASE k > i
    <3>1. k - i \in 1..(n - i + 1) /\ i + (k - i) - 1 = k - 1
      BY <1>1, <2>2
    <3>2. r[k] = b[k - i]
      BY <1>1, <1>3, <1>4, <1>5, <2>2
    <3> QED
      BY <1>1, <1>3, <2>2, <3>1, <3>2
  <2> QED
    BY <1>1, <2>1, <2>2
<1>8. \A k \in 1..n : q[k] # t
  BY <1>1
<1>9. \A k, j \in 1..Len(r) : r[k] = r[j] => k = j
  <2> SUFFICES ASSUME NEW k \in 1..(n + 1), NEW j \in 1..(n + 1), r[k] = r[j] PROVE k = j
    BY <1>6
  <2> QED
    BY <1>1, <1>7, <1>8
<1>10. ASSUME NEW u \in S PROVE u \in T \cup {t} <=> \E k \in 1..Len(r) : r[k] = u
  <2>1. r[i] = t /\ i \in 1..(n + 1)
    BY <1>1, <1>7
  <2>2. ASSUME u \in T PROVE \E k \in 1..(n + 1) : r[k] = u
    <3>1. PICK k \in 1..n : q[k] = u
      BY <1>1, <2>2
    <3>2. CASE k < i
      BY <1>1, <1>7, <3>1, <3>2
    <3>3. CASE k >= i
      <4>1. k + 1 \in 1..(n + 1) /\ k + 1 > i /\ (k + 1) - 1 = k
        BY <1>1, <3>3
      <4>2. r[k + 1] = q[k]
        BY <1>1, <1>7, <4>1
      <4> QED
        BY <3>1, <4>1, <4>2
    <3> QED
      BY <1>1, <3>2, <3>3
  <2>3. ASSUME NEW k \in 1..(n + 1), r[k] = u PROVE u \in T \cup {t}
    BY <1>1, <1>7, <2>3
  <2> QED
    BY <1>6, <2>1, <2>2, <2>3
<1>11. r \in Seq(S) /\ Lists(r, S, T \cup {t})
  BY <1>6, <1>9, <1>10 DEF Lists
<1> QED
  BY <1>11 DEF r

(* Concatenation with a sequence that is empty, grows or shrinks.          *)
LEMMA ConcatEmpty ==
    ASSUME NEW S, NEW s \in Seq(S)
    PROVE  s \o <<>> = s
<1>1. s \o <<>> \in Seq(S) /\ Len(s \o <<>>) = Len(s) /\ \A i \in 1..Len(s) : (s \o <<>>)[i] = s[i]
  OBVIOUS
<1> QED
  BY <1>1, SeqSame

LEMMA ConcatAppend ==
    ASSUME NEW S, NEW s \in Seq(S), NEW r \in Seq(S), NEW x \in S
    PROVE  s \o Append(r, x) = Append(s \o r, x)
<1> DEFINE a == Append(r, x)
           b == s \o r
<1>1. a \in Seq(S) /\ Len(a) = Len(r) + 1 /\ a[Len(r) + 1] = x /\ \A i \in 1..Len(r) : a[i] = r[i]
  OBVIOUS
<1>2. b \in Seq(S) /\ Len(b) = Len(s) + Len(r)
      /\ \A i \in 1..Len(b) : b[i] = IF i <= Len(s) THEN s[i] ELSE r[i - Len(s)]
  BY SeqConcat
<1> HIDE DEF a, b
<1>3. s \o a \in Seq(S) /\ Len(s \o a) = Len(s) + Len(a)
      /\ \A i \in 1..(Len(s) + Len(a)) : (s \o a)[i] = IF i <= Len(s) THEN s[i] ELSE a[i - Len(s)]
  BY <1>1, SeqConcat
<1>4. /\ Append(b, x) \in Seq(S) /\ Len(Append(b, x)) = Len(b) + 1
      /\ Append(b, x)[Len(b) + 1] = x /\ \A i \in 1..Len(b) : Append(b, x)[i] = b[i]
  BY <1>2
<1>5. ASSUME NEW i \in 1..(Len(s) + Len(r) + 1) PROVE (s \o a)[i] = Append(b, x)[i]
  <2>1. Len(s) \in Nat /\ Len(r) \in Nat
    OBVIOUS
  <2>2. CASE i = Len(s) + Len(r) + 1
    <3>1. i - Len(s) = Len(r) + 1 /\ i > Len(s) /\ i = Len(b) + 1 /\ i \in 1..(Len(s) + Len(a))
      BY <1>1, <1>2, <2>1, <2>2
    <3> QED
      BY <1>1, <1>3, <1>4, <2>1, <3>1
  <2>3. CASE i <= Len(s)
    <3>1. i \in 1..Len(b) /\ i \in 1..(Len(s) + Len(a))
      BY <1>1, <1>2, <2>1, <2>3
    <3>2. Append(b, x)[i] = b[i] /\ b[i] = s[i]
      BY <1>2, <1>4, <2>3, <3>1
    <3>3. (s \o a)[i] = s[i]
      BY <1>3, <2>3, <3>1
    <3> QED
      BY <3>2, <3>3
  <2>4. CASE i > Len(s) /\ i <= Len(s) + Len(r)
    <3>1. /\ i - Len(s) \in 1..Len(r) /\ i \in 1..Len(b) /\ i \in 1..(Len(s) + Len(a))
          /\ ~(i <= Len(s))
      BY <1>1, <1>2, <2>1, <2>4
    <3>2. Append(b, x)[i] = b[i] /\ b[i] = r[i - Len(s)]
      BY <1>2, <1>4, <3>1
    <3>3. (s \o a)[i] = a[i - Len(s)] /\ a[i - Len(s)] = r[i - Len(s)]
      BY <1>1, <1>3, <3>1
    <3> QED
      BY <3>2, <3>3
  <2>5. i = Len(s) + Len(r) + 1 \/ i <= Len(s) \/ (i > Len(s) /\ i <= Len(s) + Len(r))
    BY <2>1
  <2> QED
    BY <2>2, <2>3, <2>4, <2>5, Zenon
<1>6. Len(s \o a) = Len(Append(b, x)) /\ Len(s \o a) = Len(s) + Len(r) + 1
  BY <1>1, <1>2, <1>3, <1>4
<1>7. s \o a = Append(b, x)
  BY <1>3, <1>4, <1>5, <1>6, SeqSame
<1> QED
  BY <1>7 DEF a, b

LEMMA ConcatTail ==
    ASSUME NEW S, NEW s \in Seq(S), NEW r \in Seq(S), s # <<>>
    PROVE  /\ s \o r # <<>> /\ Head(s \o r) = Head(s)
           /\ Tail(s \o r) = Tail(s) \o r
<1> DEFINE a == Tail(s)
           b == s \o r
<1>1. /\ a \in Seq(S) /\ Len(a) = Len(s) - 1 /\ \A i \in 1..(Len(s) - 1) : a[i] = s[i + 1]
      /\ Len(s) \in Nat /\ Len(s) >= 1 /\ Len(r) \in Nat /\ Head(s) = s[1]
  OBVIOUS
<1>2. b \in Seq(S) /\ Len(b) = Len(s) + Len(r)
      /\ \A i \in 1..Len(b) : b[i] = IF i <= Len(s) THEN s[i] ELSE r[i - Len(s)]
  BY SeqConcat
<1> HIDE DEF a, b
<1>3. /\ b # <<>> /\ Head(b) = b[1] /\ Tail(b) \in Seq(S) /\ Len(Tail(b)) = Len(b) - 1
      /\ \A i \in 1..(Len(b) - 1) : Tail(b)[i] = b[i + 1]
  <2>1. b \in Seq(S) /\ Len(b) >= 1
    BY <1>1, <1>2
  <2>2. b # <<>>
    BY <2>1
  <2> QED
    BY <2>1, <2>2
<1>4. a \o r \in Seq(S) /\ Len(a \o r) = Len(a) + Len(r)
      /\ \A i \in 1..(Len(a) + Len(r)) : (a \o r)[i] = IF i <= Len(a) THEN a[i] ELSE r[i - Len(a)]
  BY <1>1, SeqConcat
<1>5. ASSUME NEW i \in 1..(Len(s) + Len(r) - 1) PROVE Tail(b)[i] = (a \o r)[i]
  <2>1. i + 1 \in 1..Len(b) /\ i \in 1..(Len(b) - 1) /\ i \in 1..(Len(a) + Len(r))
    BY <1>1, <1>2
  <2>2. Tail(b)[i] = b[i + 1] /\ b[i + 1] = IF i + 1 <= Len(s) THEN s[i + 1] ELSE r[(i + 1) - Len(s)]
    BY <1>2, <1>3, <2>1
  <2>3. (a \o r)[i] = IF i <= Len(a) THEN a[i] ELSE r[i - Len(a)]
    BY <1>4, <2>1
  <2>4. (i + 1 <= Len(s) <=> i <= Len(a)) /\ (i + 1) - Len(s) = i - Len(a)
        /\ (i <= Len(a) => i \in 1..(Len(s) - 1))
    BY <1>1
  <2>5. CASE i <= Len(a)
    <3>1. a[i] = s[i + 1]
      BY <1>1, <2>4, <2>5
    <3> QED
      BY <2>2, <2>3, <2>4, <2>5, <3>1, Zenon
  <2>6. CASE ~(i <= Len(a))
    BY <2>2, <2>3, <2>4, <2>6, Zenon
  <2> QED
    BY <2>5, <2>6
<1>6. Len(Tail(b)) = Len(a \o r) /\ Len(a \o r) = Len(s) + Len(r) - 1
  BY <1>1, <1>2, <1>3, <1>4
<1>7. Tail(b) = a \o r
  BY <1>3, <1>4, <1>5, <1>6, SeqSame
<1>8. b # <<>> /\ Head(b) = Head(s)
  BY <1>1, <1>2, <1>3
<1> QED
  BY <1>7, <1>8 DEF a, b

LEMMA ConcatShift ==
    ASSUME NEW S, NEW s \in Seq(S), NEW r \in Seq(S), r # <<>>
    PROVE  Append(s, Head(r)) \o Tail(r) = s \o r
<1> DEFINE a == Append(s, Head(r))
           b == Tail(r)
<1>1. /\ b \in Seq(S) /\ Len(b) = Len(r) - 1 /\ \A i \in 1..(Len(r) - 1) : b[i] = r[i + 1]
      /\ Len(s) \in Nat /\ Len(r) \in Nat /\ Len(r) >= 1 /\ Head(r) = r[1] /\ Head(r) \in S
  OBVIOUS
<1>2. /\ a \in Seq(S) /\ Len(a) = Len(s) + 1 /\ a[Len(s) + 1] = r[1]
      /\ \A i \in 1..Len(s) : a[i] = s[i]
  BY <1>1
<1> HIDE DEF a, b
<1>3. a \o b \in Seq(S) /\ Len(a \o b) = Len(a) + Len(b)
      /\ \A i \in 1..(Len(a) + Len(b)) : (a \o b)[i] = IF i <= Len(a) THEN a[i] ELSE b[i - Len(a)]
  BY <1>1, <1>2, SeqConcat
<1>4. s \o r \in Seq(S) /\ Len(s \o r) = Len(s) + Len(r)
      /\ \A i \in 1..(Len(s) + Len(r)) : (s \o r)[i] = IF i <= Len(s) THEN s[i] ELSE r[i - Len(s)]
  BY SeqConcat
<1>5. ASSUME NEW i \in 1..(Len(s) + Len(r)) PROVE (a \o b)[i] = (s \o r)[i]
  <2>1. i \in 1..(Len(a) + Len(b))
    BY <1>1, <1>2
  <2>2. CASE i <= Len(s)
    <3>1. i <= Len(a) /\ i \in 1..Len(s)
      BY <1>1, <1>2, <2>2
    <3>2. (a \o b)[i] = a[i] /\ a[i] = s[i]
      BY <1>2, <1>3, <2>1, <3>1
    <3>3. (s \o r)[i] = s[i]
      BY <1>4, <2>2
    <3> QED
      BY <3>2, <3>3
  <2>3. CASE i = Len(s) + 1
    <3>1. i - Len(s) = 1 /\ i <= Len(a) /\ ~(i <= Len(s))
      BY <1>1, <1>2, <2>3
    <3> QED
      BY <1>2, <1>3, <1>4, <2>1, <2>3, <3>1
  <2>4. CASE i > Len(s) + 1
    <3>1. /\ i - Len(a) \in 1..(Len(r) - 1) /\ (i - Len(a)) + 1 = i - Len(s)
          /\ ~(i <= Len(a)) /\ ~(i <= Len(s))
      BY <1>1, <1>2, <2>4
    <3>2. (a \o b)[i] = b[i - Len(a)] /\ b[i - Len(a)] = r[(i - Len(a)) + 1]
      BY <1>1, <1>3, <2>1, <3>1
    <3>3. (s \o r)[i] = r[i - Len(s)]
      BY <1>4, <3>1
    <3> QED
      BY <3>1, <3>2, <3>3
  <2>5. i <= Len(s) \/ i = Len(s) + 1 \/ i > Len(s) + 1
    BY <1>1
  <2> QED
    BY <2>2, <2>3, <2>4, <2>5, Zenon
<1>6. Len(a \o b) = Len(s \o r) /\ Len(s \o r) = Len(s) + Len(r)
  BY <1>1, <1>2, <1>3, <1>4
<1>7. a \o b = s \o r
  BY <1>3, <1>4, <1>5, <1>6, SeqSame
<1> QED
  BY <1>7 DEF a, b
=========================================================================
