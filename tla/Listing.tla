------------------------------ MODULE Listing ------------------------------
(***************************************************************************)
(* What the invariants say of lists, and what their proofs use of numbers  *)
(* and of finite sets.                                                     *)
(***************************************************************************)
EXTENDS Integers, Sequences, FiniteSets

(* The elements of S that q lists are those of T, each once.               *)
Lists(q, S, T) ==
    /\ q \in Seq(S)
    /\ \A i, j \in 1..Len(q) : q[i] = q[j] => i = j
    /\ \A t \in S : t \in T <=> \E i \in 1..Len(q) : q[i] = t

(* Sequence s without its i-th element.                                    *)
Cut(s, i) == SubSeq(s, 1, i - 1) \o SubSeq(s, i + 1, Len(s))

(* A set of natural numbers has a least element, and Cardinality counts.   *)
(* The lemmas that count assume it, the module of the theorems proves it   *)
(* from the library: so the library's theorems are not among the facts     *)
(* that every other proof carries along.                                   *)
Counting ==
    /\ \A S \in SUBSET Nat : S # {} => \E m \in S : \A k \in S : m <= k
    /\ \A a, b \in Int : /\ IsFiniteSet(a..b)
                         /\ Cardinality(a..b) = IF a > b THEN 0 ELSE b - a + 1
    /\ \A S : IsFiniteSet(S) =>
        /\ Cardinality(S) \in Nat
        /\ \A T \in SUBSET S : IsFiniteSet(T) /\ Cardinality(T) <= Cardinality(S)
        /\ \A x : /\ IsFiniteSet(S \cup {x}) /\ IsFiniteSet(S \ {x})
                  /\ x \notin S => Cardinality(S \cup {x}) = Cardinality(S) + 1
                  /\ x \in S => Cardinality(S \ {x}) = Cardinality(S) - 1
=============================================================================
