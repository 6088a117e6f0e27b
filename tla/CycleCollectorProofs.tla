------------------------ MODULE CycleCollectorProofs ------------------------
(***************************************************************************)
(* For any objects, properties and map entries: the index of keys that the *)
(* weak sidecars keep is exact, through every step of the program, of its  *)
(* destructors and of the collector.                                       *)
(***************************************************************************)
EXTENDS CycleCollector, FiniteSetTheorems, TLAPS

(* A leaf that names no prover is tried with SMT, with Zenon and, if the   *)
(* machine was too busy for either, with SMT once more.                    *)
USE SMTT(10), ZenonT(20), SMTT(30)

Entries == [map : Objects, key : Objects, value : Objects \cup {NoObject}]

WithKey(o) == {e \in entries : e.key = o}

(* The inductive invariant.  KeyIndexExact alone is not inductive: map_set *)
(* counts an entry only if it displaces none, which is right because a map *)
(* has at most one entry of a key.                                         *)
KeyInv ==
    /\ entries \subseteq Entries /\ IsFiniteSet(entries)
    /\ map_keys \in [Objects -> Nat]
    /\ \A e, f \in entries : e.map = f.map /\ e.key = f.key => e = f
    /\ KeyIndexExact

LEMMA WithKeyFinite ==
    ASSUME IsFiniteSet(entries), NEW o
    PROVE  IsFiniteSet(WithKey(o)) /\ Cardinality(WithKey(o)) \in Nat
<1>1. WithKey(o) \in SUBSET entries
  BY DEF WithKey
<1> QED
  BY <1>1, FS_Subset, FS_CardinalityType

(* The index in terms of WithKey.                                          *)
LEMMA Exact ==
    KeyIndexExact <=> \A o \in Objects : map_keys[o] = Cardinality(WithKey(o))
BY DEF KeyIndexExact, WithKey

(* A map has no entry of the key, or one.                                  *)
LEMMA EntryOfOne ==
    ASSUME KeyInv, NEW map, NEW key, EntryOf(map, key) # {}
    PROVE  \E e \in entries : /\ EntryOf(map, key) = {e}
                              /\ e.map = map /\ e.key = key
BY DEF KeyInv, EntryOf

(* Counting the difference of two sets, one within the other.              *)
LEMMA CountOfRest ==
    ASSUME NEW S, IsFiniteSet(S), NEW T \in SUBSET S
    PROVE  /\ Cardinality(S \ T) = Cardinality(S) - Cardinality(T)
           /\ Cardinality(S) \in Nat /\ Cardinality(T) \in Nat
           /\ Cardinality(T) <= Cardinality(S)
<1>1. IsFiniteSet(T) /\ Cardinality(T) <= Cardinality(S)
  BY FS_Subset
<1>2. Cardinality(S) \in Nat /\ Cardinality(T) \in Nat
  BY <1>1, FS_CardinalityType
<1>3. Cardinality(S \ T) = Cardinality(S) - Cardinality(S \cap T)
  BY FS_Difference
<1>4. S \cap T = T
  OBVIOUS
<1> QED
  BY <1>1, <1>2, <1>3, <1>4, ZenonT(30)

LEMMA MapSetKeeps ==
    ASSUME KeyInv, NEW map \in Objects, NEW key \in Objects,
           NEW value \in Objects \cup {NoObject}, MapSet(map, key, value)
    PROVE  KeyInv'
<1> DEFINE new == [map |-> map, key |-> key, value |-> value]
           rest == entries \ EntryOf(map, key)
<1>1. entries' = rest \cup {new} /\ new \notin rest /\ new \in Entries
  BY DEF MapSet, EntryOf, Entries
<1>2. IsFiniteSet(rest) /\ IsFiniteSet(entries')
  <2>1. rest \in SUBSET entries
    OBVIOUS
  <2>2. IsFiniteSet(rest)
    BY <2>1, FS_Subset DEF KeyInv
  <2> QED
    BY <1>1, <2>2, FS_AddElement
<1>3. entries' \subseteq Entries
  BY <1>1 DEF KeyInv
<1>4. map_keys' \in [Objects -> Nat]
  BY DEF MapSet, KeyInv
<1>5. ASSUME NEW e \in entries', NEW f \in entries', e.map = f.map, e.key = f.key
      PROVE  e = f
  <2>1. ASSUME NEW d \in rest PROVE ~(d.map = map /\ d.key = key)
    BY DEF EntryOf
  <2>2. new.map = map /\ new.key = key
    OBVIOUS
  <2>3. CASE e \in rest /\ f \in rest
    BY <1>5, <2>3 DEF KeyInv
  <2>4. CASE e = new /\ f = new
    BY <2>4
  <2>5. CASE e \in rest /\ f = new
    BY <1>5, <2>5, <2>1, <2>2
  <2>6. CASE e = new /\ f \in rest
    BY <1>5, <2>6, <2>1, <2>2
  <2> QED
    BY <1>1, <2>3, <2>4, <2>5, <2>6
<1>6. ASSUME NEW o \in Objects PROVE map_keys'[o] = Cardinality(WithKey(o)')
  <2>1. map_keys[o] = Cardinality(WithKey(o)) /\ map_keys[key] = Cardinality(WithKey(key))
    BY Exact DEF KeyInv
  <2>2. CASE o # key
    <3>1. WithKey(o)' = WithKey(o)
      BY <1>1, <2>2 DEF WithKey, EntryOf
    <3>2. map_keys'[o] = map_keys[o]
      BY <2>2 DEF MapSet, KeyInv
    <3> QED
      BY <2>1, <3>1, <3>2
  <2>3. CASE o = key /\ EntryOf(map, key) = {}
    <3>1. WithKey(key)' = WithKey(key) \cup {new} /\ new \notin WithKey(key)
      BY <1>1, <2>3 DEF WithKey
    <3>2. Cardinality(WithKey(key)') = Cardinality(WithKey(key)) + 1
      BY <3>1, WithKeyFinite, FS_AddElement, ZenonT(30) DEF KeyInv
    <3>3. map_keys'[key] = map_keys[key] + 1
      BY <2>3 DEF MapSet, KeyInv
    <3> QED
      BY <2>1, <2>3, <3>2, <3>3
  <2>4. CASE o = key /\ EntryOf(map, key) # {}
    <3>1. PICK e \in entries : EntryOf(map, key) = {e} /\ e.map = map /\ e.key = key
      BY <2>4, EntryOfOne
    <3> DEFINE others == WithKey(key) \ {e}
    <3>2. e \in WithKey(key)
      BY <3>1 DEF WithKey
    <3>3. WithKey(key)' = others \cup {new} /\ new \notin others
      BY <1>1, <3>1 DEF WithKey
    <3>4. /\ IsFiniteSet(others)
          /\ Cardinality(others) = Cardinality(WithKey(key)) - 1
      BY <3>2, WithKeyFinite, FS_RemoveElement DEF KeyInv
    <3>5. Cardinality(WithKey(key)') = Cardinality(others) + 1
      BY <3>3, <3>4, FS_AddElement
    <3>6. map_keys' = map_keys
      BY <2>4 DEF MapSet
    <3> QED
      BY <2>1, <2>4, <3>4, <3>5, <3>6, WithKeyFinite DEF KeyInv
  <2> QED
    BY <2>2, <2>3, <2>4
<1> QED
  BY <1>2, <1>3, <1>4, <1>5, <1>6, Exact DEF KeyInv, KeyIndexExact, WithKey

LEMMA MapRemoveKeeps ==
    ASSUME KeyInv, NEW map \in Objects, NEW key \in Objects,
           EntryOf(map, key) # {}, MapRemove(map, key)
    PROVE  KeyInv'
<1>1. PICK e \in entries : EntryOf(map, key) = {e} /\ e.map = map /\ e.key = key
  BY EntryOfOne
<1>2. entries' = entries \ {e}
  BY <1>1 DEF MapRemove
<1>3. IsFiniteSet(entries') /\ entries' \subseteq Entries
  BY <1>2, FS_RemoveElement DEF KeyInv
<1>4. map_keys' \in [Objects -> Nat]
  BY DEF MapRemove, NoteMapKey, KeyInv
<1>5. \A d, f \in entries' : d.map = f.map /\ d.key = f.key => d = f
  BY <1>2 DEF KeyInv
<1>6. ASSUME NEW o \in Objects PROVE map_keys'[o] = Cardinality(WithKey(o)')
  <2>1. map_keys[o] = Cardinality(WithKey(o)) /\ map_keys[o] \in Nat
    BY Exact DEF KeyInv
  <2>2. CASE o # key
    <3>1. WithKey(o)' = WithKey(o)
      BY <1>1, <1>2, <2>2 DEF WithKey
    <3>2. map_keys'[o] = map_keys[o]
      BY <2>2 DEF MapRemove, NoteMapKey, KeyInv
    <3> QED
      BY <2>1, <3>1, <3>2
  <2>3. CASE o = key
    <3>1. WithKey(o)' = WithKey(o) \ {e} /\ e \in WithKey(o)
      BY <1>1, <1>2, <2>3 DEF WithKey
    <3>2. Cardinality(WithKey(o)') = Cardinality(WithKey(o)) - 1
      BY <3>1, WithKeyFinite, FS_RemoveElement, ZenonT(30) DEF KeyInv
    <3>3. Cardinality(WithKey(o)) # 0
      BY <3>1, WithKeyFinite, FS_EmptySet DEF KeyInv
    <3>4. map_keys'[o] = IF map_keys[o] > 1 THEN map_keys[o] - 1 ELSE 0
      BY <2>3 DEF MapRemove, NoteMapKey, KeyInv
    <3> QED
      BY <2>1, <3>2, <3>3, <3>4
  <2> QED
    BY <2>2, <2>3
<1> QED
  BY <1>3, <1>4, <1>5, <1>6 DEF KeyInv, KeyIndexExact, WithKey

(* Whatever dies at once: keys, maps, and maps that are keys.              *)
LEMMA ReleaseIdentitiesKeeps ==
    ASSUME KeyInv, NEW dead, ReleaseIdentities(dead)
    PROVE  KeyInv'
<1> DEFINE Gone(o) == {e \in entries : e.map \in dead /\ e.key = o}
<1>1. entries' = entries \ Retiring(dead) /\ Retiring(dead) \subseteq entries
  BY DEF ReleaseIdentities, Retiring
<1>2. IsFiniteSet(entries') /\ entries' \subseteq Entries
  BY <1>1, FS_Difference, ZenonT(30) DEF KeyInv
<1>3. \A e, f \in entries' : e.map = f.map /\ e.key = f.key => e = f
  BY <1>1 DEF KeyInv
<1>4. ASSUME NEW o \in Objects
      PROVE  map_keys'[o] = Cardinality(WithKey(o)') /\ map_keys'[o] \in Nat
  <2>1. map_keys[o] = Cardinality(WithKey(o)) /\ map_keys[o] \in Nat
    BY Exact DEF KeyInv
  <2>2. CASE o \in dead
    <3>1. WithKey(o)' = {}
      <4>1. CASE map_keys[o] > 0
        BY <1>1, <2>2, <4>1 DEF WithKey, Retiring
      <4>2. CASE map_keys[o] = 0
        <5>1. WithKey(o) = {}
          BY <2>1, <4>2, WithKeyFinite, FS_EmptySet, ZenonT(30) DEF KeyInv
        <5> QED
          BY <1>1, <5>1 DEF WithKey
      <4> QED
        BY <2>1, <4>1, <4>2
    <3>2. map_keys'[o] = 0
      BY <2>2 DEF ReleaseIdentities
    <3> QED
      BY <3>1, <3>2, FS_EmptySet
  <2>3. CASE o \notin dead
    <3>1. WithKey(o)' = WithKey(o) \ Gone(o) /\ Gone(o) \in SUBSET WithKey(o)
      BY <1>1, <2>3 DEF WithKey, Retiring
    <3>2. /\ Cardinality(WithKey(o)') = Cardinality(WithKey(o)) - Cardinality(Gone(o))
          /\ Cardinality(Gone(o)) \in Nat /\ Cardinality(Gone(o)) <= Cardinality(WithKey(o))
      BY <3>1, WithKeyFinite, CountOfRest, ZenonT(30) DEF KeyInv
    <3>3. map_keys'[o] = IF map_keys[o] > Cardinality(Gone(o))
                         THEN map_keys[o] - Cardinality(Gone(o)) ELSE 0
      BY <2>3 DEF ReleaseIdentities
    <3> QED
      BY <2>1, <3>2, <3>3
  <2> QED
    BY <2>2, <2>3
<1>5. map_keys' \in [Objects -> Nat]
  <2> DEFINE count(o) == IF o \in dead THEN 0
                         ELSE IF map_keys[o] > Cardinality(Gone(o))
                              THEN map_keys[o] - Cardinality(Gone(o)) ELSE 0
  <2>1. map_keys' = [o \in Objects |-> count(o)]
    BY ZenonT(30) DEF ReleaseIdentities
  <2>2. \A o \in Objects : count(o) \in Nat
    <3> HIDE DEF count
    <3> QED
      BY <1>4, <2>1
  <2> HIDE DEF count
  <2> QED
    BY <2>1, <2>2
<1> QED
  BY <1>2, <1>3, <1>4, <1>5 DEF KeyInv, KeyIndexExact, WithKey

LEMMA InitKeyInv == Init => KeyInv
<1> SUFFICES ASSUME Init PROVE KeyInv
  OBVIOUS
<1>1. entries = {} /\ map_keys = [o \in Objects |-> 0]
  BY DEF Init, InitWeak
<1>2. \A o : WithKey(o) = {}
  BY <1>1 DEF WithKey
<1>3. KeyIndexExact
  BY <1>1, <1>2, FS_EmptySet, Exact
<1> QED
  BY <1>1, <1>3, FS_EmptySet DEF KeyInv

LEMMA UnchangedKeeps ==
    ASSUME KeyInv, UNCHANGED weakVars
    PROVE  KeyInv'
BY DEF KeyInv, weakVars, KeyIndexExact

LEMMA NextKeyInv == KeyInv /\ [Next]_vars => KeyInv'
<1> SUFFICES ASSUME KeyInv, [Next]_vars PROVE KeyInv'
  OBVIOUS
<1>1. ASSUME NEW o \in Objects, New(o) \/ Hold(o) \/ Unset(o) \/ CallDestructor(o)
      PROVE  KeyInv'
  <2>1. UNCHANGED weakVars
    BY <1>1, ZenonT(30) DEF New, Hold, Unset, CallDestructor
  <2> QED
    BY <2>1, UnchangedKeeps
<1>2. ASSUME NEW o \in Objects, Release(o)
      PROVE  KeyInv'
  <2>1. UNCHANGED weakVars \/ ReleaseIdentities({o})
    BY <1>2, ZenonT(30) DEF Release
  <2> QED
    BY <2>1, UnchangedKeeps, ReleaseIdentitiesKeeps
<1>3. ASSUME NEW o \in Targets, WeakReferenceCreate(o)
      PROVE  KeyInv'
  BY <1>3 DEF WeakReferenceCreate, CreateReference, KeyInv, KeyIndexExact
<1>4. ASSUME NEW p \in Slots, Link(p) \/ Unlink(p)
      PROVE  KeyInv'
  <2>1. UNCHANGED weakVars
    BY <1>4, ZenonT(30) DEF Link, Unlink
  <2> QED
    BY <2>1, UnchangedKeeps
<1>5. ASSUME NEW k \in Keyed, OffsetSet(k[1], k[2], k[3])
      PROVE  KeyInv'
  <2>1. k[1] \in Objects /\ k[2] \in Objects /\ k[3] \in Objects \cup {NoObject}
    BY WeakAssumption
  <2>2. MapSet(k[1], k[2], k[3])
    BY <1>5, ZenonT(30) DEF OffsetSet
  <2> QED
    BY <2>1, <2>2, MapSetKeeps
<1>6. ASSUME NEW k \in Keyed, OffsetUnset(k[1], k[2])
      PROVE  KeyInv'
  <2>1. k[1] \in Objects /\ k[2] \in Objects
    BY WeakAssumption
  <2>2. MapRemove(k[1], k[2]) /\ EntryOf(k[1], k[2]) # {}
    BY <1>6, ZenonT(30) DEF OffsetUnset
  <2> QED
    BY <2>1, <2>2, MapRemoveKeeps
<1>7. ASSUME Return \/ Collect \/ Trace PROVE KeyInv'
  <2>1. UNCHANGED weakVars
    BY <1>7, ZenonT(30) DEF Return, Collect, Trace
  <2> QED
    BY <2>1, UnchangedKeeps
<1>8. ASSUME Sweep PROVE KeyInv'
  <2>1. ReleaseIdentities(Released)
    BY <1>8, ZenonT(30) DEF Sweep
  <2> QED
    BY <2>1, ReleaseIdentitiesKeeps
<1>9. CASE UNCHANGED vars
  BY <1>9, UnchangedKeeps DEF vars
<1> QED
  BY <1>1, <1>2, <1>3, <1>4, <1>5, <1>6, <1>7, <1>8, <1>9 DEF Next

(* KeyIndexExact for any number of objects, maps and entries: the counts   *)
(* by which the release of an object decides whether to look at the maps   *)
(* are exact, so no entry outlives its key (weak.rs note_map_key, map_set, *)
(* map_remove, release_identity).                                          *)
THEOREM KeyIndexIsExact == Spec => []KeyIndexExact
<1>1. KeyInv => KeyIndexExact
  BY DEF KeyInv
<1> QED
  BY InitKeyInv, NextKeyInv, <1>1, PTL DEF Spec
=============================================================================
