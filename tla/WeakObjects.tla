---------------------------- MODULE WeakObjects ----------------------------
(***************************************************************************)
(* The weak-object sidecars of a request (src/runtime/weak.rs): the state  *)
(* of WeakReference and WeakMap objects.  An identity is an address; the   *)
(* weak pointers kept here pin it, so it is not given to a new object.     *)
(* Every WeakReference object is held by the program; iterators, and the   *)
(* state of a map with no entries, are left out.                           *)
(***************************************************************************)
EXTENDS Naturals, FiniteSets, FiniteSetsExt

CONSTANTS
    Objects,        \* identities
    Targets,        \* those that a WeakReference may be made of
    Keyed,          \* the entries maps may have: <<map, key, value>>
    NoObject        \* no identity; as a value, any scalar

ASSUME WeakAssumption ==
    /\ NoObject \notin Objects
    /\ Targets \subseteq Objects
    /\ Keyed \subseteq Objects \X Objects \X (Objects \cup {NoObject})

VARIABLES
    references,     \* by target: "none", "set", or "cleared"
    entries,        \* the entries of all the maps: [map, key, value]
    map_keys        \* how many entries have each identity as their key

weakVars == <<references, entries, map_keys>>

InitWeak ==
    /\ references = [o \in Objects |-> "none"]
    /\ entries = {}
    /\ map_keys = [o \in Objects |-> 0]

\* An identity that a weak pointer of the sidecars names.
Pinned(o) ==
    \/ references[o] # "none"
    \/ \E e \in entries : o \in {e.map, e.key}

-----------------------------------------------------------------------------
(* note_map_key: never below zero. *)
NoteMapKey(counts, key, n) == [counts EXCEPT ![key] = IF @ > n THEN @ - n ELSE 0]

Values(es) == {e.value : e \in es} \ {NoObject}
EntryOf(map, key) == {e \in entries : e.map = map /\ e.key = key}

\* map_set; the value it replaces, if any, is Dropped.
MapSetBug(map, key, value) ==
    /\ entries' = (entries \ EntryOf(map, key)) \cup {[map |-> map, key |-> key, value |-> value]}
    /\ map_keys' = [map_keys EXCEPT ![key] = @ + 1]
    /\ UNCHANGED references
MapSet(map, key, value) ==
    /\ entries' = (entries \ EntryOf(map, key)) \cup {[map |-> map, key |-> key, value |-> value]}
    /\ map_keys' = IF EntryOf(map, key) = {} THEN [map_keys EXCEPT ![key] = @ + 1] ELSE map_keys
    /\ UNCHANGED references

MapRemove(map, key) ==
    /\ entries' = entries \ EntryOf(map, key)
    /\ map_keys' = NoteMapKey(map_keys, key, 1)
    /\ UNCHANGED references

\* existing_weak_reference, then register_weak_reference if there is none.
CreateReference(target) ==
    /\ references' = [references EXCEPT ![target] = "set"]
    /\ UNCHANGED <<entries, map_keys>>

HasReleaseWork(o) ==
    references[o] # "none" \/ map_keys[o] > 0 \/ \E e \in entries : e.map = o

\* release_identity for each of a set of identities: the entries that go.
Retiring(dead) ==
    {e \in entries : e.map \in dead \/ (e.key \in dead /\ map_keys[e.key] > 0)}

ReleaseIdentities(dead) ==
    /\ references' = [o \in Objects |->
           IF o \in dead /\ references[o] = "set" THEN "cleared" ELSE references[o]]
    /\ entries' = entries \ Retiring(dead)
    /\ map_keys' = [o \in Objects |->
           IF o \in dead THEN 0
           ELSE LET gone == Cardinality({e \in entries : e.map \in dead /\ e.key = o})
                IN  IF map_keys[o] > gone THEN map_keys[o] - gone ELSE 0]

\* The identities whose release the sidecars have missed (cycle_snapshot).
Stale(alive) ==
    {o \in Objects \ alive : references[o] # "none" \/ \E e \in entries : o \in {e.map, e.key}}

-----------------------------------------------------------------------------
(***************************************************************************)
(* map_keys, which decides whether the release of an object looks at the   *)
(* maps at all, counts exactly the entries of each key: whatever sets,     *)
(* unsets, replaces, or dies, be it the key, the map, or a map that is the *)
(* key of another.                                                         *)
(***************************************************************************)
KeyIndexExact ==
    \A o \in Objects : map_keys[o] = Cardinality({e \in entries : e.key = o})
=============================================================================
