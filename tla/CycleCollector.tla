--------------------------- MODULE CycleCollector ---------------------------
(***************************************************************************)
(* Reference counts, destructors and the cycle collector of one request    *)
(* (src/runtime/cycle.rs, the root buffer of src/value/mod.rs and the      *)
(* release of final objects in src/vm/execute/call_frames.rs), over the    *)
(* weak sidecars of WeakObjects.                                           *)
(*                                                                         *)
(* A handle is one strong reference: a variable, a property, the value of  *)
(* a map entry, the receiver of a running destructor, or one that is being *)
(* dropped.  Arrays, closures and references are nodes of the same graph   *)
(* and need no case of their own.  Fibers, generators, exceptions, the     *)
(* automatic start of a collection and the roots left unadmitted because   *)
(* the collector was off when the request started are left out, and no     *)
(* object is mutably borrowed while a collection runs.                     *)
(***************************************************************************)
EXTENDS WeakObjects, SequencesExt

CONSTANTS
    Slots,          \* the properties that objects may have: <<owner, target>>
    Destructible,   \* objects of a class with __destruct
    NativeRoots     \* objects whose native state retains_cycle_root

ASSUME SlotsAssumption ==
    /\ Slots \subseteq Objects \X Objects
    /\ Destructible \subseteq Objects
    /\ NativeRoots \subseteq Objects

VARIABLES
    alive,          \* the allocated objects
    held,           \* those a variable of the program holds
    edges,          \* the properties that are set
    retired,        \* OBJECT_DESTRUCTOR_RAN
    stack,          \* the activations: main, destructors, the collector
    candidates,     \* the possible roots, weakly
    callback_roots, \* those published while the collector runs destructors
    gc              \* the locals of collect_cycle_pass

objVars == <<alive, held, edges, retired>>
vars == <<alive, held, edges, retired, stack, candidates, callback_roots, gc, weakVars>>

Nothing == [o \in Objects |-> 0]
Frame(k, o) == [kind |-> k, this |-> o, todo |-> Nothing]
NoPass == [phase |-> "off", rerun |-> FALSE, nodes |-> {}, garbage |-> {}, pending |-> {},
           deferred |-> {}, stale |-> {}, again |-> FALSE, called |-> FALSE]

Init ==
    /\ InitWeak
    /\ alive = {} /\ held = {} /\ edges = {} /\ retired = {}
    /\ stack = <<Frame("main", NoObject)>>
    /\ candidates = {} /\ callback_roots = {}
    /\ gc = NoPass

Top == Last(stack)
WithTop(frame) == [stack EXCEPT ![Len(stack)] = frame]
Collecting == gc.phase # "off"

-----------------------------------------------------------------------------
(* Ownership. *)

\* Handles that neither a property nor a map entry holds.
Outside(o) ==
    (IF o \in held THEN 1 ELSE 0)
    + Cardinality({i \in DOMAIN stack : stack[i].this = o})
    + Cardinality(UNION {{i} \X (1..stack[i].todo[o]) : i \in DOMAIN stack})

InEdges(o, sources) == Cardinality({s \in sources : <<s, o>> \in edges})
InEntries(o) == Cardinality({e \in entries : e.value = o})

\* The strong count of the object's Rc.
Strong(o) == Outside(o) + InEdges(o, alive) + InEntries(o)

\* The closure of a set under a step that only adds objects.
Closure(S, Step(_)) ==
    LET C[n \in 0..Cardinality(Objects)] == IF n = 0 THEN S ELSE C[n - 1] \cup Step(C[n - 1])
    IN  C[Cardinality(Objects)]

Children(S) == {q[2] : q \in {p \in edges : p[1] \in S}}
MapValues(S) == Values({e \in entries : e.map \in S /\ e.key \in S})

\* What the running program can reach from its variables and $this.
Reachable ==
    Closure(held \cup ({stack[i].this : i \in DOMAIN stack} \ {NoObject}),
            LAMBDA S : Children(S) \cup MapValues(S))


-----------------------------------------------------------------------------
(* Dropping handles. *)

\* register_cycle_candidate; while a collection runs destructors, its roots
\* are marked for the end of the collection to keep.
RegisterBug(new) ==
    /\ candidates' = candidates \cup new
    /\ UNCHANGED callback_roots
Register(new) ==
    /\ candidates' = candidates \cup new
    /\ callback_roots' = IF Collecting THEN callback_roots \cup new ELSE callback_roots

AddTodo(frame, more) == [frame EXCEPT !.todo = [o \in Objects |-> @[o] + more[o]]]
One(o) == [Nothing EXCEPT ![o] = 1]

\* The handles that go with an object that is freed and its map entries.
Owned(o) ==
    [c \in Objects |-> (IF <<o, c>> \in edges THEN 1 ELSE 0)
                      + (IF HasReleaseWork(o)
                         THEN Cardinality({e \in Retiring({o}) : e.value = c}) ELSE 0)]

\* One handle dropped by the VM: run_final_object_destructor_tree calls the
\* destructor of an object that loses its last handle, and if it is final
\* still, releases its weak state and drops what it owns.
Release(o) ==
    /\ Top.kind # "gc" /\ Top.todo[o] > 0
    /\ LET rest == [Top EXCEPT !.todo[o] = @ - 1]
           strong == Strong(o)
       IN  \/ /\ strong > 1
              /\ stack' = WithTop(rest)
              /\ Register({o})
              /\ UNCHANGED <<objVars, weakVars, gc>>
           \/ /\ strong = 1 /\ o \in Destructible \ retired
              /\ retired' = retired \cup {o}
              /\ stack' = Append(WithTop(rest), Frame("destructor", o))
              /\ UNCHANGED <<alive, held, edges, candidates, callback_roots, gc, weakVars>>
           \/ /\ strong = 1 /\ o \notin Destructible \ retired
              /\ alive' = alive \ {o}
              /\ edges' = {p \in edges : p[1] # o}
              /\ stack' = WithTop(AddTodo(rest, Owned(o)))
              /\ IF HasReleaseWork(o) THEN ReleaseIdentities({o}) ELSE UNCHANGED weakVars
              /\ UNCHANGED <<held, retired, candidates, callback_roots, gc>>

\* What Value::drop frees on its own, with no destructor and no weak release,
\* once the properties are es and each object has out[o] other handles.
Unowned(es, out) ==
    Closure({}, LAMBDA D : {o \in alive : out[o] = 0 /\ \A s \in alive \ D : <<s, o>> \notin es})

\* A destructor returns: the VM drops its receiver's handle, or the collector does.
Return ==
    /\ Top.kind = "destructor" /\ Top.todo = Nothing
    /\ LET below == stack[Len(stack) - 1]
           o == Top.this
           dead == Unowned(edges, [x \in alive |-> Outside(x) + InEntries(x) - (IF x = o THEN 1 ELSE 0)])
       IN  \/ /\ below.kind # "gc"
              /\ stack' = [Front(stack) EXCEPT ![Len(stack) - 1] = AddTodo(@, One(o))]
              /\ UNCHANGED <<objVars, candidates, callback_roots>>
           \/ /\ below.kind = "gc"
              /\ stack' = Front(stack)
              /\ alive' = alive \ dead
              /\ edges' = {p \in edges : p[1] \notin dead}
              /\ Register((Children(dead) \cup {o}) \ dead)
              /\ UNCHANGED <<held, retired>>
    /\ UNCHANGED <<gc, weakVars>>

-----------------------------------------------------------------------------
(* What PHP code does: main, or a destructor, between two drops. *)

Running == Top.kind # "gc" /\ Top.todo = Nothing

New(o) ==
    /\ Running /\ o \notin alive \cup candidates \cup gc.nodes /\ ~Pinned(o)
    /\ alive' = alive \cup {o} /\ held' = held \cup {o} /\ retired' = retired \ {o}
    /\ UNCHANGED <<edges, stack, candidates, callback_roots, gc, weakVars>>

Hold(o) ==
    /\ Running /\ o \in alive \ held
    /\ references[o] = "set" \/ o \in Reachable
    /\ held' = held \cup {o}
    /\ UNCHANGED <<alive, edges, retired, stack, candidates, callback_roots, gc, weakVars>>

Unset(o) ==
    /\ Running /\ o \in held
    /\ held' = held \ {o}
    /\ stack' = WithTop(AddTodo(Top, One(o)))
    /\ UNCHANGED <<alive, edges, retired, candidates, callback_roots, gc, weakVars>>

Link(p) ==
    /\ Running /\ p \notin edges /\ {p[1], p[2]} \subseteq Reachable
    /\ edges' = edges \cup {p}
    /\ UNCHANGED <<alive, held, retired, stack, candidates, callback_roots, gc, weakVars>>

Unlink(p) ==
    /\ Running /\ p \in edges /\ p[1] \in Reachable
    /\ edges' = edges \ {p}
    /\ stack' = WithTop(AddTodo(Top, One(p[2])))
    /\ UNCHANGED <<alive, held, retired, candidates, callback_roots, gc, weakVars>>

Displaced(map, key) ==
    [o \in Objects |-> Cardinality({e \in EntryOf(map, key) : e.value = o})]

OffsetSet(map, key, value) ==
    /\ Running /\ {map, key, value} \subseteq Reachable \cup {NoObject}
    /\ MapSet(map, key, value)
    /\ stack' = WithTop(AddTodo(Top, Displaced(map, key)))
    /\ UNCHANGED <<objVars, candidates, callback_roots, gc>>

OffsetUnset(map, key) ==
    /\ Running /\ EntryOf(map, key) # {} /\ {map, key} \subseteq Reachable
    /\ MapRemove(map, key)
    /\ stack' = WithTop(AddTodo(Top, Displaced(map, key)))
    /\ UNCHANGED <<objVars, candidates, callback_roots, gc>>

WeakReferenceCreate(o) ==
    /\ Running /\ references[o] # "set" /\ o \in Reachable
    /\ CreateReference(o)
    /\ UNCHANGED <<objVars, stack, candidates, callback_roots, gc>>

-----------------------------------------------------------------------------
(* The collector. *)

\* build_cycle_graph: the roots, the map entries, and all they hold.
GraphNodes ==
    Closure(((candidates \cup {e.map : e \in entries} \cup {e.key : e \in entries}) \cap alive)
              \cup Values(entries),
            LAMBDA S : Children(S))

\* live_identities: a native root is live, and so is an object whose count
\* the edges of the graph do not account for, for it has an owner outside;
\* what it reaches is live, a map's value through its map and its key.
LiveRoots(nodes) ==
    (nodes \cap NativeRoots)
      \cup {o \in nodes : Strong(o) # InEdges(o, nodes) + InEntries(o)}
LiveInBug(nodes) ==
    Closure(LiveRoots(nodes), LAMBDA S : Children(S))
LiveIn(nodes) ==
    Closure(LiveRoots(nodes), LAMBDA S : Children(S) \cup MapValues(S))

\* cyclic_identities, an entry being an edge from its key.
CyclicIn(garbage) ==
    LET step(S) == garbage \cap (Children(S) \cup Values({e \in entries : e.key \in S}))
    IN  {o \in garbage : o \in Closure(step({o}), step)}

RetainedBy(roots) ==
    Closure(roots, LAMBDA S : Children(S) \cup Values({e \in entries : e.map \in S}))

\* collect_cycles and begin_cycle_collection.
Collect ==
    /\ Running /\ ~Collecting
    /\ gc' = [NoPass EXCEPT !.phase = "trace"]
    /\ stack' = Append(stack, Frame("gc", NoObject))
    /\ callback_roots' = {}
    /\ UNCHANGED <<objVars, candidates, weakVars>>

\* collect_cycle_pass, up to its first destructor.
Trace ==
    /\ gc.phase = "trace"
    /\ LET nodes == GraphNodes
           garbage == nodes \ LiveIn(nodes)
           pending == (garbage \cap Destructible) \ retired
       IN  /\ gc' = [phase |-> "destructors", rerun |-> gc.rerun, nodes |-> nodes,
                     garbage |-> garbage, pending |-> pending,
                     deferred |-> IF gc.rerun THEN RetainedBy(pending) ELSE {},
                     stale |-> Stale(alive), called |-> pending # {},
                     again |-> pending \cap CyclicIn(garbage) # {}]
           /\ callback_roots' = callback_roots \ nodes
           /\ candidates' = candidates \cap alive
    /\ UNCHANGED <<objVars, stack, weakVars>>

\* One round of its loop, in any order: run_cycle_object_destructor, unless
\* the object is gone or another destructor has made the VM release it.
CallDestructor(o) ==
    /\ gc.phase = "destructors" /\ Top.kind = "gc" /\ o \in gc.pending
    /\ gc' = [gc EXCEPT !.pending = @ \ {o}]
    /\ \/ /\ o \in alive \ retired
          /\ retired' = retired \cup {o}
          /\ stack' = Append(stack, Frame("destructor", o))
          /\ UNCHANGED <<candidates, callback_roots>>
       \/ /\ o \in alive \cap retired
          /\ Register({o})
          /\ UNCHANGED <<retired, stack>>
       \/ /\ o \notin alive
          /\ UNCHANGED <<retired, stack, candidates, callback_roots>>
    /\ UNCHANGED <<alive, held, edges, weakVars>>

Collected == gc.garbage \ (LiveIn(GraphNodes) \cup gc.deferred)
Released == gc.stale \cup Stale(alive) \cup Collected

\* The rest of the pass, and the rerun or the end of the collection.
Sweep ==
    /\ gc.phase = "destructors" /\ Top.kind = "gc" /\ gc.pending = {}
    /\ LET collected == Collected
           released == Released
           cleared == {p \in edges : p[1] \notin collected \cap GraphNodes}
           dead == Unowned(cleared, [o \in alive |->
                       Outside(o) + Cardinality({e \in entries \ Retiring(released) : e.value = o})])
           roots == callback_roots \ (gc.garbage \cap LiveIn(GraphNodes))
           published == ((candidates \cap roots) \cap alive) \ dead
           again == ~gc.rerun /\ (gc.again \/ (gc.called /\ published # {}))
       IN  /\ ReleaseIdentities(released)
           /\ edges' = {p \in cleared : p[1] \notin dead}
           /\ alive' = alive \ dead
           /\ \/ /\ again
                 /\ gc' = [NoPass EXCEPT !.phase = "trace", !.rerun = TRUE]
                 /\ callback_roots' = roots
                 /\ UNCHANGED <<stack, candidates>>
              \/ /\ ~again
                 /\ gc' = NoPass
                 /\ callback_roots' = {}
                 /\ candidates' = published
                 /\ stack' = Front(stack)
    /\ UNCHANGED <<held, retired>>

Next ==
    \/ \E o \in Objects :
          \/ New(o) \/ Hold(o) \/ Unset(o) \/ Release(o)
          \/ CallDestructor(o)
    \/ \E o \in Targets : WeakReferenceCreate(o)
    \/ \E p \in Slots : Link(p) \/ Unlink(p)
    \/ \E k \in Keyed : OffsetSet(k[1], k[2], k[3]) \/ OffsetUnset(k[1], k[2])
    \/ Return \/ Collect \/ Trace \/ Sweep

Spec == Init /\ [][Next]_vars

-----------------------------------------------------------------------------
(* Properties. *)

(***************************************************************************)
(* A collection never takes apart an object that the program reaches: not  *)
(* one that a destructor has just brought back to life, nor one that only  *)
(* a map entry holds whose map and key are reachable (live_identities and  *)
(* the second graph of collect_cycle_pass).  gc.stale is another matter:   *)
(* nothing pins its identities while destructors run.                      *)
(***************************************************************************)
ReachableNotCollected == [][Sweep => Reachable \cap Collected = {}]_vars

\* What neither a handle from outside the object graph nor a native root reaches.
Lost ==
    alive \ Closure({o \in alive : Outside(o) > 0} \cup (alive \cap NativeRoots),
                    LAMBDA S : Children(S) \cup MapValues(S))

(***************************************************************************)
(* A collection that calls no destructor leaves no garbage at all, native  *)
(* roots and what they hold apart: every lost object was still reached     *)
(* from the buffer of possible roots or from the weak maps, whatever       *)
(* earlier releases, destructors, resurrections, reruns and deferrals did  *)
(* to that buffer.                                                         *)
(***************************************************************************)
CollectsAll == [][Sweep /\ ~gc.called => Lost' = {}]_vars
=============================================================================
