---------------------------- MODULE BoundedFifo ----------------------------
(***************************************************************************)
(* What a coroutine channel promises.  Values leave in the order they were *)
(* put in, each exactly once; a user that puts a value beyond the capacity *)
(* stops until its value fits, a user that finds nothing stops until a     *)
(* value is put, and stopped users of either kind go on in their order.    *)
(***************************************************************************)
EXTENDS Naturals, Sequences

CONSTANTS Users, Values, MaxCapacity, Nothing

VARIABLES
    capacity,   \* 0 until the queue is opened
    items,      \* values that have been put and not taken
    writers,    \* the users of the items beyond the capacity
    readers,    \* the users that wait for a value
    got,        \* the last value each user has taken
    stopped     \* the users that may not go on

vars == <<capacity, items, writers, readers, got, stopped>>

Elements(s) == {s[i] : i \in DOMAIN s}

Init ==
    /\ capacity = 0
    /\ items = <<>> /\ writers = <<>> /\ readers = <<>>
    /\ got = [u \in Users |-> Nothing]
    /\ stopped = {}

Open ==
    /\ capacity = 0
    /\ capacity' \in 1..MaxCapacity
    /\ UNCHANGED <<items, writers, readers, got, stopped>>

Put(u, v) ==
    /\ capacity > 0
    /\ u \notin stopped
    /\ IF readers # <<>>
       THEN /\ got' = [got EXCEPT ![Head(readers)] = v]
            /\ readers' = Tail(readers)
            /\ UNCHANGED <<items, writers>>
       ELSE /\ items' = Append(items, v)
            /\ writers' = IF Len(items) < capacity THEN writers ELSE Append(writers, u)
            /\ UNCHANGED <<readers, got>>
    /\ stopped' = Elements(writers') \cup Elements(readers')
    /\ UNCHANGED capacity

Get(u) ==
    /\ capacity > 0
    /\ u \notin stopped
    /\ IF items # <<>>
       THEN /\ got' = [got EXCEPT ![u] = Head(items)]
            /\ items' = Tail(items)
            /\ writers' = IF writers = <<>> THEN <<>> ELSE Tail(writers)
            /\ UNCHANGED readers
       ELSE /\ got' = [got EXCEPT ![u] = Nothing]
            /\ readers' = Append(readers, u)
            /\ UNCHANGED <<items, writers>>
    /\ stopped' = Elements(writers') \cup Elements(readers')
    /\ UNCHANGED capacity

\* A user that is not stopped here ends and forgets what it has taken, or takes
\* something from elsewhere.
Elsewhere(u, v) ==
    /\ u \notin stopped
    /\ got' = [got EXCEPT ![u] = v]
    /\ UNCHANGED <<capacity, items, writers, readers, stopped>>

\* The queue is closed: nobody is stopped any more, nothing more is delivered.
Close ==
    /\ stopped' = {}
    /\ UNCHANGED <<capacity, items, writers, readers, got>>

Renew ==
    /\ stopped = {}
    /\ capacity' = 0
    /\ items' = <<>> /\ writers' = <<>> /\ readers' = <<>>
    /\ got' = [u \in Users |-> Nothing]
    /\ stopped' = {}

Next ==
    \/ Open
    \/ Close
    \/ Renew
    \/ \E u \in Users : Get(u)
    \/ \E u \in Users, v \in Values : Put(u, v)
    \/ \E u \in Users, v \in Values \cup {Nothing} : Elsewhere(u, v)

Spec == Init /\ [][Next]_vars
=============================================================================
