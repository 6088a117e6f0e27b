---------------------------- MODULE CoroutineIo ----------------------------
(***************************************************************************)
(* The tasks of a coroutine_scope with its descriptors (scheduler/io.rs),  *)
(* its pending TCP connections (io_connect.rs) and its host lookups, which *)
(* the threads of the process-wide pool perform (resolver.rs).             *)
(*                                                                         *)
(* The scope's thread and the pool's threads share the request queue, the  *)
(* scope's completion queue and its wake stream.  What poll reports of a   *)
(* socket, the outcome of a connect and the answer to a lookup are the     *)
(* environment's.  Bytes, addresses and names are left out, and so are the *)
(* non-blocking reads, writes and accepts, which change no state of the    *)
(* scheduler.                                                              *)
(***************************************************************************)
EXTENDS CoroutineTasks, SequencesExt

CONSTANTS
    MaxDescriptors,     \* bound on the descriptors of a scope
    MaxJobs,            \* bound on the lookups of a scope
    MaxAddresses,       \* bound on the addresses a lookup finds
    QueueCapacity,      \* QUEUE_CAPACITY
    Workers             \* the threads of the pool

ASSUME IoAssumption ==
    /\ {MaxDescriptors, MaxJobs, MaxAddresses} \subseteq Nat
    /\ QueueCapacity \in Nat \ {0}

Descriptors == 1..MaxDescriptors
Jobs == 1..MaxJobs
RESOLVER_WAKE_TASK == 0
NoDescriptor == 0
Directions == {"read", "write"}
NotInFlight == <<NoDescriptor, "none">>

VARIABLES
    open,           \* the keys of IoSet.descriptors
    published,      \* those that PHP code has been given
    queue,          \* DescriptorState.readers and .writers
    flag,           \* DescriptorState.reader_in_flight and .writer_in_flight
    inFlight,       \* IoSet.in_flight
    connector,      \* IoSet.connect_waiters: the task ...
    remaining,      \* ... and the number of addresses left to try
    events,         \* scheduler.io_ready: task, descriptor and direction
    after,          \* where next_runnable goes on after promote_io
    trying,         \* the locals of start_connect_candidates
    waiters,        \* ResolverSet.waiters: the task of each pending job
    nextJob,        \* ResolverSet.next_id
    wake,           \* ResolverSet.wake_descriptor, NoDescriptor before the first lookup
    completions,    \* ResolverSet.completions
    drained,        \* the local `completions` of promote_resolver
    signalled,      \* whether the wake stream holds bytes
    requests,       \* the pool's request queue; 0 stands for a job of an ended scope
    worker          \* what each thread of the pool is doing

ioVars == <<open, published, queue, flag, inFlight, connector, remaining, events, after,
            trying, waiters, nextJob, wake, completions, drained, signalled, requests, worker>>
vars == <<taskVars, ioVars>>

NoWaiters == [d \in Descriptors |-> [k \in Directions |-> <<>>]]
NoFlags == [d \in Descriptors |-> [k \in Directions |-> FALSE]]
Idle == <<"idle", 0>>
NotTrying == [task |-> NoTask, left |-> 0, expected |-> NoWait]

InitIo ==
    /\ open = {} /\ published = {}
    /\ queue = NoWaiters
    /\ flag = NoFlags
    /\ inFlight = [t \in Tasks \cup {RESOLVER_WAKE_TASK} |-> NotInFlight]
    /\ connector = [d \in Descriptors |-> NoTask]
    /\ remaining = [d \in Descriptors |-> 0]
    /\ events = <<>>
    /\ after = "pop"
    /\ trying = NotTrying
    /\ waiters = [j \in Jobs |-> NoTask]
    /\ nextJob = 1
    /\ wake = NoDescriptor
    /\ completions = <<>> /\ drained = <<>>
    /\ signalled = FALSE
    /\ requests = <<>>
    /\ worker = [w \in Workers |-> Idle]

Init == InitTasks /\ InitIo

pollVars == <<events, after, trying>>
resolverVars == <<waiters, nextJob, wake, completions, drained, signalled, requests, worker>>

-----------------------------------------------------------------------------
(* Descriptors. *)

\* The jobs some task waits for.
Pending == {j \in Jobs : waiters[j] # NoTask}

\* allocate_id never gives an id out again.  A descriptor that is gone is told
\* apart from a new one only while a task still waits for it or holds its event.
Unused == {d \in Descriptors \ open :
               \A t \in Tasks : wait[t] \notin Directions \X {d} /\ inFlight[t][1] # d}

\* The bound on descriptors: a call that needs one is made only if one is left.
Free == Unused # {}

NewDescriptor == Min(Unused)

\* create_pair (twice), create_tcp_listener, accept, the datagram sockets, and a
\* connect that succeeds at once.
OpenDescriptor ==
    /\ Calling
    /\ Free
    /\ open' = open \cup {NewDescriptor}
    /\ published' = published \cup {NewDescriptor}
    /\ UNCHANGED <<taskVars, queue, flag, inFlight, connector, remaining, pollVars, resolverVars>>

\* wait_descriptor: ensure_waitable accepts every registered descriptor, also one
\* that is being connected and the wake stream.
WaitDescriptor(d, k) ==
    /\ pc = "run"
    /\ d \in open
    /\ BlockTask(active, <<k, d>>)
    /\ queue' = [queue EXCEPT ![d][k] = Append(@, active)]
    /\ UNCHANGED <<ready, timers, stacks, idle, created, joining, expired, error, exception,
                   open, published, flag, inFlight, connector, remaining, pollVars, resolverVars>>

\* acknowledge_ready: the descriptor may report the task's direction again.
AcknowledgeBug(t) ==
    /\ inFlight' = [inFlight EXCEPT ![t] = NotInFlight]
    /\ UNCHANGED flag
Acknowledge(t) ==
    /\ inFlight' = [inFlight EXCEPT ![t] = NotInFlight]
    /\ flag' = IF inFlight[t] = NotInFlight THEN flag
               ELSE [flag EXCEPT ![inFlight[t][1]][inFlight[t][2]] = FALSE]

\* The process ends: an assertion failed.
Panic(assertion) ==
    /\ error' = assertion
    /\ pc' = "panicked"

\* A failed connect has removed the descriptor whose event the task holds.
Stale(t) == inFlight[t] # NotInFlight /\ inFlight[t][1] \notin open

\* resume of a Ready task acknowledges the event that woke it.
Acknowledging(step) ==
    /\ step
    /\ IF active' # NoTask /\ status[active'] = "Ready"
       THEN ~Stale(active') /\ Acknowledge(active')
       ELSE UNCHANGED <<inFlight, flag>>
    /\ UNCHANGED <<open, published, queue, connector, remaining, pollVars, resolverVars>>

\* The expect of acknowledge_ready, in a resume by coroutine_resume, by join or for
\* next_runnable.
AcknowledgeStale ==
    /\ \E t \in Tasks :
        /\ status[t] = "Ready" /\ Stale(t) /\ active = NoTask
        /\ \/ pc = "php"
           \/ pc = "join" /\ t = joining
           \/ pc = "pop" /\ t = Head(ready)
    /\ Panic("expect")
    /\ UNCHANGED <<status, wait, ready, timers, stacks, idle, created, active, joining, expired,
                   exception, ioVars>>

-----------------------------------------------------------------------------
(* poll_ready and promote_io. *)

Watched(d) == {k \in Directions : queue[d][k] # <<>> /\ ~flag[d][k]}
Polled == {d \in open : Watched(d) # {}}

\* What poll may report: of a socket, any of the events asked for and, asked for
\* or not, a terminal one; of the wake stream, that it holds bytes and that it
\* could be written to.
Reports ==
    {r \in [Polled -> SUBSET (Directions \cup {"terminal"})] :
        \A d \in DOMAIN r :
            IF d = wake THEN r[d] = {k \in Watched(d) : k = "write" \/ signalled}
                        ELSE r[d] \subseteq Watched(d) \cup {"terminal"}}

\* The waiters a report takes out of their queues.
Popped(r, d) == {k \in Directions : queue[d][k] # <<>> /\ r[d] \cap {k, "terminal"} # {}}

EventsOf(r, d) ==
    IF d \notin DOMAIN r THEN <<>>
    ELSE LET Event(k) == IF k \in Popped(r, d)
                         THEN <<[task |-> Head(queue[d][k]), descriptor |-> d, direction |-> k]>>
                         ELSE <<>>
         IN  Event("read") \o Event("write")

\* assert!(!state.reader_in_flight), assert!(!state.writer_in_flight).
AlreadyInFlight(r) == \E d \in DOMAIN r : \E k \in Popped(r, d) : flag[d][k]

PollReady ==
    /\ pc \in {"poll", "block"}
    /\ \E r \in Reports :
        /\ pc = "block" /\ timers = <<>> /\ Polled # {} => \E d \in Polled : r[d] # {}
        /\ IF AlreadyInFlight(r)
           THEN Panic("assertion") /\ UNCHANGED <<queue, flag, inFlight, events>>
           ELSE /\ queue' = [d \in Descriptors |-> [k \in Directions |->
                                IF d \in DOMAIN r /\ k \in Popped(r, d) THEN Tail(queue[d][k])
                                                                     ELSE queue[d][k]]]
                /\ flag' = [d \in Descriptors |-> [k \in Directions |->
                                flag[d][k] \/ (d \in DOMAIN r /\ k \in Popped(r, d))]]
                /\ events' = FlattenSeq([d \in Descriptors |-> EventsOf(r, d)])
                /\ inFlight' = [t \in DOMAIN inFlight |->
                                    LET own == SelectSeq(events', LAMBDA e : e.task = t)
                                    IN  IF own = <<>> THEN inFlight[t]
                                        ELSE <<Last(own).descriptor, Last(own).direction>>]
                /\ pc' = "events"
                /\ UNCHANGED error
    /\ after' = IF pc = "poll" THEN "pop" ELSE "timers"
    /\ UNCHANGED <<status, wait, ready, timers, stacks, idle, created, active, joining,
                   expired, exception, open, published, connector, remaining, trying,
                   resolverVars>>

\* A signal interrupts poll.
PollInterrupted ==
    /\ pc \in {"poll", "block"}
    /\ Polled # {}
    /\ pc' = IF pc = "poll" THEN "pop" ELSE "timers"
    /\ UNCHANGED <<status, wait, ready, timers, stacks, idle, created, active, joining,
                   expired, error, exception, ioVars>>

\* The event of a task that waits for the descriptor itself.
PromoteWaiter ==
    /\ pc = "events"
    /\ events # <<>>
    /\ LET e == Head(events)
           reason == <<e.direction, e.descriptor>>
       IN  /\ e.task # RESOLVER_WAKE_TASK
           /\ wait[e.task] # <<"connect", e.descriptor>>
           /\ IF CanWake(e.task, reason)
              THEN WakeTask(e.task, reason) /\ UNCHANGED <<stacks, idle, created, active, error, pc>>
              ELSE Fatal("inconsistent") /\ UNCHANGED <<wait, ready>>
    /\ events' = Tail(events)
    /\ UNCHANGED <<timers, joining, expired, exception,
                   open, published, queue, flag, inFlight, connector, remaining, after,
                   trying, resolverVars>>

EventsDone ==
    /\ pc = "events"
    /\ events = <<>>
    /\ pc' = after
    /\ after' = "pop"
    /\ UNCHANGED <<status, wait, ready, timers, stacks, idle, created, active, joining,
                   expired, error, exception, open, published, queue, flag, inFlight, connector,
                   remaining, events, trying, resolverVars>>

-----------------------------------------------------------------------------
(* TCP connections. *)

\* enqueue_tcp_connect_waiter, with n addresses left; create_tcp_connection has
\* made the descriptor.
Connecting(d, t, n, descriptors) ==
    /\ open' = descriptors \cup {d}
    /\ connector' = [connector EXCEPT ![d] = t]
    /\ remaining' = [remaining EXCEPT ![d] = n]

CancelTimerBug(t) == UNCHANGED timers
CancelTimer(t) == timers' = SelectSeq(timers, LAMBDA u : u # t)

\* A timeout is optional.
MaybeTimer(t) == ScheduleTimer(t) \/ UNCHANGED timers

\* coroutine_tcp_connect to a numeric address that does not connect at once.
Connect ==
    /\ pc = "run"
    /\ Free
    /\ LET d == NewDescriptor
       IN  /\ BlockTask(active, <<"connect", d>>)
           /\ Connecting(d, active, 0, open)
           /\ queue' = [queue EXCEPT ![d]["write"] = <<active>>]
    /\ MaybeTimer(active)
    /\ UNCHANGED <<ready, stacks, idle, created, joining, expired, error, exception, published,
                   flag, inFlight, pollVars, resolverVars>>

\* cancel_tcp_connect removes the descriptor with everything queued on it.
Forget(d) ==
    /\ connector' = [connector EXCEPT ![d] = NoTask]
    /\ remaining' = [remaining EXCEPT ![d] = 0]
    /\ queue' = [queue EXCEPT ![d] = [k \in Directions |-> <<>>]]
    /\ flag' = [flag EXCEPT ![d] = [k \in Directions |-> FALSE]]
    /\ open' = open \ {d}

\* The write event of a task that connects: complete_tcp_connect asks the socket.
Connected ==
    \E t \in Tasks, d \in Descriptors :
        /\ pc = "events" /\ events # <<>>
        /\ Head(events) = [task |-> t, descriptor |-> d, direction |-> "write"]
        /\ wait[t] = <<"connect", d>>
        /\ connector' = [connector EXCEPT ![d] = NoTask]
        /\ published' = published \cup {d}
        /\ CancelTimer(t)
        /\ WakeTask(t, wait[t])
        /\ events' = Tail(events)
        /\ UNCHANGED <<stacks, idle, created, active, pc, joining, expired, error, exception,
                       open, queue, flag, inFlight, remaining, after, trying, resolverVars>>

StillConnecting ==
    \E t \in Tasks, d \in Descriptors :
        /\ pc = "events" /\ events # <<>>
        /\ Head(events) = [task |-> t, descriptor |-> d, direction |-> "write"]
        /\ wait[t] = <<"connect", d>>
        /\ Acknowledge(t)
        /\ queue' = [queue EXCEPT ![d]["write"] = Append(@, t)]
        /\ events' = Tail(events)
        /\ UNCHANGED <<taskVars, open, published, connector, remaining, after, trying,
                       resolverVars>>

ConnectFailed ==
    \E t \in Tasks, d \in Descriptors :
        /\ pc = "events" /\ events # <<>>
        /\ Head(events) = [task |-> t, descriptor |-> d, direction |-> "write"]
        /\ wait[t] = <<"connect", d>>
        /\ Forget(d)
        /\ inFlight' = [inFlight EXCEPT ![t] = NotInFlight]
        /\ trying' = [task |-> t, left |-> remaining[d], expected |-> wait[t]]
        /\ pc' = "candidates"
        /\ events' = Tail(events)
        /\ UNCHANGED <<status, wait, ready, timers, stacks, idle, created, active, joining,
                       expired, error, exception, published, after, resolverVars>>

\* start_connect_candidates returns to its caller.
Tried ==
    /\ trying' = NotTrying
    /\ pc' = IF trying.expected[1] = "dns" THEN "complete" ELSE "events"

\* The next address connects at once.
CandidateConnected ==
    /\ pc = "candidates" /\ trying.left > 0 /\ Free
    /\ open' = open \cup {NewDescriptor}
    /\ published' = published \cup {NewDescriptor}
    /\ CancelTimer(trying.task)
    /\ IF CanWake(trying.task, trying.expected)
       THEN /\ WakeTask(trying.task, trying.expected)
            /\ Tried
            /\ UNCHANGED <<stacks, idle, created, active, error>>
       ELSE Fatal("inconsistent") /\ UNCHANGED <<wait, ready, trying>>
    /\ UNCHANGED <<joining, expired, exception, queue, flag, inFlight, connector, remaining,
                   events, after, resolverVars>>

\* The next address is being connected; the task waits for it from now on.
CandidateInProgress ==
    /\ pc = "candidates" /\ trying.left > 0 /\ Free
    /\ IF CanWake(trying.task, trying.expected)
       THEN LET d == NewDescriptor
            IN  /\ wait' = [wait EXCEPT ![trying.task] = <<"connect", d>>]
                /\ Connecting(d, trying.task, trying.left - 1, open)
                /\ queue' = [queue EXCEPT ![d]["write"] = Append(@, trying.task)]
                /\ Tried
                /\ UNCHANGED <<status, stacks, idle, created, active, error>>
       ELSE Fatal("inconsistent") /\ UNCHANGED <<wait, open, connector, remaining, queue, trying>>
    /\ UNCHANGED <<ready, timers, joining, expired, exception, published, flag, inFlight, events,
                   after, resolverVars>>

CandidateFails ==
    /\ pc = "candidates" /\ trying.left > 0
    /\ trying' = [trying EXCEPT !.left = @ - 1]
    /\ UNCHANGED <<taskVars, open, published, queue, flag, inFlight, connector, remaining, events,
                   after, resolverVars>>

NoCandidateLeft ==
    /\ pc = "candidates" /\ trying.left = 0
    /\ CancelTimer(trying.task)
    /\ Fatal("connect")
    /\ UNCHANGED <<wait, ready, joining, expired, exception, ioVars>>

\* expire_tcp_connect.
ExpireConnect ==
    /\ pc = "expire" /\ expired # <<>>
    /\ LET t == Head(expired)
       IN  \E d \in Descriptors :
            /\ CanWake(t, <<"connect", d>>)
            /\ inFlight' = [inFlight EXCEPT ![t] = NotInFlight]
            /\ Forget(d)
    /\ expired' = Tail(expired)
    /\ Fatal("timeout")
    /\ UNCHANGED <<wait, ready, timers, joining, exception, published, pollVars, resolverVars>>

-----------------------------------------------------------------------------
(* Host lookups. *)

\* arm_resolver_wake on the read queue q of the wake stream.
Armed(q) ==
    IF inFlight[RESOLVER_WAKE_TASK] # NotInFlight \/ RESOLVER_WAKE_TASK \in ToSet(q) THEN q
    ELSE Append(q, RESOLVER_WAKE_TASK)

\* coroutine_tcp_connect to a host.  The first lookup of the scope makes the
\* ResolverSet with its wake stream; a full request queue is an error.
QueueHasRoom == Len(requests) < QueueCapacity

LookupDescriptor == IF wake = NoDescriptor THEN NewDescriptor ELSE wake

Resolve ==
    /\ pc = "run"
    /\ nextJob <= MaxJobs
    /\ wake = NoDescriptor => Free
    /\ wake' = LookupDescriptor
    /\ open' = open \cup {wake'}
    /\ nextJob' = nextJob + 1
    /\ IF QueueHasRoom
       THEN /\ requests' = Append(requests, nextJob)
            /\ waiters' = [waiters EXCEPT ![nextJob] = active]
            /\ BlockTask(active, <<"dns", nextJob>>)
            /\ queue' = [queue EXCEPT ![wake']["read"] = Armed(@)]
            /\ MaybeTimer(active)
            /\ UNCHANGED <<stacks, idle, created, error>>
       ELSE /\ Fatal("full")
            /\ UNCHANGED <<wait, timers, requests, waiters, queue>>
    /\ UNCHANGED <<ready, joining, expired, exception, published, flag, inFlight, connector,
                   remaining, pollVars, completions, drained, signalled, worker>>

\* promote_resolver: the wake event is acknowledged and the stream emptied ...
PromoteResolver ==
    /\ pc = "events" /\ events # <<>>
    /\ Head(events).task = RESOLVER_WAKE_TASK
    /\ Acknowledge(RESOLVER_WAKE_TASK)
    /\ signalled' = FALSE
    /\ events' = Tail(events)
    /\ pc' = "drain"
    /\ UNCHANGED <<status, wait, ready, timers, stacks, idle, created, active, joining,
                   expired, error, exception, open, published, queue, connector, remaining, after,
                   trying, waiters, nextJob, wake, completions, drained, requests, worker>>

\* ... before the completions are taken, ...
DrainCompletions ==
    /\ pc = "drain"
    /\ drained' = completions
    /\ completions' = <<>>
    /\ pc' = "complete"
    /\ UNCHANGED <<status, wait, ready, timers, stacks, idle, created, active, joining,
                   expired, error, exception, open, published, queue, flag, inFlight, connector,
                   remaining, pollVars, waiters, nextJob, wake, signalled, requests, worker>>

\* ... and each is given to its waiter; a lookup that failed ends the scope.
CompleteLookup ==
    /\ pc = "complete" /\ drained # <<>>
    /\ LET job == Head(drained).job
           t == waiters[job]
       IN  /\ waiters' = [waiters EXCEPT ![job] = NoTask]
           /\ IF t = NoTask
              THEN UNCHANGED <<trying, timers, status, stacks, idle, created, active, error, pc>>
              ELSE IF Head(drained).addresses > 0
              THEN /\ trying' = [task |-> t, left |-> Head(drained).addresses,
                                 expected |-> <<"dns", job>>]
                   /\ pc' = "candidates"
                   /\ UNCHANGED <<timers, status, stacks, idle, created, active, error>>
              ELSE /\ CancelTimer(t)
                   /\ Fatal("lookup")
                   /\ UNCHANGED trying
    /\ drained' = Tail(drained)
    /\ UNCHANGED <<wait, ready, joining, expired, exception, open, published, queue, flag,
                   inFlight, connector, remaining, events, after, nextJob, wake, completions, signalled, requests, worker>>

RearmWakeBug ==
    /\ pc = "complete" /\ drained = <<>>
    /\ pc' = "events"
    /\ UNCHANGED <<status, wait, ready, timers, stacks, idle, created, active, joining,
                   expired, error, exception, ioVars>>
RearmWake ==
    /\ pc = "complete" /\ drained = <<>>
    /\ queue' = IF Pending = {} THEN queue ELSE [queue EXCEPT ![wake]["read"] = Armed(@)]
    /\ pc' = "events"
    /\ UNCHANGED <<status, wait, ready, timers, stacks, idle, created, active, joining,
                   expired, error, exception, open, published, flag, inFlight, connector,
                   remaining, pollVars, resolverVars>>

\* disarm_resolver_wake on that queue.
Disarmed(q) == SelectSeq(q, LAMBDA t : t # RESOLVER_WAKE_TASK)

\* disarm_resolver_wake, once nobody waits for a lookup any more.
Disarm(left) ==
    LET off == wake # NoDescriptor /\ left = {}
    IN  /\ queue' = IF off THEN [queue EXCEPT ![wake]["read"] = Disarmed(@)] ELSE queue
        /\ inFlight' = IF off THEN [inFlight EXCEPT ![RESOLVER_WAKE_TASK] = NotInFlight] ELSE inFlight
        /\ flag' = IF off /\ inFlight[RESOLVER_WAKE_TASK] # NotInFlight
                   THEN [flag EXCEPT ![wake]["read"] = FALSE] ELSE flag

\* expire_dns_resolve.
ExpireLookup ==
    /\ pc = "expire" /\ expired # <<>>
    /\ \E job \in Jobs :
        /\ CanWake(Head(expired), <<"dns", job>>)
        /\ waiters' = [waiters EXCEPT ![job] = NoTask]
        /\ Disarm(Pending \ {job})
    /\ expired' = Tail(expired)
    /\ Fatal("timeout")
    /\ UNCHANGED <<wait, ready, timers, joining, exception, open, published, connector, remaining, pollVars, nextJob, wake,
                   completions, drained, signalled, requests, worker>>

\* The loop of a pool thread: take a request, look the host up, hand over the
\* answer unless the scope has ended, then write to its wake stream.
TakeRequest(w) ==
    /\ worker[w] = Idle
    /\ requests # <<>>
    /\ worker' = [worker EXCEPT ![w] = <<"lookup", Head(requests)>>]
    /\ requests' = Tail(requests)
    /\ UNCHANGED <<taskVars, open, published, queue, flag, inFlight, connector, remaining,
                   pollVars, waiters, nextJob, wake, completions, drained, signalled>>

Answer(w) ==
    /\ worker[w][1] = "lookup"
    /\ LET job == worker[w][2]
       IN  IF job = 0
           THEN /\ worker' = [worker EXCEPT ![w] = Idle]
                /\ UNCHANGED completions
           ELSE /\ \E n \in 0..MaxAddresses :
                    completions' = Append(completions, [job |-> job, addresses |-> n])
                /\ worker' = [worker EXCEPT ![w] = <<"signal", job>>]
    /\ UNCHANGED <<taskVars, open, published, queue, flag, inFlight, connector, remaining,
                   pollVars, waiters, nextJob, wake, drained, signalled, requests>>

SignalWake(w) ==
    /\ worker[w][1] = "signal"
    /\ signalled' = TRUE
    /\ worker' = [worker EXCEPT ![w] = Idle]
    /\ UNCHANGED <<taskVars, open, published, queue, flag, inFlight, connector, remaining,
                   pollVars, waiters, nextJob, wake, completions, drained, requests>>

-----------------------------------------------------------------------------
(* The rest of next_runnable, and the ends of a scope and of the process. *)

ExpireSleep ==
    /\ expired # <<>> => wait[Head(expired)][1] \notin {"connect", "dns"}
    /\ ExpireTimer
    /\ UNCHANGED ioVars

TimersDone ==
    /\ pc = "expire" /\ expired = <<>>
    /\ pc' = "poll"
    /\ UNCHANGED <<status, wait, ready, timers, stacks, idle, created, active, joining,
                   expired, error, exception, ioVars>>

HasWaitersBug == \E d \in open : queue[d]["read"] # <<>>
HasWaiters == \E d \in open, k \in Directions : queue[d][k] # <<>>

NothingReady ==
    /\ pc = "pop" /\ ready = <<>>
    /\ pc' = IF HasWaiters THEN "block" ELSE "sleep"
    /\ UNCHANGED <<status, wait, ready, timers, stacks, idle, created, active, joining,
                   expired, error, exception, ioVars>>

\* The descriptors of the connects that finish_scope withdraws.
WaitingConnectsBug == {d \in open : \E t \in Tasks : d \in published /\ wait[t] = <<"connect", d>>}
WaitingConnects == {d \in open : \E t \in Tasks : wait[t] = <<"connect", d>>}

\* finish_scope withdraws the connects and the lookups of the waiting tasks.
FinishIo ==
    LET gone == WaitingConnects
        withdrawn == {j \in Jobs : \E t \in Tasks : wait[t] = <<"dns", j>>}
        off == withdrawn # {} /\ Pending \subseteq withdrawn
    IN  /\ open' = open \ gone
        /\ connector' = [d \in Descriptors |-> IF d \in gone THEN NoTask ELSE connector[d]]
        /\ remaining' = [d \in Descriptors |-> IF d \in gone THEN 0 ELSE remaining[d]]
        /\ waiters' = [j \in Jobs |-> IF j \in withdrawn THEN NoTask ELSE waiters[j]]
        /\ queue' = [d \in Descriptors |->
                        IF d \in gone THEN NoWaiters[d]
                        ELSE IF off /\ d = wake THEN [queue[d] EXCEPT !["read"] = Disarmed(@)]
                        ELSE queue[d]]
        /\ flag' = [d \in Descriptors |->
                       IF d \in gone THEN NoFlags[d]
                       ELSE IF off /\ inFlight[RESOLVER_WAKE_TASK] = <<d, "read">>
                            THEN [flag[d] EXCEPT !["read"] = FALSE]
                       ELSE flag[d]]
        /\ inFlight' = [t \in DOMAIN inFlight |->
                           IF t = RESOLVER_WAKE_TASK /\ off THEN NotInFlight
                           ELSE IF t \in Tasks /\ wait[t][1] = "connect" THEN NotInFlight
                           ELSE inFlight[t]]
        /\ UNCHANGED <<published, pollVars, nextJob, wake, completions, drained, signalled,
                       requests, worker>>

EndScope == FinishScope /\ FinishIo

ResetIo ==
    /\ open' = {} /\ published' = {}
    /\ queue' = NoWaiters
    /\ flag' = NoFlags
    /\ inFlight' = [t \in Tasks \cup {RESOLVER_WAKE_TASK} |-> NotInFlight]
    /\ connector' = [d \in Descriptors |-> NoTask]
    /\ remaining' = [d \in Descriptors |-> 0]
    /\ events' = <<>> /\ after' = "pop" /\ trying' = NotTrying
    /\ waiters' = [j \in Jobs |-> NoTask]
    /\ nextJob' = 1
    /\ wake' = NoDescriptor
    /\ completions' = <<>> /\ drained' = <<>>
    /\ signalled' = FALSE

\* The scheduler is dropped with its ends of the completion queue and the wake
\* stream, so that a byte not yet written goes nowhere; the pool goes on with the
\* requests it still has.  After a panic everything starts over.
NewScope ==
    /\ pc \in {"ended", "panicked"}
    /\ NewTasks
    /\ ResetIo
    /\ requests' = IF pc = "ended" THEN [i \in DOMAIN requests |-> 0] ELSE <<>>
    /\ worker' = [w \in Workers |-> IF pc = "ended" /\ worker[w][1] = "lookup"
                                    THEN <<"lookup", 0>> ELSE Idle]

Calls ==
    \/ /\ \/ Spawn \/ RefusedCall \/ Suspend \/ Sleep \/ Return
          \/ \E t \in Tasks : Join(t) \/ JoinEnded(t) \/ JoinWaiting(t)
       /\ UNCHANGED ioVars
    \/ \E t \in Tasks : Acknowledging(Resume(t))
    \/ OpenDescriptor
    \/ \E d \in Descriptors, k \in Directions : WaitDescriptor(d, k)
    \/ Connect
    \/ Resolve
    \/ EndScope
    \/ NewScope

Drive ==
    \/ /\ JoinWait \/ JoinResult \/ JoinTwice \/ DrainDue \/ SleepUntilDeadline \/ ReportDeadlock
       /\ UNCHANGED ioVars
    \/ Acknowledging(JoinResume)
    \/ Acknowledging(PopReady)
    \/ AcknowledgeStale
    \/ ExpireSleep \/ ExpireConnect \/ ExpireLookup
    \/ TimersDone \/ NothingReady
    \/ PollReady \/ PromoteWaiter \/ EventsDone
    \/ Connected \/ StillConnecting \/ ConnectFailed
    \/ CandidateConnected \/ CandidateInProgress \/ CandidateFails \/ NoCandidateLeft
    \/ PromoteResolver \/ DrainCompletions \/ CompleteLookup \/ RearmWake

Pool(w) == TakeRequest(w) \/ Answer(w) \/ SignalWake(w)

Next ==
    \/ Calls
    \/ Drive
    \/ PollInterrupted
    \/ \E w \in Workers : Pool(w)

Spec == Init /\ [][Next]_vars

-----------------------------------------------------------------------------

QueuedEvents(t, d, k) ==
    Cardinality({i \in DOMAIN events :
                    events[i] = [task |-> t, descriptor |-> d, direction |-> k]})

(***************************************************************************)
(* Every waiting task is registered exactly once for what its wait reason  *)
(* says: in the queue of its descriptor or in the event just taken from it *)
(* (a connecting task as the descriptor's connector too), or as the waiter *)
(* of its lookup; while the next address is tried, in the locals of        *)
(* start_connect_candidates.  A timer belongs to a task that still sleeps, *)
(* connects or looks up: the timeout of a connect never outlives it to     *)
(* wake or kill a later wait of the task.  Only a task that waits for a    *)
(* descriptor it was never given, that of a connect in progress, can lose  *)
(* its registration: with the descriptor, when the connect fails.          *)
(***************************************************************************)
WaitersRegistered ==
    /\ error # "inconsistent"
    /\ pc \notin Over =>
        \A t \in Tasks :
            /\ (status[t] = "Waiting") = (wait[t] # NoWait)
            /\ Positions(t, timers) + Positions(t, expired)
                 \in (IF wait[t] = Timer THEN {1}
                      ELSE IF wait[t][1] \in {"connect", "dns"} THEN {0, 1} ELSE {0})
            /\ \A d \in Descriptors, k \in Directions :
                Positions(t, queue[d][k]) + QueuedEvents(t, d, k)
                  = IF \/ wait[t] = <<k, d>> /\ d \in open
                       \/ k = "write" /\ wait[t] = <<"connect", d>> /\ trying.task # t
                    THEN 1 ELSE 0
            /\ wait[t] \notin Directions \X (published \ open)
            /\ \A d \in Descriptors :
                (connector[d] = t) = (wait[t] = <<"connect", d>> /\ trying.task # t)
            /\ \A j \in Jobs : (waiters[j] = t) = (wait[t] = <<"dns", j>> /\ trying.task # t)

(***************************************************************************)
(* A direction of a descriptor is in flight exactly while one task holds   *)
(* its readiness: the event is on its way to the task, or the task is      *)
(* queued and has not been resumed.  So acknowledge_ready finds the flag   *)
(* set and no readiness is held by a task that will never give it back;    *)
(* and it finds the descriptor registered, as its expect says, unless the  *)
(* task has waited for a descriptor it was never given, that of a connect  *)
(* that has failed since.                                                  *)
(***************************************************************************)
InFlightTracked ==
    /\ pc \notin Over =>
        /\ \A d \in open, k \in Directions :
            Cardinality({t \in DOMAIN inFlight : inFlight[t] = <<d, k>>}) = IF flag[d][k] THEN 1 ELSE 0
        /\ \A t \in DOMAIN inFlight :
            inFlight[t] # NotInFlight =>
                \/ QueuedEvents(t, inFlight[t][1], inFlight[t][2]) = 1
                \/ t # RESOLVER_WAKE_TASK /\ status[t] = "Ready"
    /\ \A t \in DOMAIN inFlight : Stale(t) => inFlight[t][1] \notin published

(***************************************************************************)
(* No answer of a lookup is lost between a pool thread and the scope's     *)
(* thread: a lookup a task waits for is still to be made, or its answer is *)
(* queued and the wake stream is watched and holds a byte, or will.        *)
(***************************************************************************)
NoLostLookup ==
    pc \notin Over =>
        \A j \in Pending :
            LET Answered(s) == \E i \in DOMAIN s : s[i].job = j
            IN  /\ \/ \E i \in DOMAIN requests : requests[i] = j
                   \/ \E w \in Workers : worker[w] = <<"lookup", j>>
                   \/ Answered(drained)
                   \/ /\ Answered(completions)
                      /\ \/ signalled
                         \/ pc = "drain"
                         \/ \E w \in Workers : worker[w][1] = "signal"
                         \/ \E e \in ToSet(events) : e.task = RESOLVER_WAKE_TASK
                /\ \/ RESOLVER_WAKE_TASK \in ToSet(queue[wake]["read"])
                   \/ inFlight[RESOLVER_WAKE_TASK] # NotInFlight
                   \/ pc \in {"drain", "complete", "candidates"}

(***************************************************************************)
(* A task that waits for a descriptor, a connect, a lookup or the time can *)
(* always go on, so join reports a deadlock only when no task is queued or *)
(* runs and every task that still waits has lost its descriptor to a       *)
(* connect that failed.                                                    *)
(***************************************************************************)
NoFalseDeadlock ==
    error = "deadlock" /\ pc = "fatal" =>
        \A t \in Tasks :
            /\ status[t] \notin {"Created", "Ready", "Running"}
            /\ status[t] = "Waiting" => wait[t] \in Directions \X (Descriptors \ open)

(***************************************************************************)
(* When the scope has ended, no task is live, and every connect and lookup *)
(* is withdrawn: what remains registered are the descriptors PHP was given *)
(* and the wake stream, and the pool's threads find no waiter.             *)
(***************************************************************************)
PendingWithdrawn ==
    pc = "ended" =>
        /\ \A t \in Tasks : status[t] \notin Live \cup {"Created"} /\ wait[t] = NoWait
        /\ open \subseteq published \cup {wake}
        /\ \A d \in Descriptors : connector[d] = NoTask
        /\ Pending = {}

(***************************************************************************)
(* poll_ready asserts (io.rs:284, io.rs:300) that the direction it takes a *)
(* waiter from is not in flight.                                           *)
(***************************************************************************)
OneWaiterInFlight == error # "assertion"

-----------------------------------------------------------------------------
(* Fairness: join keeps driving and its polls are not interrupted for ever; *)
(* the pool's threads go on and lookups return; time passes every deadline; *)
(* the code of a task does not run for ever without yielding or ending.     *)

FairSpec ==
    /\ Spec
    /\ WF_vars(Drive)
    /\ SF_vars(PollReady)
    /\ \A w \in Workers : WF_vars(Pool(w))
    /\ \A t \in Tasks : SF_vars(Expires(t) /\ UNCHANGED ioVars)
    /\ WF_vars((Suspend \/ Sleep \/ Return) /\ UNCHANGED ioVars)

(***************************************************************************)
(* While the root is in join, a task that is queued, sleeps or waits for a *)
(* lookup goes on: it runs, or has begun to connect.  Only the end of the  *)
(* join or of the scope can keep it from that, or a joined task that       *)
(* suspends itself: join resumes that one directly, ahead of the queue.    *)
(***************************************************************************)
TasksServed ==
    \A t \in Tasks :
        (status[t] \in {"Created", "Ready"} \/ wait[t] = Timer \/ wait[t][1] = "dns") ~>
            \/ status[t] = "Running"
            \/ wait[t][1] = "connect"
            \/ joining = NoTask
            \/ pc \in Over
            \/ status[joining] = "Suspended"
=============================================================================
