--------------------------- MODULE CoroutineTasks ---------------------------
(***************************************************************************)
(* The tasks of one coroutine_scope (src/runtime/coroutine) and the thread *)
(* that drives them.  Everything runs on one thread: the scope's root runs *)
(* PHP, resumes a task, or is inside join; a task runs until it yields.    *)
(* Time is seen only where drain_due reads the clock.  The module holds    *)
(* the table of tasks, the ready queue, the timers, the pool of stacks and *)
(* join; what a task may wait for besides a timer is added by              *)
(* CoroutineChannels and CoroutineIo, which complete the steps below.      *)
(***************************************************************************)
EXTENDS Naturals, Sequences, FiniteSetsExt, Functions

CONSTANT MaxTasks       \* bound on the tasks a scope spawns

ASSUME MaxTasksAssumption == MaxTasks \in Nat \ {0}

VARIABLES
    status,     \* CoroutineContext.status, "None" before the spawn: "Created", then
                \* Live, then "Completed", "Failed", "Joined" or "Cancelled"
    wait,       \* CoroutineContext.wait_reason
    ready,      \* Readiness.ready
    timers,     \* Readiness.timers: the tasks by (deadline, sequence)
    stacks,     \* the tasks whose state.stacks is Some
    idle,       \* Len of pool.idle
    created,    \* pool.created
    active,     \* scheduler.active, NoTask for None
    pc,         \* where the scope's thread is
    joining,    \* the argument of the join in progress
    expired,    \* the local `due` of promote_due_timers
    error,      \* the error that ends the scope
    exception   \* eg.exception when the scope has ended

taskVars == <<status, wait, ready, timers, stacks, idle, created, active,
              pc, joining, expired, error, exception>>

Tasks == 1..MaxTasks
NoTask == 0
RootException == MaxTasks + 1

NoWait == <<"none", 0>>
Timer == <<"timer", 0>>

Runnable == {"Created", "Ready", "Suspended"}
Live == {"Ready", "Running", "Suspended", "Waiting"}

InitTasks ==
    /\ status = [t \in Tasks |-> "None"]
    /\ wait = [t \in Tasks |-> NoWait]
    /\ ready = <<>> /\ timers = <<>> /\ expired = <<>>
    /\ stacks = {}
    /\ idle = 0 /\ created = 0
    /\ active = NoTask /\ joining = NoTask
    /\ pc = "php"
    /\ error = "none"
    /\ exception = NoTask

-----------------------------------------------------------------------------
(* Parts of steps. *)

\* The scope's thread goes on after a task has yielded or finished.
Back == IF joining = NoTask THEN "php" ELSE "join"

\* scheduler.rs wake_task: the task becomes Ready and is queued, unless it does
\* not wait for exactly this reason.
CanWake(t, reason) == status[t] = "Waiting" /\ wait[t] = reason

WakeTask(t, reason) ==
    /\ status' = [status EXCEPT ![t] = "Ready"]
    /\ wait' = [wait EXCEPT ![t] = NoWait]
    /\ ready' = Append(ready, t)

\* block_task followed by the suspension that every caller requests: the task
\* leaves the thread as Waiting and keeps its stacks.
BlockTaskBug(t, reason) ==
    /\ wait' = [wait EXCEPT ![t] = reason]
    /\ status' = [status EXCEPT ![t] = "Suspended"]
    /\ active' = NoTask
    /\ pc' = Back
BlockTask(t, reason) ==
    /\ wait' = [wait EXCEPT ![t] = reason]
    /\ status' = [status EXCEPT ![t] = "Waiting"]
    /\ active' = NoTask
    /\ pc' = Back

\* CoroutineStackPool.checkout, only for a task that has no stacks yet.
Checkout(t) ==
    /\ stacks' = stacks \cup {t}
    /\ idle' = IF t \in stacks \/ idle = 0 THEN idle ELSE idle - 1
    /\ created' = IF t \in stacks \/ idle > 0 THEN created ELSE created + 1

\* cleanup_frames and CoroutineStackPool.recycle.
Recycle(t) ==
    /\ stacks' = stacks \ {t}
    /\ idle' = idle + 1
    /\ UNCHANGED created

\* Readiness.remove_ready: the task's first entry, if there is one.
RemoveReady(queue, t) ==
    LET at == {i \in DOMAIN queue : queue[i] = t}
    IN  IF at = {} THEN queue
        ELSE SubSeq(queue, 1, Min(at) - 1) \o SubSeq(queue, Min(at) + 1, Len(queue))

\* The first half of resume, up to the task's own code.  queue is the ready
\* queue as resume finds it.
BeginResumeBug(t, queue) ==
    /\ status[t] \in Runnable
    /\ status' = [status EXCEPT ![t] = "Running"]
    /\ ready' = queue
    /\ Checkout(t)
    /\ active' = t
    /\ pc' = "run"
BeginResume(t, queue) ==
    /\ status[t] \in Runnable
    /\ status' = [status EXCEPT ![t] = "Running"]
    /\ ready' = IF status[t] = "Suspended" THEN queue ELSE RemoveReady(queue, t)
    /\ Checkout(t)
    /\ active' = t
    /\ pc' = "run"

\* A call ends with an error, VmError::Fatal, which nothing in PHP catches: the
\* task that made the call, if one runs, is cancelled by its resume, and the error
\* leaves the scope's root.
Fatal(reason) ==
    /\ error' = reason
    /\ pc' = "fatal"
    /\ active' = NoTask
    /\ IF active = NoTask
       THEN UNCHANGED <<status, stacks, idle, created>>
       ELSE status' = [status EXCEPT ![active] = "Cancelled"] /\ Recycle(active)

-----------------------------------------------------------------------------
(* What the code of the root and of the tasks may call.  A call is made by   *)
(* the running task, or by the root when no task runs.                       *)

Calling == pc \in {"php", "run"}

Spawned == {t \in Tasks : status[t] # "None"}

SpawnBug ==
    \E t \in Tasks \ Spawned :
        /\ Calling
        /\ \A u \in Tasks : u < t => u \in Spawned
        /\ status' = [status EXCEPT ![t] = "Created"]
        /\ UNCHANGED <<wait, ready, timers, stacks, idle, created, active, pc, joining,
                       expired, error, exception>>
Spawn ==
    \E t \in Tasks \ Spawned :
        /\ Calling
        /\ \A u \in Tasks : u < t => u \in Spawned
        /\ status' = [status EXCEPT ![t] = "Created"]
        /\ ready' = Append(ready, t)
        /\ UNCHANGED <<wait, timers, stacks, idle, created, active, pc, joining,
                       expired, error, exception>>

\* coroutine_resume by the root; the call returns at once for a task that is
\* waiting or has ended.
Resume(t) ==
    /\ pc = "php"
    /\ BeginResume(t, ready)
    /\ UNCHANGED <<wait, timers, joining, expired, error, exception>>

Join(t) ==
    /\ pc = "php"
    /\ t \in Spawned
    /\ joining' = t
    /\ pc' = "join"
    /\ UNCHANGED <<status, wait, ready, timers, stacks, idle, created, active,
                   expired, error, exception>>

\* join looks at the status before resume looks at the caller, so a running task
\* may collect a task that has ended.
JoinEnded(t) ==
    /\ pc = "run"
    /\ status[t] \in {"Completed", "Failed"}
    /\ status' = [status EXCEPT ![t] = "Joined"]
    /\ UNCHANGED <<wait, ready, timers, stacks, idle, created, active, pc, joining,
                   expired, error, exception>>

\* Nor does it look at the caller before it asks next_runnable for a task to run
\* in place of one that waits: the loop below runs under the running task.
JoinWaiting(t) ==
    /\ pc = "run"
    /\ status[t] = "Waiting"
    /\ pc' = "timers"
    /\ UNCHANGED <<status, wait, ready, timers, stacks, idle, created, active, joining,
                   expired, error, exception>>

\* A call the API refuses: an unknown task or channel, join of a joined task,
\* a task's operation called by the root, resume called by a task, join called by
\* a task of one that could be resumed.
RefusedCall ==
    /\ Calling
    /\ Fatal("refused")
    /\ UNCHANGED <<wait, ready, timers, joining, expired, exception>>

\* coroutine_suspend.
Suspend ==
    /\ pc = "run"
    /\ status' = [status EXCEPT ![active] = "Suspended"]
    /\ active' = NoTask
    /\ pc' = Back
    /\ UNCHANGED <<wait, ready, timers, stacks, idle, created, joining, expired,
                   error, exception>>

\* Readiness.schedule_timer: the deadline may lie anywhere among the others.
ScheduleTimer(t) ==
    \E i \in 1..(Len(timers) + 1) :
        timers' = SubSeq(timers, 1, i - 1) \o <<t>> \o SubSeq(timers, i, Len(timers))

Sleep ==
    /\ pc = "run"
    /\ BlockTask(active, Timer)
    /\ ScheduleTimer(active)
    /\ UNCHANGED <<ready, stacks, idle, created, joining, expired, error, exception>>

\* The task's code returns, or throws a PHP exception nothing catches.
Return ==
    /\ pc = "run"
    /\ \E end \in {"Completed", "Failed"} : status' = [status EXCEPT ![active] = end]
    /\ Recycle(active)
    /\ active' = NoTask
    /\ pc' = Back
    /\ UNCHANGED <<wait, ready, timers, joining, expired, error, exception>>

-----------------------------------------------------------------------------
(* The loop of join and next_runnable. *)

JoinResume ==
    /\ pc = "join"
    /\ BeginResume(joining, ready)
    /\ UNCHANGED <<wait, timers, joining, expired, error, exception>>

JoinWait ==
    /\ pc = "join"
    /\ status[joining] = "Waiting"
    /\ pc' = "timers"
    /\ UNCHANGED <<status, wait, ready, timers, stacks, idle, created, active, joining,
                   expired, error, exception>>

JoinResult ==
    /\ pc = "join"
    /\ status[joining] \in {"Completed", "Failed"}
    /\ status' = [status EXCEPT ![joining] = "Joined"]
    /\ joining' = NoTask
    /\ pc' = "php"
    /\ UNCHANGED <<wait, ready, timers, stacks, idle, created, active, expired, error,
                   exception>>

\* Another task has collected the result first.
JoinTwice ==
    /\ pc = "join"
    /\ status[joining] = "Joined"
    /\ Fatal("refused")
    /\ UNCHANGED <<wait, ready, timers, joining, expired, exception>>

\* drain_due takes the timers whose deadline has passed off the heap, in order.
DrainDue ==
    /\ pc = "timers"
    /\ \E n \in 0..Len(timers) :
        /\ expired' = SubSeq(timers, 1, n)
        /\ timers' = SubSeq(timers, n + 1, Len(timers))
    /\ pc' = "expire"
    /\ UNCHANGED <<status, wait, ready, stacks, idle, created, active, joining, error, exception>>

\* One round of promote_due_timers for a task that sleeps; the entry of a task
\* that waits for nothing is dropped.
ExpireTimer ==
    /\ pc = "expire"
    /\ expired # <<>>
    /\ expired' = Tail(expired)
    /\ IF CanWake(Head(expired), Timer)
       THEN WakeTask(Head(expired), Timer)
       ELSE UNCHANGED <<status, wait, ready>>
    /\ UNCHANGED <<timers, stacks, idle, created, active, pc, joining, error, exception>>

\* pop_ready; an entry of a task that is not Created or Ready is skipped.  If a
\* task has called join, resume refuses the task that was popped.
PopReady ==
    /\ pc = "pop"
    /\ ready # <<>>
    /\ IF status[Head(ready)] \notin {"Created", "Ready"}
       THEN /\ ready' = Tail(ready)
            /\ UNCHANGED <<status, stacks, idle, created, active, pc, error>>
       ELSE IF active = NoTask
       THEN BeginResume(Head(ready), Tail(ready)) /\ UNCHANGED error
       ELSE Fatal("nested") /\ ready' = Tail(ready)
    /\ UNCHANGED <<wait, timers, joining, expired, exception>>

\* The thread sleeps until the first deadline, and next_runnable starts over.
SleepUntilDeadline ==
    /\ pc = "sleep"
    /\ timers # <<>>
    /\ pc' = "timers"
    /\ UNCHANGED <<status, wait, ready, timers, stacks, idle, created, active, joining,
                   expired, error, exception>>

\* next_runnable has nothing left to wait for: join reports a deadlock.
ReportDeadlock ==
    /\ pc = "sleep"
    /\ timers = <<>>
    /\ Fatal("deadlock")
    /\ UNCHANGED <<wait, ready, timers, joining, expired, exception>>

\* The clock has passed the deadline of task t when drain_due reads it.
Expires(t) == DrainDue /\ t \in Range(expired')

-----------------------------------------------------------------------------
(* The end of the scope. *)

\* finish_scope on the table of tasks.  own is the exception the root leaves
\* behind; a failure nobody joined is raised only if there is none.  The queues go
\* with the scheduler, which is dropped next.
Unjoined == {t \in Tasks : status[t] = "Failed"}
RaisedBug(own) == IF Unjoined # {} THEN Max(Unjoined) ELSE own
Raised(own) == IF own = NoTask /\ Unjoined # {} THEN Min(Unjoined) ELSE own

FinishTasks(own) ==
    /\ status' = [t \in Tasks |-> IF status[t] \in Runnable \cup {"Waiting"} THEN "Cancelled"
                                  ELSE IF t = Raised(own) THEN "Joined" ELSE status[t]]
    /\ wait' = [t \in Tasks |-> IF status[t] \in Live THEN NoWait ELSE wait[t]]
    /\ LET held == {t \in stacks : status[t] \in Live}
       IN  /\ stacks' = stacks \ held
           /\ idle' = idle + Cardinality(held)
    /\ exception' = Raised(own)
    /\ ready' = <<>> /\ timers' = <<>> /\ expired' = <<>>
    /\ joining' = NoTask
    /\ pc' = "ended"
    /\ UNCHANGED <<created, active, error>>

FinishScope ==
    /\ pc \in {"php", "fatal"}
    /\ \E own \in {NoTask, RootException} : FinishTasks(own)

\* The scheduler is dropped; a later coroutine_scope starts afresh.
NewTasks ==
    /\ status' = [t \in Tasks |-> "None"]
    /\ wait' = [t \in Tasks |-> NoWait]
    /\ ready' = <<>> /\ timers' = <<>> /\ expired' = <<>>
    /\ stacks' = {}
    /\ idle' = 0 /\ created' = 0
    /\ active' = NoTask /\ joining' = NoTask
    /\ pc' = "php"
    /\ error' = "none"
    /\ exception' = NoTask

-----------------------------------------------------------------------------
(* What holds of the tasks whatever they wait for. *)

Positions(t, s) == Cardinality({i \in DOMAIN s : s[i] = t})

\* The tasks next_runnable would run.
Queued == {t \in Tasks : status[t] \in {"Created", "Ready"}}

(***************************************************************************)
(* The ready queue holds every task that is Created or Ready exactly once, *)
(* and no other: resume, which takes a task out of the middle of the queue *)
(* when the root resumes or joins it by name, never leaves an entry behind *)
(* and never drops the entry of another task.  One task alone may be       *)
(* missing, and only when the scope is about to end: the task that         *)
(* next_runnable popped for a join that a task has called.                 *)
(***************************************************************************)
QueuedOnce ==
    pc # "ended" =>
        LET expected == IF error = "nested" THEN {Queued \ {t} : t \in Queued} ELSE {Queued}
        IN  \E listed \in expected : \A t \in Tasks :
                Positions(t, ready) = IF t \in listed THEN 1 ELSE 0

\* The scope is over, or about to be.
Over == {"fatal", "ended", "panicked"}
=============================================================================
