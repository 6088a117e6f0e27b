------------------------- MODULE CoroutineChannels -------------------------
(***************************************************************************)
(* The tasks of a coroutine_scope with the channels of the scope           *)
(* (scheduler/channel.rs): a channel operation of the running task blocks  *)
(* it, or wakes the task at the other end.                                 *)
(***************************************************************************)
EXTENDS CoroutineTasks

CONSTANTS
    MaxChannels,    \* bound on the channels of a scope
    MaxCapacity,    \* bound on the capacity of a channel
    Values          \* what is sent

ASSUME ChannelsAssumption ==
    /\ MaxChannels \in Nat \ {0}
    /\ MaxCapacity \in Nat \ {0}

Null == "null"
Channels == 1..MaxChannels

VARIABLES
    capacity,   \* Channel.capacity, 0 for a channel not created yet
    buffer,     \* Channel.buffer
    senders,    \* Channel.senders: records of task and value
    receivers,  \* Channel.receivers: the tasks
    got         \* the slot the task's last coroutine_receive returns into

channelVars == <<capacity, buffer, senders, receivers, got>>
vars == <<taskVars, channelVars>>

InitChannels ==
    /\ capacity = [c \in Channels |-> 0]
    /\ buffer = [c \in Channels |-> <<>>]
    /\ senders = [c \in Channels |-> <<>>]
    /\ receivers = [c \in Channels |-> <<>>]
    /\ got = [t \in Tasks |-> Null]

Init == InitTasks /\ InitChannels

Opened == {c \in Channels : capacity[c] > 0}

CreateChannel ==
    \E c \in Channels \ Opened, n \in 1..MaxCapacity :
        /\ Calling
        /\ \A d \in Channels : d < c => d \in Opened
        /\ capacity' = [capacity EXCEPT ![c] = n]
        /\ UNCHANGED <<taskVars, buffer, senders, receivers, got>>

\* A channel operation of the running task wakes task w, which must be waiting
\* at the other end of the channel.
WakeOther(w, reason) ==
    /\ IF CanWake(w, reason)
       THEN /\ WakeTask(w, reason)
            /\ UNCHANGED <<stacks, idle, created, active, pc, error>>
       ELSE /\ Fatal("inconsistent")
            /\ UNCHANGED <<wait, ready>>
    /\ UNCHANGED <<timers, joining, expired, exception>>

BlockActive(reason) ==
    /\ BlockTask(active, reason)
    /\ UNCHANGED <<ready, timers, stacks, idle, created, joining, expired, error,
                   exception>>

\* coroutine_send: a value is handed to the first waiting receiver, buffered, or
\* kept with its sender, which blocks.
SendBug(c, v) ==
    /\ pc = "run"
    /\ c \in Opened
    /\ \/ /\ Len(buffer[c]) < capacity[c]
          /\ buffer' = [buffer EXCEPT ![c] = Append(@, v)]
          /\ UNCHANGED <<taskVars, receivers, senders, got>>
       \/ /\ Len(buffer[c]) >= capacity[c]
          /\ senders' = [senders EXCEPT ![c] = Append(@, [task |-> active, value |-> v])]
          /\ BlockActive(<<"send", c>>)
          /\ UNCHANGED <<buffer, receivers, got>>
    /\ UNCHANGED capacity
Send(c, v) ==
    /\ pc = "run"
    /\ c \in Opened
    /\ \/ /\ receivers[c] # <<>>
          /\ got' = [got EXCEPT ![Head(receivers[c])] = v]
          /\ receivers' = [receivers EXCEPT ![c] = Tail(@)]
          /\ WakeOther(Head(receivers[c]), <<"receive", c>>)
          /\ UNCHANGED <<buffer, senders>>
       \/ /\ receivers[c] = <<>>
          /\ Len(buffer[c]) < capacity[c]
          /\ buffer' = [buffer EXCEPT ![c] = Append(@, v)]
          /\ UNCHANGED <<taskVars, receivers, senders, got>>
       \/ /\ receivers[c] = <<>>
          /\ Len(buffer[c]) >= capacity[c]
          /\ senders' = [senders EXCEPT ![c] = Append(@, [task |-> active, value |-> v])]
          /\ BlockActive(<<"send", c>>)
          /\ UNCHANGED <<buffer, receivers, got>>
    /\ UNCHANGED capacity

\* coroutine_receive: the oldest buffered value, whose place the oldest blocked
\* sender's value takes; otherwise the task blocks and its slot is set to null.
ReceiveBug(c) ==
    /\ pc = "run"
    /\ c \in Opened
    /\ \/ /\ buffer[c] # <<>>
          /\ got' = [got EXCEPT ![active] = Head(buffer[c])]
          /\ buffer' = [buffer EXCEPT ![c] = Tail(@)]
          /\ UNCHANGED <<taskVars, senders, receivers>>
       \/ /\ buffer[c] = <<>>
          /\ receivers' = [receivers EXCEPT ![c] = Append(@, active)]
          /\ got' = [got EXCEPT ![active] = Null]
          /\ BlockActive(<<"receive", c>>)
          /\ UNCHANGED <<buffer, senders>>
    /\ UNCHANGED capacity
Receive(c) ==
    /\ pc = "run"
    /\ c \in Opened
    /\ \/ /\ buffer[c] # <<>>
          /\ got' = [got EXCEPT ![active] = Head(buffer[c])]
          /\ IF senders[c] = <<>>
             THEN /\ buffer' = [buffer EXCEPT ![c] = Tail(@)]
                  /\ UNCHANGED <<taskVars, senders>>
             ELSE /\ buffer' = [buffer EXCEPT ![c] = Append(Tail(@), Head(senders[c]).value)]
                  /\ senders' = [senders EXCEPT ![c] = Tail(@)]
                  /\ WakeOther(Head(senders[c]).task, <<"send", c>>)
          /\ UNCHANGED receivers
       \/ /\ buffer[c] = <<>>
          /\ receivers' = [receivers EXCEPT ![c] = Append(@, active)]
          /\ got' = [got EXCEPT ![active] = Null]
          /\ BlockActive(<<"receive", c>>)
          /\ UNCHANGED <<buffer, senders>>
    /\ UNCHANGED capacity

\* The frame that holds the slot goes with the task's code.
TaskEnds ==
    /\ Return
    /\ got' = [got EXCEPT ![active] = Null]
    /\ UNCHANGED <<capacity, buffer, senders, receivers>>

\* Without descriptors next_runnable goes from the timers to the ready queue, and
\* from an empty queue to the first deadline.
TimersDone ==
    /\ pc = "expire"
    /\ expired = <<>>
    /\ pc' = "pop"
    /\ UNCHANGED <<status, wait, ready, timers, stacks, idle, created, active, joining,
                   expired, error, exception, channelVars>>

NothingReady ==
    /\ pc = "pop"
    /\ ready = <<>>
    /\ pc' = "sleep"
    /\ UNCHANGED <<status, wait, ready, timers, stacks, idle, created, active, joining,
                   expired, error, exception, channelVars>>

NewScope ==
    /\ pc = "ended"
    /\ NewTasks
    /\ capacity' = [c \in Channels |-> 0]
    /\ buffer' = [c \in Channels |-> <<>>]
    /\ senders' = [c \in Channels |-> <<>>]
    /\ receivers' = [c \in Channels |-> <<>>]
    /\ got' = [t \in Tasks |-> Null]

Calls ==
    \/ /\ \/ Spawn \/ RefusedCall \/ Suspend \/ Sleep \/ FinishScope
          \/ \E t \in Tasks : Resume(t) \/ Join(t) \/ JoinEnded(t) \/ JoinWaiting(t)
       /\ UNCHANGED channelVars
    \/ CreateChannel
    \/ TaskEnds
    \/ NewScope
    \/ \E c \in Channels : Receive(c)
    \/ \E c \in Channels, v \in Values : Send(c, v)

Drive ==
    \/ /\ \/ JoinResume \/ JoinWait \/ JoinResult \/ JoinTwice
          \/ DrainDue \/ ExpireTimer \/ PopReady
          \/ SleepUntilDeadline \/ ReportDeadlock
       /\ UNCHANGED channelVars
    \/ TimersDone
    \/ NothingReady

Next == Calls \/ Drive

Spec == Init /\ [][Next]_vars

-----------------------------------------------------------------------------

SendersOf(c) == [i \in DOMAIN senders[c] |-> senders[c][i].task]

(***************************************************************************)
(* A waiting task is registered exactly once, where its wait reason says,  *)
(* and every timer, sender and receiver entry belongs to a task that still *)
(* waits for it; so no wake ever meets "inconsistent readiness state".     *)
(***************************************************************************)
WaitersRegistered ==
    /\ error # "inconsistent"
    /\ pc # "ended" =>
        \A t \in Tasks :
            /\ (status[t] = "Waiting") = (wait[t] # NoWait)
            /\ Positions(t, timers) + Positions(t, expired) = IF wait[t] = Timer THEN 1 ELSE 0
            /\ \A c \in Channels :
                /\ Positions(t, SendersOf(c)) = IF wait[t] = <<"send", c>> THEN 1 ELSE 0
                /\ Positions(t, receivers[c]) = IF wait[t] = <<"receive", c>> THEN 1 ELSE 0

(***************************************************************************)
(* join reports a deadlock only when no task of the scope can go on: none  *)
(* is queued, none sleeps, and every waiting task's channel is really full *)
(* or really empty with nobody at the other end; a task that has itself    *)
(* called join ends with the report.                                       *)
(***************************************************************************)
DeadlockIsReal ==
    error = "deadlock" /\ pc = "fatal" =>
        \A t \in Tasks :
            /\ status[t] \notin {"Created", "Ready", "Running"}
            /\ status[t] = "Waiting" =>
                \E c \in Channels :
                    \/ wait[t] = <<"send", c>> /\ Len(buffer[c]) = capacity[c] /\ receivers[c] = <<>>
                    \/ wait[t] = <<"receive", c>> /\ buffer[c] = <<>> /\ senders[c] = <<>>

(***************************************************************************)
(* When the scope has ended no task is live, waiting or still to start,    *)
(* all stacks are back in the pool, and a failure nobody joined is raised: *)
(* it stays in the table only behind an exception of the root or behind    *)
(* the failure of a task spawned before.                                   *)
(***************************************************************************)
ScopeEndsClean ==
    pc = "ended" =>
        /\ \A t \in Tasks : status[t] \notin Live \cup {"Created"} /\ wait[t] = NoWait
        /\ stacks = {} /\ idle = created
        /\ \A t \in Tasks : status[t] = "Failed" => exception \in (1..(t - 1)) \cup {RootException}

\* What the first channel holds, the values of its blocked senders included, and
\* the tasks it makes wait.
Held(c) == [i \in DOMAIN senders[c] |-> senders[c][i].value]
QueueItems == buffer[1] \o Held(1)
StoppedTasks == {t \in Tasks : wait[t] \in {<<"send", 1>>, <<"receive", 1>>}}

Fifo == INSTANCE BoundedFifo WITH
    Users <- Tasks,
    Nothing <- Null,
    capacity <- capacity[1],
    items <- QueueItems,
    writers <- SendersOf(1),
    readers <- receivers[1],
    stopped <- StoppedTasks

(***************************************************************************)
(* A channel with its blocked senders is one bounded FIFO queue: the move  *)
(* of a sender's value into the buffer, the direct handover to a receiver  *)
(* and the waking of the task at the other end together are one step of    *)
(* the abstract queue, and the tasks that wait are the stopped users.      *)
(***************************************************************************)
ImplementsFifo == Fifo!Spec
=============================================================================
