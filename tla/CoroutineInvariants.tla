------------------------- MODULE CoroutineInvariants -------------------------
(***************************************************************************)
(* The inductive invariants of a coroutine scope: QueueInv, for the ready  *)
(* queue, and ScopeInv, for what block_task, wake_task, the channels and   *)
(* the stack pool keep in step with it.                                    *)
(***************************************************************************)
EXTENDS CoroutineChannels, Listing

Statuses == {"None", "Created", "Ready", "Running", "Suspended", "Waiting",
             "Completed", "Failed", "Joined", "Cancelled"}

Typed ==
    /\ status \in [Tasks -> Statuses]
    /\ timers \in Seq(Tasks) /\ expired \in Seq(Tasks)
    /\ senders \in [Channels -> Seq([task : Tasks, value : Values])]
    /\ receivers \in [Channels -> Seq(Tasks)]
    /\ joining \in Tasks \cup {NoTask}

(* A join that a task has called ends with the one task it popped missing. *)
Nested == pc = "fatal" /\ error = "nested"

(* The running task keeps `active` while a join it has called looks for a  *)
(* task to run.                                                            *)
QueueInv ==
    /\ Typed
    /\ ~Nested => Lists(ready, Tasks, Queued)
    /\ Nested => \E t \in Queued : Lists(ready, Tasks, Queued \ {t})
    /\ active # NoTask => active \in Tasks /\ status[active] = "Running"
    /\ pc = "run" => active # NoTask
    /\ pc \in {"php", "join", "fatal", "ended"} => active = NoTask
    /\ pc = "join" => joining \in Tasks

(* The tasks that wait for one thing, and what a task may wait for.        *)
Waiting(r) == {t \in Tasks : wait[t] = r}

Reasons == {Timer} \cup ({"send", "receive"} \X Channels)

Waits == wait \in [Tasks -> Reasons \cup {NoWait}]

(* A task is in one list while it waits: in one of the two lists of timers *)
(* (those drain_due has taken and the others), or in one list of one       *)
(* channel.                                                                *)
InTimers ==
    \E due \in SUBSET Waiting(Timer) :
        Lists(expired, Tasks, due) /\ Lists(timers, Tasks, Waiting(Timer) \ due)

InSenders(c) == Lists(SendersOf(c), Tasks, Waiting(<<"send", c>>))

InReceivers(c) == Lists(receivers[c], Tasks, Waiting(<<"receive", c>>))

Registered ==
    /\ \A t \in Tasks : status[t] = "Waiting" <=> wait[t] # NoWait
    /\ InTimers
    /\ \A c \in Channels : InSenders(c) /\ InReceivers(c)

(* A channel has blocked senders only when it is full, and blocked         *)
(* receivers only when it is empty, never both.                            *)
OneSided ==
    /\ capacity \in [Channels -> Nat]
    /\ buffer \in [Channels -> Seq(Values)]
    /\ \A c \in Channels :
        /\ Len(buffer[c]) <= capacity[c]
        /\ senders[c] # <<>> => capacity[c] > 0 /\ Len(buffer[c]) = capacity[c] /\ receivers[c] = <<>>
        /\ receivers[c] # <<>> => buffer[c] = <<>>

(* A task has stacks while it is live; every other stack is idle.          *)
Stacked ==
    /\ stacks = {t \in Tasks : status[t] \in Live}
    /\ idle \in Nat /\ created = idle + Cardinality(stacks)

(* Where the scope's thread is, and what it has found there.               *)
Driven ==
    /\ error \in {"none", "refused", "nested", "deadlock"}
    /\ error # "none" => pc \in {"fatal", "ended"}
    /\ pc # "expire" => expired = <<>>
    /\ pc = "sleep" => ready = <<>>
    /\ pc = "fatal" /\ error = "deadlock" => ready = <<>> /\ timers = <<>>
    /\ \A t \in Tasks : status[t] = "Running" => t = active

ScopeInv ==
    /\ QueueInv
    /\ Waits /\ OneSided /\ Driven
    /\ pc # "ended" => Registered /\ Stacked
    /\ ScopeEndsClean

(* The running task blocks, for reason r.                                  *)
Blocks(t, r) ==
    /\ status[t] = "Running" /\ status' = [status EXCEPT ![t] = "Waiting"]
    /\ wait' = [wait EXCEPT ![t] = r]

(* A step that leaves channel 1 and the tasks it stops alone.              *)
Untouched ==
    /\ capacity'[1] = capacity[1] /\ buffer'[1] = buffer[1]
    /\ senders'[1] = senders[1] /\ receivers'[1] = receivers[1]
    /\ StoppedTasks' = StoppedTasks
=============================================================================
