----------------------- MODULE CoroutineScopeProofs ------------------------
(***************************************************************************)
(* The steps of CoroutineChannels' scheduler, for any number of tasks and  *)
(* channels, any capacities and any values: they keep the ready queue      *)
(* exact (QueueInv), and what is true of who waits where, of the channels' *)
(* two ends, of the stacks and of the driving thread (ScopeInv).           *)
(* The facts that only one of the two inductions needs are the first named *)
(* steps of its proof.                                                     *)
(***************************************************************************)
EXTENDS CoroutineInvariants, ListLemmas

(* A leaf that names no prover is tried with SMT, with Zenon and, if the   *)
(* machine was too busy for either, with SMT once more.                    *)
USE SMTT(10), ZenonT(20), SMTT(30)

LEMMA InitQueueInv == Init => QueueInv
<1> SUFFICES ASSUME Init PROVE QueueInv
  OBVIOUS
<1>1. Typed
  BY DEF Init, InitTasks, InitChannels, Typed, Statuses
<1>2. Queued = {}
  BY DEF Init, InitTasks, Queued
<1>3. Lists(ready, Tasks, Queued)
  BY <1>2 DEF Init, InitTasks, Lists
<1> QED
  BY <1>1, <1>3 DEF QueueInv, Nested, Init, InitTasks

LEMMA NextQueueInv == QueueInv /\ [Next]_vars => QueueInv'
(* Removing a task from a queue that lists it at most once.                *)
<1>ListsRemove. ASSUME NEW q, NEW S, NEW T, Lists(q, S, T), NEW t \in S
                PROVE  Lists(RemoveReady(q, t), S, T \ {t})
  <2> USE <1>ListsRemove
  <2> DEFINE at == {i \in DOMAIN q : q[i] = t}
  <2>1. q \in Seq(S) /\ DOMAIN q = 1..Len(q) /\ Len(q) \in Nat
    BY DEF Lists
  <2>2. RemoveReady(q, t) = IF at = {} THEN q ELSE Cut(q, Min(at))
    BY DEF RemoveReady, Cut
  <2>3. CASE at = {}
    <3>1. T \ {t} = T
      BY <2>1, <2>3 DEF Lists
    <3> QED
      BY <2>2, <2>3, <3>1
  <2>4. CASE at # {}
    <3>1. PICK k \in 1..Len(q) : q[k] = t
      BY <2>1, <2>4
    <3>2. at = {k}
      BY <2>1, <3>1 DEF Lists
    <3>3. k \in Int
      BY <2>1
    <3> HIDE DEF at
    <3>4. Min({k}) = k
      BY <3>3 DEF Min
    <3>5. RemoveReady(q, t) = Cut(q, k)
      BY <2>2, <2>4, <3>2, <3>4
    <3> QED
      BY <3>1, <3>5, ListsCut
  <2> QED
    BY <2>3, <2>4
(* Until a scope ends, the queue lists the tasks that may run.             *)
<1>Exact. ASSUME QueueInv, pc # "fatal" PROVE Lists(ready, Tasks, Queued)
  BY <1>Exact DEF QueueInv, Nested
(* What becomes of the queue when the status of one task changes.          *)
<1>Enqueue. ASSUME QueueInv, pc # "fatal", NEW t \in Tasks, NEW s \in {"Created", "Ready"},
                   status[t] \notin {"Created", "Ready"},
                   status' = [status EXCEPT ![t] = s], ready' = Append(ready, t)
            PROVE  Lists(ready', Tasks, Queued')
  <2> USE <1>Enqueue
  <2>1. t \notin Queued
    BY DEF Queued
  <2>2. Queued' = Queued \cup {t}
    BY DEF QueueInv, Typed, Queued
  <2> QED
    BY <2>1, <2>2, <1>Exact, ListsAppend
<1>Neither. ASSUME QueueInv, pc # "fatal", NEW t \in Tasks, NEW s,
                   status[t] \notin {"Created", "Ready"}, s \notin {"Created", "Ready"},
                   status' = [status EXCEPT ![t] = s], UNCHANGED ready
            PROVE  Lists(ready', Tasks, Queued')
  <2> USE <1>Neither
  <2>1. Queued' = Queued
    BY DEF QueueInv, Typed, Queued
  <2> QED
    BY <2>1, <1>Exact
(* resume takes its task out of the queue, wherever it is.                 *)
<1>Dequeue. ASSUME QueueInv, pc # "fatal", NEW t \in Tasks, NEW queue, BeginResume(t, queue),
                   \/ queue = ready
                   \/ Lists(queue, Tasks, Queued \ {t}) /\ t \in Queued
            PROVE  /\ Lists(ready', Tasks, Queued') /\ status' \in [Tasks -> Statuses]
                   /\ pc' = "run" /\ active' = t /\ status'[t] = "Running"
  <2> USE <1>Dequeue
  <2>1. /\ status[t] \in Runnable /\ status' = [status EXCEPT ![t] = "Running"]
        /\ ready' = IF status[t] = "Suspended" THEN queue ELSE RemoveReady(queue, t)
        /\ active' = t /\ pc' = "run"
    BY DEF BeginResume
  <2>2. Queued' = Queued \ {t} /\ status' \in [Tasks -> Statuses] /\ status'[t] = "Running"
    BY <2>1 DEF QueueInv, Typed, Queued, Statuses
  <2>3. Lists(ready', Tasks, Queued \ {t})
    <3>1. CASE status[t] = "Suspended"
      <4>1. t \notin Queued
        BY <3>1 DEF Queued
      <4>2. Queued \ {t} = Queued /\ queue = ready
        BY <4>1
      <4> QED
        BY <2>1, <3>1, <4>2, <1>Exact
    <3>2. CASE status[t] # "Suspended"
      <4>1. CASE queue = ready
        BY <2>1, <3>2, <4>1, <1>Exact, <1>ListsRemove
      <4>2. CASE Lists(queue, Tasks, Queued \ {t})
        <5>1. (Queued \ {t}) \ {t} = Queued \ {t}
          OBVIOUS
        <5>2. Lists(RemoveReady(queue, t), Tasks, (Queued \ {t}) \ {t})
          BY <4>2, <1>ListsRemove
        <5> QED
          BY <2>1, <3>2, <5>1, <5>2
      <4> QED
        BY <4>1, <4>2
    <3> QED
      BY <3>1, <3>2
  <2> QED
    BY <2>1, <2>2, <2>3
<1>Resumed. ASSUME Typed', Lists(ready', Tasks, Queued'), NEW t \in Tasks,
                   pc' = "run", active' = t, status'[t] = "Running"
            PROVE  QueueInv'
  <2> USE <1>Resumed
  <2>1. t # NoTask
    BY DEF Tasks, NoTask
  <2> QED
    BY <2>1 DEF QueueInv, Nested
(* A step that only moves the scope's thread.                              *)
<1>MoveThread. ASSUME QueueInv, UNCHANGED <<status, ready, active, senders, receivers>>,
                      timers' \in Seq(Tasks), expired' \in Seq(Tasks), joining' \in Tasks \cup {NoTask},
                      pc # "fatal", pc' # "run", pc' = "fatal" => error' # "nested",
                      pc' \in {"php", "join", "fatal", "ended"} => active = NoTask,
                      pc' = "join" => joining' \in Tasks
               PROVE  QueueInv'
  <2> USE <1>MoveThread
  <2>1. Lists(ready', Tasks, Queued')
    BY <1>Exact DEF Queued
  <2>2. ~Nested'
    BY DEF Nested
  <2>3. active' # NoTask => active' \in Tasks /\ status'[active'] = "Running"
    BY DEF QueueInv
  <2>4. Typed'
    BY ZenonT(30) DEF QueueInv, Typed
  <2> QED
    BY <2>1, <2>2, <2>3, <2>4 DEF QueueInv
(* The running task leaves the thread, neither Created nor Ready.          *)
<1>Leave. ASSUME QueueInv, active # NoTask, NEW s \in Statuses \ {"Created", "Ready"},
                 status' = [status EXCEPT ![active] = s], active' = NoTask, pc' = Back \/ (pc' = "fatal" /\ error' # "nested"),
                 timers' \in Seq(Tasks), UNCHANGED <<ready, joining, expired>>,
                 senders' \in [Channels -> Seq([task : Tasks, value : Values])],
                 receivers' \in [Channels -> Seq(Tasks)]
          PROVE  QueueInv'
  <2> USE <1>Leave
  <2>1. active \in Tasks /\ status[active] = "Running" /\ pc # "fatal"
    BY DEF QueueInv
  <2>2. Lists(ready', Tasks, Queued')
    BY <2>1, <1>Neither, ZenonT(30)
  <2>3. Typed'
    BY <2>1, ZenonT(30) DEF QueueInv, Typed
  <2>4. pc' # "run" /\ (pc' = "join" => joining' \in Tasks)
    BY DEF Back, QueueInv, Typed
  <2>5. ~Nested'
    BY DEF Nested, Back
  <2> QED
    BY <2>2, <2>3, <2>4, <2>5 DEF QueueInv
<1>Run. ASSUME QueueInv, pc = "run" PROVE active # NoTask /\ active \in Tasks
  BY <1>Run DEF QueueInv
(* A task that waits becomes Ready.                                        *)
<1>Wake. ASSUME QueueInv, pc # "fatal",
                NEW t \in Tasks, NEW reason, CanWake(t, reason), WakeTask(t, reason),
                UNCHANGED <<timers, active, pc, joining>>, expired' \in Seq(Tasks),
                senders' \in [Channels -> Seq([task : Tasks, value : Values])],
                receivers' \in [Channels -> Seq(Tasks)]
         PROVE  QueueInv'
  <2> USE <1>Wake
  <2>1. status[t] = "Waiting" /\ status' = [status EXCEPT ![t] = "Ready"] /\ ready' = Append(ready, t)
    BY DEF CanWake, WakeTask
  <2>2. Lists(ready', Tasks, Queued')
    BY <2>1, <1>Enqueue, ZenonT(30)
  <2>3. Typed'
    BY <2>1, ZenonT(30) DEF QueueInv, Typed, Statuses
  <2>4. active' # NoTask => active' \in Tasks /\ status'[active'] = "Running"
    BY <2>1 DEF QueueInv, Typed
  <2>5. ~Nested'
    BY DEF Nested
  <2> QED
    BY <2>2, <2>3, <2>4, <2>5 DEF QueueInv
(* An error ends the scope, and the task that runs.                        *)
<1>FatalStep. ASSUME QueueInv, pc # "fatal", NEW reason, reason # "nested", Fatal(reason),
                     UNCHANGED <<ready, timers, joining, expired>>,
                     senders' \in [Channels -> Seq([task : Tasks, value : Values])],
                     receivers' \in [Channels -> Seq(Tasks)]
              PROVE  QueueInv'
  <2> USE <1>FatalStep
  <2>1. pc' = "fatal" /\ error' = reason /\ active' = NoTask
    BY DEF Fatal
  <2>2. timers' \in Seq(Tasks) /\ expired' \in Seq(Tasks) /\ joining' \in Tasks \cup {NoTask}
    BY DEF QueueInv, Typed
  <2>3. CASE active = NoTask
    <3>1. UNCHANGED status
      BY <2>3 DEF Fatal
    <3>2. Lists(ready', Tasks, Queued')
      BY <3>1, <1>Exact DEF Queued
    <3>3. Typed'
      BY <2>2, <3>1, ZenonT(30) DEF QueueInv, Typed
    <3>4. ~Nested'
      BY <2>1 DEF Nested
    <3> QED
      BY <2>1, <3>2, <3>3, <3>4 DEF QueueInv
  <2>4. CASE active # NoTask
    <3>1. status' = [status EXCEPT ![active] = "Cancelled"]
      BY <2>4 DEF Fatal
    <3> QED
      BY <2>1, <2>2, <2>4, <3>1, <1>Leave, ZenonT(30) DEF Statuses
  <2> QED
    BY <2>3, <2>4
(* The task a channel operation of the running task wakes.                 *)
<1>WakeOtherStep. ASSUME QueueInv, pc = "run", NEW t \in Tasks, NEW reason, WakeOther(t, reason),
                         senders' \in [Channels -> Seq([task : Tasks, value : Values])],
                         receivers' \in [Channels -> Seq(Tasks)]
                  PROVE  QueueInv'
  <2> USE <1>WakeOtherStep
  <2>1. CASE CanWake(t, reason)
    <3>1. WakeTask(t, reason) /\ UNCHANGED <<timers, active, pc, joining, expired>>
      BY <2>1 DEF WakeOther
    <3>2. expired' \in Seq(Tasks) /\ pc # "fatal"
      BY <3>1 DEF QueueInv, Typed
    <3> QED
      BY <2>1, <3>1, <3>2, <1>Wake, ZenonT(30)
  <2>2. CASE ~CanWake(t, reason)
    <3>1. Fatal("inconsistent") /\ UNCHANGED <<ready, timers, joining, expired>>
      BY <2>2 DEF WakeOther
    <3>2. pc # "fatal" /\ "inconsistent" # "nested"
      OBVIOUS
    <3> QED
      BY <3>1, <3>2, <1>FatalStep, ZenonT(30)
  <2> QED
    BY <2>1, <2>2
<1>BlockActiveStep. ASSUME QueueInv, pc = "run", NEW reason, BlockActive(reason),
                           senders' \in [Channels -> Seq([task : Tasks, value : Values])],
                           receivers' \in [Channels -> Seq(Tasks)]
                    PROVE  QueueInv'
  <2> USE <1>BlockActiveStep
  <2>1. /\ status' = [status EXCEPT ![active] = "Waiting"] /\ active' = NoTask /\ pc' = Back
        /\ UNCHANGED <<ready, timers, joining, expired>>
    BY DEF BlockActive, BlockTask
  <2>2. timers' \in Seq(Tasks)
    BY <2>1 DEF QueueInv, Typed
  <2> QED
    BY <2>1, <2>2, <1>Run, <1>Leave, ZenonT(30) DEF Statuses
<1>UntouchedTasks. ASSUME QueueInv, UNCHANGED taskVars,
                          senders' \in [Channels -> Seq([task : Tasks, value : Values])],
                          receivers' \in [Channels -> Seq(Tasks)]
                   PROVE  QueueInv'
  <2> USE <1>UntouchedTasks
  <2>1. UNCHANGED <<status, ready, timers, active, pc, joining, expired, error>>
    BY DEF taskVars
  <2>2. Queued' = Queued /\ Nested' = Nested
    BY <2>1 DEF Queued, Nested
  <2>3. Typed'
    BY <2>1, ZenonT(30) DEF QueueInv, Typed
  <2> QED
    BY <2>1, <2>2, <2>3, ZenonT(30) DEF QueueInv
<1>SendStep. ASSUME QueueInv, NEW c \in Channels, NEW v \in Values, Send(c, v)
             PROVE  QueueInv'
  <2> USE <1>SendStep
  <2>1. pc = "run" /\ active \in Tasks
    BY DEF Send, QueueInv
  <2>2. /\ senders \in [Channels -> Seq([task : Tasks, value : Values])]
        /\ receivers \in [Channels -> Seq(Tasks)]
    BY ZenonT(30) DEF QueueInv, Typed
  <2>3. CASE receivers[c] # <<>>
    <3>1. /\ receivers' = [receivers EXCEPT ![c] = Tail(receivers[c])] /\ UNCHANGED senders
          /\ WakeOther(Head(receivers[c]), <<"receive", c>>)
      BY <2>3 DEF Send
    <3>2. receivers[c] \in Seq(Tasks) /\ receivers[c] # <<>>
      BY <2>2, <2>3
    <3>3. Head(receivers[c]) \in Tasks /\ Tail(receivers[c]) \in Seq(Tasks)
      BY <3>2, SeqHeadTail
    <3>4. receivers' \in [Channels -> Seq(Tasks)]
      BY <2>2, <3>1, <3>3
    <3> QED
      BY <2>1, <2>2, <3>1, <3>3, <3>4, <1>WakeOtherStep, ZenonT(30)
  <2>4. CASE UNCHANGED <<taskVars, receivers, senders>>
    BY <2>2, <2>4, <1>UntouchedTasks, ZenonT(30)
  <2>5. CASE receivers[c] = <<>> /\ ~UNCHANGED <<taskVars, receivers, senders>>
    <3>1. /\ senders' = [senders EXCEPT ![c] = Append(senders[c], [task |-> active, value |-> v])]
          /\ BlockActive(<<"send", c>>) /\ UNCHANGED receivers
      BY <2>5, ZenonT(30) DEF Send
    <3>2. Append(senders[c], [task |-> active, value |-> v]) \in Seq([task : Tasks, value : Values])
      <4>1. [task |-> active, value |-> v] \in [task : Tasks, value : Values]
        BY <2>1
      <4> QED
        BY <2>2, <4>1, SeqAppend, ZenonT(30)
    <3>3. senders' \in [Channels -> Seq([task : Tasks, value : Values])]
      BY <2>2, <3>1, <3>2, ZenonT(30)
    <3> QED
      BY <2>1, <2>2, <3>1, <3>3, <1>BlockActiveStep, ZenonT(30)
  <2> QED
    BY <2>3, <2>4, <2>5
<1>ReceiveStep. ASSUME QueueInv, NEW c \in Channels, Receive(c)
                PROVE  QueueInv'
  <2> USE <1>ReceiveStep
  <2>1. pc = "run" /\ active \in Tasks
    BY DEF Receive, QueueInv
  <2>2. /\ senders \in [Channels -> Seq([task : Tasks, value : Values])]
        /\ receivers \in [Channels -> Seq(Tasks)]
    BY ZenonT(30) DEF QueueInv, Typed
  <2>3. CASE buffer[c] # <<>> /\ senders[c] = <<>>
    <3>1. UNCHANGED <<taskVars, receivers, senders>>
      BY <2>3, ZenonT(30) DEF Receive
    <3> QED
      BY <2>2, <3>1, <1>UntouchedTasks, ZenonT(30)
  <2>4. CASE buffer[c] # <<>> /\ senders[c] # <<>>
    <3>1. /\ senders' = [senders EXCEPT ![c] = Tail(senders[c])] /\ UNCHANGED receivers
          /\ WakeOther(Head(senders[c]).task, <<"send", c>>)
      BY <2>4 DEF Receive
    <3>2. senders[c] \in Seq([task : Tasks, value : Values]) /\ senders[c] # <<>>
      BY <2>2, <2>4, ZenonT(30)
    <3>3. /\ Head(senders[c]) \in [task : Tasks, value : Values]
          /\ Tail(senders[c]) \in Seq([task : Tasks, value : Values])
      BY <3>2, SeqHeadTail, ZenonT(30)
    <3>4. Head(senders[c]).task \in Tasks
      BY <3>3
    <3>5. senders' \in [Channels -> Seq([task : Tasks, value : Values])]
      BY <2>2, <3>1, <3>3, ZenonT(30)
    <3> QED
      BY <2>1, <2>2, <3>1, <3>4, <3>5, <1>WakeOtherStep, ZenonT(30)
  <2>5. CASE buffer[c] = <<>>
    <3>1. /\ receivers' = [receivers EXCEPT ![c] = Append(receivers[c], active)]
          /\ BlockActive(<<"receive", c>>) /\ UNCHANGED senders
      BY <2>5 DEF Receive
    <3>2. receivers' \in [Channels -> Seq(Tasks)]
      BY <2>1, <2>2, <3>1, SeqAppend
    <3> QED
      BY <2>1, <2>2, <3>1, <3>2, <1>BlockActiveStep, ZenonT(30)
  <2> QED
    BY <2>3, <2>4, <2>5
<1> SUFFICES ASSUME QueueInv, [Next]_vars PROVE QueueInv'
  OBVIOUS
<1> USE DEF NoTask
<1>1. /\ status \in [Tasks -> Statuses] /\ timers \in Seq(Tasks) /\ expired \in Seq(Tasks)
      /\ senders \in [Channels -> Seq([task : Tasks, value : Values])]
      /\ receivers \in [Channels -> Seq(Tasks)]
      /\ joining \in Tasks \cup {NoTask}
  BY ZenonT(30) DEF QueueInv, Typed
<1>2. UNCHANGED channelVars => UNCHANGED <<senders, receivers>>
  BY DEF channelVars
<1>3. CASE UNCHANGED vars
  <2>1. UNCHANGED <<taskVars, senders, receivers>>
    BY <1>3, <1>2 DEF vars
  <2> QED
    BY <1>1, <2>1, <1>UntouchedTasks, ZenonT(30)
<1>4. CASE Spawn /\ UNCHANGED channelVars
  <2>1. PICK t \in Tasks : /\ status[t] = "None" /\ status' = [status EXCEPT ![t] = "Created"]
                           /\ ready' = Append(ready, t)
                           /\ UNCHANGED <<timers, active, pc, joining, expired>>
                           /\ pc \in {"php", "run"}
    BY <1>4, ZenonT(30) DEF Spawn, Spawned, Calling
  <2>2. Lists(ready', Tasks, Queued')
    BY <2>1, <1>Enqueue, ZenonT(30)
  <2>3. Typed'
    BY <1>1, <1>2, <1>4, <2>1, ZenonT(30) DEF Typed, Statuses
  <2>4. active' # NoTask => active' \in Tasks /\ status'[active'] = "Running"
    BY <1>1, <2>1 DEF QueueInv
  <2> QED
    BY <2>1, <2>2, <2>3, <2>4 DEF QueueInv, Nested
<1>5. CASE RefusedCall /\ UNCHANGED channelVars
  <2>1. pc # "fatal" /\ Fatal("refused") /\ UNCHANGED <<ready, timers, joining, expired>>
    BY <1>5 DEF RefusedCall, Calling
  <2>2. "refused" # "nested"
    OBVIOUS
  <2> QED
    BY <1>1, <1>2, <1>5, <2>1, <2>2, <1>FatalStep, ZenonT(30)
<1>6. CASE Suspend /\ UNCHANGED channelVars
  <2>1. /\ pc = "run" /\ status' = [status EXCEPT ![active] = "Suspended"] /\ active' = NoTask
        /\ pc' = Back /\ UNCHANGED <<ready, timers, joining, expired>>
    BY <1>6 DEF Suspend
  <2> QED
    BY <1>1, <1>2, <1>6, <2>1, <1>Run, <1>Leave, ZenonT(30) DEF Statuses
<1>7. CASE Sleep /\ UNCHANGED channelVars
  <2>1. /\ pc = "run" /\ status' = [status EXCEPT ![active] = "Waiting"] /\ active' = NoTask
        /\ pc' = Back /\ UNCHANGED <<ready, joining, expired>>
    BY <1>7 DEF Sleep, BlockTask
  <2>2. active \in Tasks
    BY <2>1 DEF QueueInv
  <2>3. PICK i \in 1..(Len(timers) + 1) :
                timers' = SubSeq(timers, 1, i - 1) \o <<active>> \o SubSeq(timers, i, Len(timers))
    BY ZenonT(20), <1>7 DEF Sleep, ScheduleTimer
  <2>4. timers' \in Seq(Tasks)
    <3>1. SubSeq(timers, 1, i - 1) \in Seq(Tasks) /\ SubSeq(timers, i, Len(timers)) \in Seq(Tasks)
      BY <1>1
    <3>2. <<active>> \in Seq(Tasks)
      BY <2>2
    <3> QED
      BY <2>3, <3>1, <3>2, SeqConcat
  <2> QED
    BY <1>1, <1>2, <1>7, <2>1, <2>4, <1>Run, <1>Leave, ZenonT(30) DEF Statuses
<1>8. CASE FinishScope /\ UNCHANGED channelVars
  <2>1. PICK own : FinishTasks(own)
    BY <1>8 DEF FinishScope
  <2>2. /\ ready' = <<>> /\ timers' = <<>> /\ expired' = <<>> /\ joining' = NoTask
        /\ pc' = "ended" /\ UNCHANGED active
    BY <2>1 DEF FinishTasks
  <2>3. \A t \in Tasks : status'[t] \in Statuses \ {"Created", "Ready"}
    BY <1>1, <2>1 DEF FinishTasks, Runnable, Statuses
  <2>4. status' \in [Tasks -> Statuses]
    BY <2>1, <2>3 DEF FinishTasks
  <2>5. Queued' = {}
    BY <2>3 DEF Queued
  <2>6. Lists(ready', Tasks, Queued')
    BY <2>2, <2>5 DEF Lists
  <2>7. Typed'
    <3>1. timers' \in Seq(Tasks) /\ expired' \in Seq(Tasks)
      BY <2>2, SeqEmpty
    <3> QED
      BY <1>1, <1>2, <1>8, <2>2, <2>4, <3>1, ZenonT(30) DEF Typed
  <2>8. active = NoTask
    BY <1>8 DEF FinishScope, QueueInv
  <2> QED
    BY <2>2, <2>6, <2>7, <2>8 DEF QueueInv, Nested
<1>9. ASSUME NEW t \in Tasks, Resume(t), UNCHANGED channelVars PROVE QueueInv'
  <2>1. pc = "php" /\ BeginResume(t, ready) /\ UNCHANGED <<timers, joining, expired>>
    BY <1>9 DEF Resume
  <2>2. /\ Lists(ready', Tasks, Queued') /\ status' \in [Tasks -> Statuses]
        /\ pc' = "run" /\ active' = t /\ status'[t] = "Running"
    BY <2>1, <1>Dequeue, ZenonT(30)
  <2>3. Typed'
    BY <1>1, <1>2, <1>9, <2>1, <2>2, ZenonT(30) DEF Typed
  <2> QED
    BY <2>2, <2>3, <1>Resumed
<1>10. ASSUME NEW t \in Tasks, Join(t), UNCHANGED channelVars PROVE QueueInv'
  <2>1. /\ pc = "php" /\ pc' = "join" /\ joining' = t
        /\ UNCHANGED <<status, ready, timers, active, expired>>
    BY <1>10 DEF Join
  <2> QED
    BY <1>1, <1>2, <1>10, <2>1, <1>MoveThread DEF QueueInv
<1>24. ASSUME NEW t \in Tasks, JoinWaiting(t), UNCHANGED channelVars PROVE QueueInv'
  <2>1. /\ pc = "run" /\ pc' = "timers"
        /\ UNCHANGED <<status, ready, timers, active, joining, expired>>
    BY <1>24 DEF JoinWaiting
  <2> QED
    BY <1>1, <1>2, <1>24, <2>1, <1>MoveThread
<1>11. ASSUME NEW t \in Tasks, JoinEnded(t), UNCHANGED channelVars PROVE QueueInv'
  <2>1. /\ pc = "run" /\ status[t] \in {"Completed", "Failed"}
        /\ status' = [status EXCEPT ![t] = "Joined"]
        /\ UNCHANGED <<ready, timers, active, pc, joining, expired>>
    BY <1>11 DEF JoinEnded
  <2>2. Lists(ready', Tasks, Queued')
    BY <2>1, <1>Neither, ZenonT(30)
  <2>3. Typed'
    BY <1>1, <1>2, <1>11, <2>1, ZenonT(30) DEF Typed, Statuses
  <2>4. active' \in Tasks /\ status'[active'] = "Running"
    BY <1>1, <2>1 DEF QueueInv
  <2> QED
    BY <2>1, <2>2, <2>3, <2>4 DEF QueueInv, Nested
<1>12. CASE CreateChannel
  <2>1. UNCHANGED <<taskVars, senders, receivers>>
    BY <1>12, ZenonT(30) DEF CreateChannel
  <2> QED
    BY <1>1, <2>1, <1>UntouchedTasks, ZenonT(30)
<1>13. CASE TaskEnds
  <2>1. /\ pc = "run" /\ active' = NoTask /\ pc' = Back
        /\ UNCHANGED <<ready, timers, joining, expired, senders, receivers>>
    BY <1>13 DEF TaskEnds, Return
  <2>2. PICK end \in {"Completed", "Failed"} : status' = [status EXCEPT ![active] = end]
    BY <1>13, ZenonT(30) DEF TaskEnds, Return
  <2> QED
    BY <1>1, <2>1, <2>2, <1>Run, <1>Leave, ZenonT(30) DEF Statuses
<1>14. CASE NewScope
  <2>1. /\ status' = [t \in Tasks |-> "None"] /\ ready' = <<>> /\ timers' = <<>> /\ expired' = <<>>
        /\ joining' = NoTask /\ active' = NoTask /\ pc' = "php"
        /\ senders' = [c \in Channels |-> <<>>] /\ receivers' = [c \in Channels |-> <<>>]
    BY <1>14 DEF NewScope, NewTasks
  <2>2. Typed'
    BY <2>1 DEF Typed, Statuses
  <2>3. Queued' = {}
    BY <2>1 DEF Queued
  <2>4. Lists(ready', Tasks, Queued')
    BY <2>1, <2>3 DEF Lists
  <2> QED
    BY <2>1, <2>2, <2>4 DEF QueueInv, Nested
<1>15. ASSUME NEW c \in Channels, NEW v \in Values, Send(c, v) PROVE QueueInv'
  BY <1>15, <1>SendStep
<1>16. ASSUME NEW c \in Channels, Receive(c) PROVE QueueInv'
  BY <1>16, <1>ReceiveStep
<1>17. CASE JoinResume /\ UNCHANGED channelVars
  <2>1. pc = "join" /\ BeginResume(joining, ready) /\ UNCHANGED <<timers, joining, expired>>
    BY <1>17 DEF JoinResume
  <2>2. joining \in Tasks
    BY <2>1 DEF QueueInv
  <2>3. /\ Lists(ready', Tasks, Queued') /\ status' \in [Tasks -> Statuses]
        /\ pc' = "run" /\ active' = joining /\ status'[joining] = "Running"
    BY <2>1, <2>2, <1>Dequeue, ZenonT(30)
  <2>4. Typed'
    BY <1>1, <1>2, <1>17, <2>1, <2>3, ZenonT(30) DEF Typed
  <2> QED
    BY <2>2, <2>3, <2>4, <1>Resumed
<1>18. CASE JoinResult /\ UNCHANGED channelVars
  <2>1. /\ pc = "join" /\ status[joining] \in {"Completed", "Failed"}
        /\ status' = [status EXCEPT ![joining] = "Joined"]
        /\ joining' = NoTask /\ pc' = "php" /\ UNCHANGED <<ready, timers, active, expired>>
    BY <1>18 DEF JoinResult
  <2>2. joining \in Tasks
    BY <2>1 DEF QueueInv
  <2>3. Lists(ready', Tasks, Queued')
    BY <2>1, <2>2, <1>Neither, ZenonT(30)
  <2>4. Typed'
    BY <1>1, <1>2, <1>18, <2>1, ZenonT(30) DEF Typed, Statuses
  <2> QED
    BY <2>1, <2>3, <2>4 DEF QueueInv, Nested
<1>19. CASE (JoinWait \/ SleepUntilDeadline) /\ UNCHANGED channelVars
  <2>1. /\ pc \in {"join", "sleep"} /\ pc' = "timers"
        /\ UNCHANGED <<status, ready, timers, active, joining, expired>>
    BY <1>19 DEF JoinWait, SleepUntilDeadline
  <2> QED
    BY <1>1, <1>2, <1>19, <2>1, <1>MoveThread
<1>25. CASE (JoinTwice \/ ReportDeadlock) /\ UNCHANGED channelVars
  <2>1. PICK reason \in {"refused", "deadlock"} : Fatal(reason)
    BY <1>25, ZenonT(30) DEF JoinTwice, ReportDeadlock
  <2>2. pc # "fatal" /\ UNCHANGED <<ready, timers, joining, expired>>
    BY <1>25 DEF JoinTwice, ReportDeadlock
  <2>3. reason # "nested"
    OBVIOUS
  <2> QED
    BY <1>1, <1>2, <1>25, <2>1, <2>2, <2>3, <1>FatalStep, ZenonT(30)
<1>20. CASE DrainDue /\ UNCHANGED channelVars
  <2>1. /\ pc = "timers" /\ pc' = "expire" /\ UNCHANGED <<status, ready, active, joining>>
    BY <1>20 DEF DrainDue
  <2>2. PICK n \in 0..Len(timers) : /\ expired' = SubSeq(timers, 1, n)
                                    /\ timers' = SubSeq(timers, n + 1, Len(timers))
    BY <1>20 DEF DrainDue
  <2>3. expired' \in Seq(Tasks) /\ timers' \in Seq(Tasks)
    BY <1>1, <2>2
  <2> QED
    BY <1>1, <1>2, <1>20, <2>1, <2>3, <1>MoveThread
<1>21. CASE ExpireTimer /\ UNCHANGED channelVars
  <2>1. /\ pc = "expire" /\ expired # <<>> /\ expired' = Tail(expired)
        /\ UNCHANGED <<timers, active, pc, joining>>
    BY <1>21 DEF ExpireTimer
  <2>2. Head(expired) \in Tasks /\ expired' \in Seq(Tasks)
    BY <1>1, <2>1, SeqHeadTail
  <2>3. CASE CanWake(Head(expired), Timer)
    <3>1. WakeTask(Head(expired), Timer)
      BY <1>21, <2>3 DEF ExpireTimer
    <3> QED
      BY <1>1, <1>2, <1>21, <2>1, <2>2, <2>3, <3>1, <1>Wake, ZenonT(30)
  <2>4. CASE ~CanWake(Head(expired), Timer)
    <3>1. UNCHANGED <<status, ready>>
      BY <1>21, <2>4 DEF ExpireTimer
    <3> QED
      BY <1>1, <1>2, <1>21, <2>1, <2>2, <3>1, <1>MoveThread
  <2> QED
    BY <2>3, <2>4
<1>22. CASE PopReady /\ UNCHANGED channelVars
  <2>1. pc = "pop" /\ ready # <<>> /\ UNCHANGED <<timers, joining, expired>>
    BY <1>22 DEF PopReady
  <2>2. /\ Head(ready) \in Tasks /\ Head(ready) \in Queued
        /\ Lists(Tail(ready), Tasks, Queued \ {Head(ready)})
    BY <2>1, <1>Exact, ListsTail
  <2>3. status[Head(ready)] \in {"Created", "Ready"}
    BY <2>2 DEF Queued
  <2>4. CASE active = NoTask
    <3>1. BeginResume(Head(ready), Tail(ready))
      BY <1>22, <2>3, <2>4 DEF PopReady
    <3>2. pc # "fatal"
      BY <2>1
    <3>3. /\ Lists(ready', Tasks, Queued') /\ status' \in [Tasks -> Statuses]
          /\ pc' = "run" /\ active' = Head(ready) /\ status'[Head(ready)] = "Running"
      BY <2>2, <3>1, <3>2, <1>Dequeue
    <3>4. Typed'
      BY <1>1, <1>2, <1>22, <2>1, <3>3, ZenonT(30) DEF Typed
    <3> QED
      BY <2>2, <3>3, <3>4, <1>Resumed
  <2>5. CASE active # NoTask
    <3>1. /\ status' = [status EXCEPT ![active] = "Cancelled"] /\ active' = NoTask
          /\ pc' = "fatal" /\ error' = "nested" /\ ready' = Tail(ready)
      BY <1>22, <2>3, <2>5 DEF PopReady, Fatal
    <3>2. active \in Tasks /\ status[active] = "Running"
      BY <2>5 DEF QueueInv
    <3>3. Queued' = Queued
      BY <1>1, <3>1, <3>2 DEF Queued
    <3>4. Nested'
      BY <3>1 DEF Nested
    <3>5. Typed'
      BY <1>1, <1>2, <1>22, <2>1, <3>1, <3>2, ZenonT(30) DEF Typed, Statuses
    <3>6. \E t \in Queued' : Lists(ready', Tasks, Queued' \ {t})
      BY <2>2, <3>1, <3>3, ZenonT(30)
    <3> QED
      BY <3>1, <3>4, <3>5, <3>6 DEF QueueInv
  <2> QED
    BY <2>4, <2>5
<1>23. CASE TimersDone \/ NothingReady
  <2>1. /\ pc \in {"expire", "pop"} /\ pc' \in {"pop", "sleep"}
        /\ UNCHANGED <<status, ready, timers, active, joining, expired, channelVars>>
    BY <1>23 DEF TimersDone, NothingReady
  <2> QED
    BY <1>1, <1>2, <2>1, <1>MoveThread
<1> QED
  BY <1>3, <1>4, <1>5, <1>6, <1>7, <1>8, <1>9, <1>10, <1>11, <1>12, <1>13, <1>14, <1>15, <1>16,
     <1>17, <1>18, <1>19, <1>20, <1>21, <1>22, <1>23, <1>24, <1>25 DEF Next, Calls, Drive

(* The tasks of the blocked senders, when one blocks and when one goes on. *)
LEMMA SendersAppend ==
    ASSUME Typed, NEW c \in Channels, NEW t \in Tasks, NEW v \in Values,
           senders' = [senders EXCEPT ![c] = Append(senders[c], [task |-> t, value |-> v])]
    PROVE  SendersOf(c)' = Append(SendersOf(c), t)
<1> DEFINE Entry == [task : Tasks, value : Values]
           e == [task |-> t, value |-> v]
           s == senders[c]
<1>1. s \in Seq(Entry) /\ e \in Entry /\ e.task = t
  BY ZenonT(20) DEF Typed
<1>2. senders'[c] = Append(s, e)
  BY DEF Typed
<1>3. SendersOf(c) = [i \in DOMAIN s |-> s[i].task]
  BY DEF SendersOf
<1>4. SendersOf(c)' = [i \in DOMAIN Append(s, e) |-> Append(s, e)[i].task]
  BY <1>2 DEF SendersOf
<1> HIDE DEF Entry, e, s
<1>5. /\ Len(s) \in Nat /\ DOMAIN s = 1..Len(s) /\ DOMAIN Append(s, e) = 1..(Len(s) + 1)
      /\ \A i \in 1..Len(s) : Append(s, e)[i] = s[i]
      /\ Append(s, e)[Len(s) + 1] = e
  BY <1>1
<1>6. \A i \in 1..Len(s) : s[i].task \in Tasks
  <2>1. \A i \in 1..Len(s) : s[i] \in Entry
    BY <1>1
  <2>2. \A x \in Entry : x.task \in Tasks
    BY DEF Entry
  <2> QED
    BY <2>1, <2>2
<1>7. SendersOf(c) \in Seq(Tasks) /\ Len(SendersOf(c)) = Len(s)
  BY <1>3, <1>5, <1>6
<1>8. SendersOf(c)' \in Seq(Tasks) /\ Len(SendersOf(c)') = Len(s) + 1
  BY <1>1, <1>4, <1>5, <1>6
<1>9. /\ Append(SendersOf(c), t) \in Seq(Tasks) /\ Len(Append(SendersOf(c), t)) = Len(s) + 1
      /\ \A i \in 1..Len(s) : Append(SendersOf(c), t)[i] = SendersOf(c)[i]
      /\ Append(SendersOf(c), t)[Len(s) + 1] = t
  BY <1>7
<1>10. \A i \in 1..(Len(s) + 1) : SendersOf(c)'[i] = Append(SendersOf(c), t)[i]
  BY <1>1, <1>3, <1>4, <1>5, <1>9
<1> QED
  BY <1>8, <1>9, <1>10, SeqSame

LEMMA SendersTail ==
    ASSUME Typed, NEW c \in Channels, senders[c] # <<>>,
           senders' = [senders EXCEPT ![c] = Tail(senders[c])]
    PROVE  /\ SendersOf(c)' = Tail(SendersOf(c))
           /\ SendersOf(c) # <<>> /\ Head(SendersOf(c)) = Head(senders[c]).task
<1> DEFINE Entry == [task : Tasks, value : Values]
           s == senders[c]
<1>1. s \in Seq(Entry) /\ s # <<>>
  BY ZenonT(20) DEF Typed
<1>2. senders'[c] = Tail(s)
  BY DEF Typed
<1>3. SendersOf(c) = [i \in DOMAIN s |-> s[i].task]
  BY DEF SendersOf
<1> DEFINE w == senders'[c]
<1>4. SendersOf(c)' = [i \in DOMAIN w |-> w[i].task]
  BY DEF SendersOf
<1> HIDE DEF Entry, s, w
<1>5. /\ Len(s) \in Nat /\ Len(s) > 0 /\ DOMAIN s = 1..Len(s) /\ DOMAIN w = 1..(Len(s) - 1)
      /\ \A i \in 1..(Len(s) - 1) : w[i] = s[i + 1]
      /\ Head(s) = s[1]
  <2>1. w = Tail(s)
    BY <1>2 DEF w
  <2> QED
    BY <1>1, <2>1
<1>6. \A i \in 1..Len(s) : s[i].task \in Tasks
  <2>1. \A i \in 1..Len(s) : s[i] \in Entry
    BY <1>1
  <2>2. \A x \in Entry : x.task \in Tasks
    BY DEF Entry
  <2> QED
    BY <2>1, <2>2
<1>7. SendersOf(c) \in Seq(Tasks) /\ Len(SendersOf(c)) = Len(s) /\ SendersOf(c)[1] = s[1].task
  BY <1>3, <1>5, <1>6
<1>8. SendersOf(c)' \in Seq(Tasks) /\ Len(SendersOf(c)') = Len(s) - 1
  BY <1>1, <1>4, <1>5, <1>6
<1>9. /\ SendersOf(c) # <<>> /\ Head(SendersOf(c)) = SendersOf(c)[1]
      /\ Tail(SendersOf(c)) \in Seq(Tasks) /\ Len(Tail(SendersOf(c))) = Len(s) - 1
      /\ \A i \in 1..(Len(s) - 1) : Tail(SendersOf(c))[i] = SendersOf(c)[i + 1]
  BY <1>5, <1>7
<1>10. \A i \in 1..(Len(s) - 1) : SendersOf(c)'[i] = Tail(SendersOf(c))[i]
  BY <1>1, <1>3, <1>4, <1>5, <1>9
<1>11. SendersOf(c)' = Tail(SendersOf(c))
  BY <1>8, <1>9, <1>10, SeqSame
<1> QED
  BY <1>5, <1>7, <1>9, <1>11 DEF s

(* What a task waits for changes: only the list of that reason is touched. *)
LEMMA NotAReason ==
    /\ NoWait \notin Reasons /\ Timer \in Reasons
    /\ \A c \in Channels : <<"send", c>> \in Reasons /\ <<"receive", c>> \in Reasons
    /\ \A c \in Channels : Timer # <<"send", c>> /\ Timer # <<"receive", c>>
    /\ \A c, d \in Channels : /\ <<"send", c>> # <<"receive", d>>
                              /\ <<"send", c>> = <<"send", d>> => c = d
                              /\ <<"receive", c>> = <<"receive", d>> => c = d
  BY DEF NoWait, Timer, Reasons, Channels

LEMMA NewWaiter ==
    ASSUME wait \in [Tasks -> Reasons \cup {NoWait}], NEW t \in Tasks, NEW r \in Reasons,
           wait[t] = NoWait, wait' = [wait EXCEPT ![t] = r]
    PROVE  /\ wait' \in [Tasks -> Reasons \cup {NoWait}]
           /\ t \notin Waiting(r) /\ Waiting(r)' = Waiting(r) \cup {t}
           /\ \A s \in Reasons \ {r} : Waiting(s)' = Waiting(s)
  BY NotAReason DEF Waiting

LEMMA GoneWaiter ==
    ASSUME wait \in [Tasks -> Reasons \cup {NoWait}], NEW t \in Tasks, NEW r \in Reasons,
           wait[t] = r, wait' = [wait EXCEPT ![t] = NoWait]
    PROVE  /\ wait' \in [Tasks -> Reasons \cup {NoWait}]
           /\ Waiting(r)' = Waiting(r) \ {t}
           /\ \A s \in Reasons \ {r} : Waiting(s)' = Waiting(s)
  BY NotAReason DEF Waiting

LEMMA BlockFacts ==
    ASSUME Typed, Waits, Registered, NEW t \in Tasks, NEW r \in Reasons, Blocks(t, r)
    PROVE  /\ Waits' /\ t \notin Waiting(r) /\ Waiting(r)' = Waiting(r) \cup {t}
           /\ \A s \in Reasons \ {r} : Waiting(s)' = Waiting(s)
           /\ \A u \in Tasks : status'[u] = "Waiting" <=> wait'[u] # NoWait
<1>1. wait[t] = NoWait
  BY DEF Registered, Blocks
<1>2. /\ Waits' /\ t \notin Waiting(r) /\ Waiting(r)' = Waiting(r) \cup {t}
      /\ \A s \in Reasons \ {r} : Waiting(s)' = Waiting(s)
  BY <1>1, NewWaiter, Zenon DEF Waits, Blocks
<1>3. \A u \in Tasks : status'[u] = "Waiting" <=> wait'[u] # NoWait
  BY NotAReason DEF Typed, Waits, Registered, Blocks
<1> QED
  BY <1>2, <1>3, Zenon

(* The head of the list of reason r is a task that wakes up.               *)
LEMMA WakeFacts ==
    ASSUME Typed, Waits, Registered, NEW t \in Tasks, NEW r \in Reasons, t \in Waiting(r)
    PROVE  /\ CanWake(t, r)
           /\ WakeTask(t, r) =>
                /\ Waits' /\ Waiting(r)' = Waiting(r) \ {t}
                /\ \A s \in Reasons \ {r} : Waiting(s)' = Waiting(s)
                /\ \A u \in Tasks : status'[u] = "Waiting" <=> wait'[u] # NoWait
<1>1. wait[t] = r
  BY DEF Waiting
<1>2. CanWake(t, r)
  BY <1>1, NotAReason DEF Registered, CanWake
<1>3. ASSUME WakeTask(t, r)
      PROVE  /\ Waits' /\ Waiting(r)' = Waiting(r) \ {t}
             /\ \A s \in Reasons \ {r} : Waiting(s)' = Waiting(s)
  BY <1>1, <1>3, GoneWaiter, Zenon DEF Waits, WakeTask
<1>4. ASSUME WakeTask(t, r)
      PROVE  \A u \in Tasks : status'[u] = "Waiting" <=> wait'[u] # NoWait
  BY <1>4 DEF Typed, Waits, Registered, WakeTask
<1> QED
  BY <1>2, <1>3, <1>4, Zenon

LEMMA InitScopeInv == Counting /\ Init => ScopeInv
<1> SUFFICES ASSUME Counting, Init PROVE ScopeInv
  OBVIOUS
<1>1. QueueInv
  BY InitQueueInv
<1>2. /\ status = [t \in Tasks |-> "None"] /\ wait = [t \in Tasks |-> NoWait]
      /\ ready = <<>> /\ timers = <<>> /\ expired = <<>>
      /\ stacks = {} /\ idle = 0 /\ created = 0 /\ pc = "php" /\ error = "none"
      /\ capacity = [c \in Channels |-> 0] /\ buffer = [c \in Channels |-> <<>>]
      /\ senders = [c \in Channels |-> <<>>] /\ receivers = [c \in Channels |-> <<>>]
  BY DEF Init, InitTasks, InitChannels
<1>3. Waits /\ Driven
  BY <1>2 DEF Waits, Driven
<1>4. OneSided
  BY <1>2 DEF OneSided
<1>5. Registered
  <2>1. \A r \in Reasons : Waiting(r) = {}
    BY <1>2, NotAReason DEF Waiting
  <2>2. Lists(<<>>, Tasks, {})
    BY DEF Lists
  <2>3. InTimers
    BY ZenonT(20), <1>2, <2>1, <2>2, NotAReason DEF InTimers
  <2>4. \A c \in Channels : senders[c] = <<>> /\ receivers[c] = <<>>
    BY <1>2
  <2>5. \A c \in Channels : SendersOf(c) = <<>>
    BY <2>4 DEF SendersOf
  <2>6. \A c \in Channels : InSenders(c) /\ InReceivers(c)
    BY ZenonT(20), <2>1, <2>2, <2>4, <2>5, NotAReason DEF InSenders, InReceivers
  <2> QED
    BY <1>2, <2>3, <2>6 DEF Registered
<1>6. Stacked
  BY <1>2, CountEmpty DEF Stacked, Live
<1> QED
  BY <1>1, <1>2, <1>3, <1>4, <1>5, <1>6 DEF ScopeInv, ScopeEndsClean

LEMMA NextScopeInv == Counting /\ ScopeInv /\ [Next]_vars => ScopeInv'
(* A step that blocks and wakes nobody.                                    *)
<1>RegisteredKept. ASSUME Registered, UNCHANGED <<wait, timers, expired, senders, receivers>>,
                          \A t \in Tasks : status'[t] = "Waiting" <=> status[t] = "Waiting"
                   PROVE  Registered'
  <2> USE <1>RegisteredKept
  <2>1. \A r : Waiting(r)' = Waiting(r)
    BY DEF Waiting
  <2>2. \A c \in Channels : SendersOf(c)' = SendersOf(c)
    BY DEF SendersOf
  <2>3. InTimers'
    BY ZenonT(20), <2>1 DEF InTimers, Registered
  <2>4. \A c \in Channels : InSenders(c)' /\ InReceivers(c)'
    BY ZenonT(20), <2>1, <2>2 DEF InSenders, InReceivers, Registered
  <2> QED
    BY <2>3, <2>4 DEF Registered
(* The lists of the reasons a step does not touch.                         *)
<1>OtherLists. ASSUME Registered, NEW r \in Reasons, \A s \in Reasons \ {r} : Waiting(s)' = Waiting(s)
               PROVE  /\ r # Timer /\ UNCHANGED <<timers, expired>> => InTimers'
                      /\ \A c \in Channels : r # <<"send", c>> /\ senders'[c] = senders[c] => InSenders(c)'
                      /\ \A c \in Channels : r # <<"receive", c>> /\ receivers'[c] = receivers[c] => InReceivers(c)'
  <2> USE <1>OtherLists
  <2>1. ASSUME r # Timer, UNCHANGED <<timers, expired>> PROVE InTimers'
    <3>1. Waiting(Timer)' = Waiting(Timer)
      BY <2>1, NotAReason
    <3> QED
      BY ZenonT(20), <2>1, <3>1 DEF InTimers, Registered
  <2>2. ASSUME NEW c \in Channels, r # <<"send", c>>, senders'[c] = senders[c] PROVE InSenders(c)'
    <3>1. Waiting(<<"send", c>>)' = Waiting(<<"send", c>>)
      BY ZenonT(20), <2>2, NotAReason
    <3>2. SendersOf(c)' = SendersOf(c)
      BY <2>2 DEF SendersOf
    <3> QED
      BY <3>1, <3>2 DEF InSenders, Registered
  <2>3. ASSUME NEW c \in Channels, r # <<"receive", c>>, receivers'[c] = receivers[c]
        PROVE  InReceivers(c)'
    <3>1. Waiting(<<"receive", c>>)' = Waiting(<<"receive", c>>)
      BY ZenonT(20), <2>3, NotAReason
    <3> QED
      BY <2>3, <3>1 DEF InReceivers, Registered
  <2> QED
    BY <2>1, <2>2, <2>3
<1>BlockOnTimer. ASSUME Typed, Waits, Registered, NEW t \in Tasks, Blocks(t, Timer), ScheduleTimer(t),
                        UNCHANGED <<expired, senders, receivers>>
                 PROVE  Waits' /\ Registered'
  <2> USE <1>BlockOnTimer
  <2>1. Timer \in Reasons
    BY NotAReason
  <2>2. /\ Waits' /\ t \notin Waiting(Timer) /\ Waiting(Timer)' = Waiting(Timer) \cup {t}
        /\ \A s \in Reasons \ {Timer} : Waiting(s)' = Waiting(s)
        /\ \A u \in Tasks : status'[u] = "Waiting" <=> wait'[u] # NoWait
    BY <2>1, BlockFacts, Zenon
  <2>3. InTimers'
    <3>1. PICK due \in SUBSET Waiting(Timer) :
               Lists(expired, Tasks, due) /\ Lists(timers, Tasks, Waiting(Timer) \ due)
      BY DEF Registered, InTimers
    <3>2. PICK i \in 1..(Len(timers) + 1) : 
                  timers' = SubSeq(timers, 1, i - 1) \o <<t>> \o SubSeq(timers, i, Len(timers))
      BY ZenonT(20) DEF ScheduleTimer
    <3>3. Lists(timers', Tasks, (Waiting(Timer) \ due) \cup {t})
      BY <2>2, <3>1, <3>2, ListsInsert
    <3>4. (Waiting(Timer) \ due) \cup {t} = Waiting(Timer)' \ due /\ due \in SUBSET Waiting(Timer)'
      BY <2>2, <3>1
    <3>5. Lists(expired', Tasks, due) /\ Lists(timers', Tasks, Waiting(Timer)' \ due)
      BY ZenonT(20), <3>1, <3>3, <3>4
    <3> QED
      BY <3>4, <3>5 DEF InTimers
  <2>4. \A c \in Channels : InSenders(c)' /\ InReceivers(c)'
    BY <2>1, <2>2, <1>OtherLists, NotAReason
  <2> QED
    BY <2>2, <2>3, <2>4 DEF Registered
<1>BlockOnSend. ASSUME Typed, Waits, Registered, NEW t \in Tasks, NEW c \in Channels, NEW v \in Values,
                       Blocks(t, <<"send", c>>),
                       senders' = [senders EXCEPT ![c] = Append(senders[c], [task |-> t, value |-> v])],
                       UNCHANGED <<timers, expired, receivers>>
                PROVE  Waits' /\ Registered'
  <2> USE <1>BlockOnSend
  <2> DEFINE r == <<"send", c>>
  <2>1. r \in Reasons /\ r # Timer /\ \A d \in Channels : r # <<"receive", d>> /\ (r = <<"send", d>> => d = c)
    BY ZenonT(20), NotAReason
  <2>2. /\ Waits' /\ t \notin Waiting(r) /\ Waiting(r)' = Waiting(r) \cup {t}
        /\ \A s \in Reasons \ {r} : Waiting(s)' = Waiting(s)
        /\ \A u \in Tasks : status'[u] = "Waiting" <=> wait'[u] # NoWait
    BY <2>1, BlockFacts, Zenon
  <2>3. InSenders(c)'
    <3>1. SendersOf(c)' = Append(SendersOf(c), t)
      BY ZenonT(20), SendersAppend
    <3>2. Lists(SendersOf(c), Tasks, Waiting(r))
      BY DEF Registered, InSenders
    <3>3. Lists(Append(SendersOf(c), t), Tasks, Waiting(r) \cup {t})
      BY <2>2, <3>2, ListsAppend
    <3> QED
      BY ZenonT(20), <2>2, <3>1, <3>3 DEF InSenders
  <2>4. \A d \in Channels \ {c} : senders'[d] = senders[d]
    BY DEF Typed
  <2>5. InTimers' /\ (\A d \in Channels \ {c} : InSenders(d)') /\ (\A d \in Channels : InReceivers(d)')
    <3> HIDE DEF r
    <3> QED
      BY <2>1, <2>2, <2>4, <1>OtherLists
  <2>6. \A d \in Channels : InSenders(d)' /\ InReceivers(d)'
    BY <2>3, <2>5
  <2> QED
    BY <2>2, <2>5, <2>6 DEF Registered
<1>BlockOnReceive. ASSUME Typed, Waits, Registered, NEW t \in Tasks, NEW c \in Channels,
                          Blocks(t, <<"receive", c>>),
                          receivers' = [receivers EXCEPT ![c] = Append(receivers[c], t)],
                          UNCHANGED <<timers, expired, senders>>
                   PROVE  Waits' /\ Registered'
  <2> USE <1>BlockOnReceive
  <2> DEFINE r == <<"receive", c>>
  <2>1. r \in Reasons /\ r # Timer /\ \A d \in Channels : r # <<"send", d>> /\ (r = <<"receive", d>> => d = c)
    BY ZenonT(20), NotAReason
  <2>2. /\ Waits' /\ t \notin Waiting(r) /\ Waiting(r)' = Waiting(r) \cup {t}
        /\ \A s \in Reasons \ {r} : Waiting(s)' = Waiting(s)
        /\ \A u \in Tasks : status'[u] = "Waiting" <=> wait'[u] # NoWait
    BY <2>1, BlockFacts, Zenon
  <2>3. InReceivers(c)'
    <3>1. receivers'[c] = Append(receivers[c], t)
      BY DEF Typed
    <3>2. Lists(receivers[c], Tasks, Waiting(r))
      BY DEF Registered, InReceivers
    <3>3. Lists(Append(receivers[c], t), Tasks, Waiting(r) \cup {t})
      BY <2>2, <3>2, ListsAppend
    <3> QED
      BY ZenonT(20), <2>2, <3>1, <3>3 DEF InReceivers
  <2>4. \A d \in Channels \ {c} : receivers'[d] = receivers[d]
    BY DEF Typed
  <2>5. InTimers' /\ (\A d \in Channels : InSenders(d)') /\ (\A d \in Channels \ {c} : InReceivers(d)')
    <3> HIDE DEF r
    <3> QED
      BY <2>1, <2>2, <2>4, <1>OtherLists
  <2>6. \A d \in Channels : InSenders(d)' /\ InReceivers(d)'
    BY <2>3, <2>5
  <2> QED
    BY <2>2, <2>5, <2>6 DEF Registered
<1>WakeSleeper. ASSUME Typed, Waits, Registered, expired # <<>>,
                       expired' = Tail(expired), UNCHANGED <<timers, senders, receivers>>
                PROVE  /\ Head(expired) \in Tasks /\ CanWake(Head(expired), Timer)
                       /\ WakeTask(Head(expired), Timer) => Waits' /\ Registered'
  <2> USE <1>WakeSleeper
  <2>1. PICK t : t = Head(expired)
    OBVIOUS
  <2>2. PICK due \in SUBSET Waiting(Timer) :
             Lists(expired, Tasks, due) /\ Lists(timers, Tasks, Waiting(Timer) \ due)
    BY ZenonT(20) DEF Registered, InTimers
  <2>3. t \in Tasks /\ t \in due /\ Lists(Tail(expired), Tasks, due \ {t})
    BY <2>1, <2>2, ListsTail
  <2>4. Timer \in Reasons /\ t \in Waiting(Timer)
    BY <2>2, <2>3, NotAReason
  <2>5. CanWake(t, Timer)
    BY <2>3, <2>4, WakeFacts, Zenon
  <2>6. ASSUME WakeTask(t, Timer) PROVE Waits' /\ Registered'
    <3>1. /\ Waits' /\ Waiting(Timer)' = Waiting(Timer) \ {t}
          /\ \A s \in Reasons \ {Timer} : Waiting(s)' = Waiting(s)
          /\ \A u \in Tasks : status'[u] = "Waiting" <=> wait'[u] # NoWait
      BY <2>3, <2>4, <2>6, WakeFacts, Zenon
    <3>2. /\ due \ {t} \in SUBSET Waiting(Timer)'
          /\ Waiting(Timer)' \ (due \ {t}) = Waiting(Timer) \ due
      BY <2>2, <2>3, <3>1
    <3>3. Lists(expired', Tasks, due \ {t}) /\ Lists(timers', Tasks, Waiting(Timer)' \ (due \ {t}))
      BY ZenonT(20), <2>2, <2>3, <3>2
    <3>4. InTimers'
      BY <3>2, <3>3 DEF InTimers
    <3>5. \A c \in Channels : InSenders(c)' /\ InReceivers(c)'
      BY <2>4, <3>1, <1>OtherLists, NotAReason
    <3> QED
      BY <3>1, <3>4, <3>5 DEF Registered
  <2> QED
    BY <2>1, <2>3, <2>5, <2>6
<1>WakeSender. ASSUME Typed, Waits, Registered, NEW c \in Channels, senders[c] # <<>>,
                      senders' = [senders EXCEPT ![c] = Tail(senders[c])],
                      UNCHANGED receivers
               PROVE  /\ Head(senders[c]).task \in Tasks /\ CanWake(Head(senders[c]).task, <<"send", c>>)
                      /\ WakeTask(Head(senders[c]).task, <<"send", c>>) /\ UNCHANGED <<timers, expired>>
                           => Waits' /\ Registered'
  <2> USE <1>WakeSender
  <2> DEFINE r == <<"send", c>>
  <2>1. PICK t : t = Head(senders[c]).task
    OBVIOUS
  <2>2. r \in Reasons /\ r # Timer /\ \A d \in Channels : r # <<"receive", d>> /\ (r = <<"send", d>> => d = c)
    BY ZenonT(20), NotAReason
  <2>3. SendersOf(c)' = Tail(SendersOf(c)) /\ SendersOf(c) # <<>> /\ Head(SendersOf(c)) = t
    BY ZenonT(20), <2>1, SendersTail
  <2>4. Lists(SendersOf(c), Tasks, Waiting(r))
    BY DEF Registered, InSenders
  <2>5. t \in Tasks /\ t \in Waiting(r) /\ Lists(Tail(SendersOf(c)), Tasks, Waiting(r) \ {t})
    BY <2>3, <2>4, ListsTail
  <2>6. CanWake(t, r)
    BY <2>2, <2>5, WakeFacts, Zenon
  <2>7. ASSUME WakeTask(t, r), UNCHANGED <<timers, expired>> PROVE Waits' /\ Registered'
    <3>1. /\ Waits' /\ Waiting(r)' = Waiting(r) \ {t}
          /\ \A s \in Reasons \ {r} : Waiting(s)' = Waiting(s)
          /\ \A u \in Tasks : status'[u] = "Waiting" <=> wait'[u] # NoWait
      BY <2>2, <2>5, <2>7, WakeFacts, Zenon
    <3>2. InSenders(c)'
      BY ZenonT(20), <2>3, <2>5, <3>1 DEF InSenders
    <3>3. \A d \in Channels \ {c} : senders'[d] = senders[d]
      BY DEF Typed
    <3>4. InTimers' /\ (\A d \in Channels \ {c} : InSenders(d)') /\ (\A d \in Channels : InReceivers(d)')
      <4> HIDE DEF r
      <4> QED
        BY <2>2, <2>7, <3>1, <3>3, <1>OtherLists
    <3>5. \A d \in Channels : InSenders(d)' /\ InReceivers(d)'
      BY <3>2, <3>4
    <3> QED
      BY <3>1, <3>4, <3>5 DEF Registered
  <2> QED
    BY <2>1, <2>5, <2>6, <2>7
<1>WakeReceiver. ASSUME Typed, Waits, Registered, NEW c \in Channels, receivers[c] # <<>>,
                        receivers' = [receivers EXCEPT ![c] = Tail(receivers[c])],
                        UNCHANGED senders
                 PROVE  /\ Head(receivers[c]) \in Tasks /\ CanWake(Head(receivers[c]), <<"receive", c>>)
                        /\ WakeTask(Head(receivers[c]), <<"receive", c>>) /\ UNCHANGED <<timers, expired>>
                             => Waits' /\ Registered'
  <2> USE <1>WakeReceiver
  <2> DEFINE r == <<"receive", c>>
  <2>1. PICK t : t = Head(receivers[c])
    OBVIOUS
  <2>2. r \in Reasons /\ r # Timer /\ \A d \in Channels : r # <<"send", d>> /\ (r = <<"receive", d>> => d = c)
    BY ZenonT(20), NotAReason
  <2>3. receivers'[c] = Tail(receivers[c])
    BY DEF Typed
  <2>4. Lists(receivers[c], Tasks, Waiting(r))
    BY DEF Registered, InReceivers
  <2>5. t \in Tasks /\ t \in Waiting(r) /\ Lists(Tail(receivers[c]), Tasks, Waiting(r) \ {t})
    BY ZenonT(20), <2>1, <2>4, ListsTail
  <2>6. CanWake(t, r)
    BY <2>2, <2>5, WakeFacts, Zenon
  <2>7. ASSUME WakeTask(t, r), UNCHANGED <<timers, expired>> PROVE Waits' /\ Registered'
    <3>1. /\ Waits' /\ Waiting(r)' = Waiting(r) \ {t}
          /\ \A s \in Reasons \ {r} : Waiting(s)' = Waiting(s)
          /\ \A u \in Tasks : status'[u] = "Waiting" <=> wait'[u] # NoWait
      BY <2>2, <2>5, <2>7, WakeFacts, Zenon
    <3>2. InReceivers(c)'
      BY ZenonT(20), <2>3, <2>5, <3>1 DEF InReceivers
    <3>3. \A d \in Channels \ {c} : receivers'[d] = receivers[d]
      BY DEF Typed
    <3>4. InTimers' /\ (\A d \in Channels : InSenders(d)') /\ (\A d \in Channels \ {c} : InReceivers(d)')
      <4> HIDE DEF r
      <4> QED
        BY <2>2, <2>7, <3>1, <3>3, <1>OtherLists
    <3>5. \A d \in Channels : InSenders(d)' /\ InReceivers(d)'
      BY <3>2, <3>4
    <3> QED
      BY <3>1, <3>4, <3>5 DEF Registered
  <2> QED
    BY <2>1, <2>5, <2>6, <2>7
(* drain_due moves the first timers to its own list.                       *)
<1>DrainTimers. ASSUME Registered, expired = <<>>, NEW n \in 0..Len(timers),
                       expired' = SubSeq(timers, 1, n), timers' = SubSeq(timers, n + 1, Len(timers)),
                       UNCHANGED <<status, wait, senders, receivers>>
                PROVE  Registered'
  <2> USE <1>DrainTimers
  <2>1. PICK due \in SUBSET Waiting(Timer) :
             Lists(expired, Tasks, due) /\ Lists(timers, Tasks, Waiting(Timer) \ due)
    BY ZenonT(20) DEF Registered, InTimers
  <2>2. due = {}
    BY <2>1 DEF Lists, Waiting
  <2>3. Lists(timers, Tasks, Waiting(Timer))
    BY <2>1, <2>2
  <2>4. \E D \in SUBSET Waiting(Timer) : Lists(expired', Tasks, D) /\ Lists(timers', Tasks, Waiting(Timer) \ D)
    BY ZenonT(20), <2>3, ListsSplit
  <2>5. \A r : Waiting(r)' = Waiting(r)
    BY DEF Waiting
  <2>6. InTimers'
    BY ZenonT(20), <2>4, <2>5 DEF InTimers
  <2>7. \A c \in Channels : SendersOf(c)' = SendersOf(c)
    BY DEF SendersOf
  <2>8. \A c \in Channels : InSenders(c)' /\ InReceivers(c)'
    BY ZenonT(20), <2>5, <2>7 DEF InSenders, InReceivers, Registered
  <2> QED
    BY <2>6, <2>8 DEF Registered
(* The stacks of a scope.                                                  *)
<1>StackedKept. ASSUME Stacked, UNCHANGED <<stacks, idle, created>>,
                       \A t \in Tasks : status'[t] \in Live <=> status[t] \in Live
                PROVE  Stacked'
  <2> USE <1>StackedKept
  <2>1. {t \in Tasks : status'[t] \in Live} = {t \in Tasks : status[t] \in Live}
    OBVIOUS
  <2> QED
    BY <2>1 DEF Stacked
<1>StacksFinite. ASSUME Counting, Stacked
                 PROVE  stacks \subseteq Tasks /\ IsFiniteSet(stacks) /\ Cardinality(stacks) \in Nat
  <2> USE <1>StacksFinite
  <2>1. IsFiniteSet(Tasks)
    BY MaxTasksAssumption, CountInterval DEF Tasks
  <2>2. stacks \subseteq Tasks
    BY DEF Stacked
  <2>3. IsFiniteSet(stacks)
    BY <2>1, <2>2, CountSubset
  <2> QED
    BY <2>2, <2>3, CountNat
<1>CheckoutKeeps. ASSUME Counting, Typed, Stacked, NEW t \in Tasks, NEW queue, BeginResume(t, queue)
                  PROVE  Stacked'
  <2> USE <1>CheckoutKeeps
  <2>1. /\ status[t] \in Runnable /\ status' = [status EXCEPT ![t] = "Running"]
        /\ stacks' = stacks \cup {t}
        /\ idle' = IF t \in stacks \/ idle = 0 THEN idle ELSE idle - 1
        /\ created' = IF t \in stacks \/ idle > 0 THEN created ELSE created + 1
    BY DEF BeginResume, Checkout
  <2>2. IsFiniteSet(stacks) /\ Cardinality(stacks) \in Nat
    BY <1>StacksFinite
  <2>3. stacks' = {u \in Tasks : status'[u] \in Live}
    BY <2>1 DEF Typed, Stacked, Live
  <2>4. CASE t \in stacks
    <3>1. stacks' = stacks
      BY <2>1, <2>4
    <3> QED
      BY <2>1, <2>3, <2>4, <3>1 DEF Stacked
  <2>5. CASE t \notin stacks
    <3>1. Cardinality(stacks') = Cardinality(stacks) + 1
      BY ZenonT(20), <2>1, <2>2, <2>5, CountAdd
    <3>2. idle' \in Nat /\ created' = idle' + Cardinality(stacks')
      BY <2>1, <2>2, <2>5, <3>1 DEF Stacked
    <3> QED
      BY <2>3, <3>2 DEF Stacked
  <2> QED
    BY <2>4, <2>5
<1>RecycleKeeps. ASSUME Counting, Typed, Stacked, NEW t \in Tasks, NEW s, s \notin Live,
                        status[t] = "Running", status' = [status EXCEPT ![t] = s], Recycle(t)
                 PROVE  Stacked'
  <2> USE <1>RecycleKeeps
  <2>1. stacks' = stacks \ {t} /\ idle' = idle + 1 /\ created' = created
    BY DEF Recycle
  <2>2. IsFiniteSet(stacks) /\ Cardinality(stacks) \in Nat /\ t \in stacks
    BY <1>StacksFinite DEF Stacked, Live
  <2>3. stacks' = {u \in Tasks : status'[u] \in Live}
    BY <2>1 DEF Typed, Stacked
  <2>4. Cardinality(stacks') = Cardinality(stacks) - 1
    BY ZenonT(20), <2>1, <2>2, CountRemove
  <2> QED
    BY <2>1, <2>2, <2>3, <2>4 DEF Stacked
(* The channels of a scope.                                                *)
<1>OneSidedKept. ASSUME OneSided, UNCHANGED channelVars
                 PROVE  OneSided'
    BY <1>OneSidedKept DEF OneSided, channelVars
(* A step that changes one channel, and leaves that one as it should be.   *)
<1>OneSidedStep. ASSUME OneSided, Typed, NEW c \in Channels,
                        capacity' \in [Channels -> Nat], buffer' \in [Channels -> Seq(Values)],
                        \A d \in Channels \ {c} : /\ capacity'[d] = capacity[d] /\ buffer'[d] = buffer[d]
                                                  /\ senders'[d] = senders[d] /\ receivers'[d] = receivers[d],
                        Len(buffer'[c]) <= capacity'[c],
                        senders'[c] # <<>> => /\ capacity'[c] > 0 /\ Len(buffer'[c]) = capacity'[c]
                                              /\ receivers'[c] = <<>>,
                        receivers'[c] # <<>> => buffer'[c] = <<>>
                 PROVE  OneSided'
  <2> USE <1>OneSidedStep
  <2>1. ASSUME NEW d \in Channels
        PROVE  /\ Len(buffer'[d]) <= capacity'[d]
               /\ senders'[d] # <<>> => /\ capacity'[d] > 0 /\ Len(buffer'[d]) = capacity'[d]
                                        /\ receivers'[d] = <<>>
               /\ receivers'[d] # <<>> => buffer'[d] = <<>>
    <3>1. CASE d = c
      BY <3>1
    <3>2. CASE d # c
      <4>1. /\ capacity'[d] = capacity[d] /\ buffer'[d] = buffer[d]
            /\ senders'[d] = senders[d] /\ receivers'[d] = receivers[d]
        BY <3>2
      <4> QED
        BY <4>1 DEF OneSided
    <3> QED
      BY <3>1, <3>2
  <2> QED
    BY <2>1 DEF OneSided
<1>CreateChannelOneSided. ASSUME OneSided, Typed, CreateChannel
                          PROVE  OneSided'
  <2> USE <1>CreateChannelOneSided
  <2>1. PICK c \in Channels \ Opened, n \in 1..MaxCapacity : capacity' = [capacity EXCEPT ![c] = n]
    BY ZenonT(20) DEF CreateChannel
  <2>2. UNCHANGED <<buffer, senders, receivers>>
    BY DEF CreateChannel
  <2>3. c \in Channels /\ capacity[c] = 0 /\ capacity \in [Channels -> Nat] /\ n \in Nat
    BY <2>1 DEF Opened, OneSided
  <2>4. capacity' \in [Channels -> Nat] /\ capacity'[c] = n
        /\ \A d \in Channels \ {c} : capacity'[d] = capacity[d]
    BY <2>1, <2>3
  <2>5. buffer[c] \in Seq(Values) /\ Len(buffer[c]) <= 0 /\ senders[c] = <<>>
    BY <2>3 DEF OneSided
  <2>6. buffer[c] = <<>> /\ Len(buffer[c]) = 0
    BY <2>5
  <2>7. Len(buffer'[c]) <= capacity'[c]
    BY <2>2, <2>3, <2>4, <2>6
  <2>8. buffer' \in [Channels -> Seq(Values)]
    BY <2>2 DEF OneSided
  <2> QED
    BY ZenonT(20), <2>2, <2>3, <2>4, <2>5, <2>6, <2>7, <2>8, <1>OneSidedStep
<1>SendOneSided. ASSUME OneSided, Typed, NEW c \in Channels, NEW v \in Values, Send(c, v)
                 PROVE  OneSided'
  <2> USE <1>SendOneSided
  <2>1. c \in Opened /\ UNCHANGED capacity /\ capacity[c] \in Nat /\ capacity[c] > 0
    BY DEF Send, OneSided, Opened
  <2>2. /\ buffer[c] \in Seq(Values) /\ buffer \in [Channels -> Seq(Values)]
        /\ capacity \in [Channels -> Nat] /\ Len(buffer[c]) <= capacity[c] /\ Len(buffer[c]) \in Nat
        /\ senders[c] # <<>> => Len(buffer[c]) = capacity[c] /\ receivers[c] = <<>>
        /\ receivers[c] # <<>> => buffer[c] = <<>>
    BY DEF OneSided
  <2>3. CASE receivers[c] # <<>>
    <3>1. receivers' = [receivers EXCEPT ![c] = Tail(receivers[c])] /\ UNCHANGED <<buffer, senders>>
      BY <2>3 DEF Send
    <3>2. senders[c] = <<>> /\ buffer[c] = <<>>
      BY <2>2, <2>3
    <3>3. \A d \in Channels \ {c} : receivers'[d] = receivers[d]
      BY <3>1 DEF Typed
    <3> QED
      BY <2>1, <2>2, <3>1, <3>2, <3>3, <1>OneSidedStep
  <2>4. CASE receivers[c] = <<>> /\ Len(buffer[c]) < capacity[c]
    <3>1. buffer' = [buffer EXCEPT ![c] = Append(buffer[c], v)] /\ UNCHANGED <<receivers, senders>>
      BY <2>1, <2>2, <2>4 DEF Send
    <3>2. senders[c] = <<>>
      BY <2>2, <2>4
    <3>3. Append(buffer[c], v) \in Seq(Values) /\ Len(Append(buffer[c], v)) = Len(buffer[c]) + 1
      BY <2>2
    <3>4. /\ buffer' \in [Channels -> Seq(Values)] /\ Len(buffer'[c]) <= capacity[c]
          /\ \A d \in Channels \ {c} : buffer'[d] = buffer[d]
      BY <2>1, <2>2, <2>4, <3>1, <3>3
    <3> QED
      BY <2>1, <2>2, <2>4, <3>1, <3>2, <3>4, <1>OneSidedStep
  <2>5. CASE receivers[c] = <<>> /\ ~(Len(buffer[c]) < capacity[c])
    <3>1. /\ senders' = [senders EXCEPT ![c] = Append(senders[c], [task |-> active, value |-> v])]
          /\ UNCHANGED <<buffer, receivers>>
      BY <2>1, <2>2, <2>5 DEF Send
    <3>2. Len(buffer[c]) = capacity[c]
      BY <2>1, <2>2, <2>5
    <3>3. \A d \in Channels \ {c} : senders'[d] = senders[d]
      BY <3>1 DEF Typed
    <3> QED
      BY <2>1, <2>2, <2>5, <3>1, <3>2, <3>3, <1>OneSidedStep
  <2> QED
    BY <2>3, <2>4, <2>5
<1>ReceiveOneSided. ASSUME OneSided, Typed, NEW c \in Channels, Receive(c)
                    PROVE  OneSided'
  <2> USE <1>ReceiveOneSided
  <2>1. c \in Opened /\ UNCHANGED capacity /\ capacity[c] \in Nat /\ capacity[c] > 0
    BY DEF Receive, OneSided, Opened
  <2>2. /\ buffer[c] \in Seq(Values) /\ buffer \in [Channels -> Seq(Values)]
        /\ capacity \in [Channels -> Nat] /\ Len(buffer[c]) <= capacity[c] /\ Len(buffer[c]) \in Nat
        /\ senders[c] # <<>> => Len(buffer[c]) = capacity[c] /\ receivers[c] = <<>>
        /\ receivers[c] # <<>> => buffer[c] = <<>>
    BY DEF OneSided
  <2>3. CASE buffer[c] # <<>> /\ senders[c] = <<>>
    <3>1. buffer' = [buffer EXCEPT ![c] = Tail(buffer[c])] /\ UNCHANGED <<receivers, senders>>
      BY <2>3 DEF Receive
    <3>2. receivers[c] = <<>>
      BY <2>2, <2>3
    <3>3. Tail(buffer[c]) \in Seq(Values) /\ Len(Tail(buffer[c])) = Len(buffer[c]) - 1
      BY <2>2, <2>3
    <3>4. /\ buffer' \in [Channels -> Seq(Values)] /\ Len(buffer'[c]) <= capacity[c]
          /\ \A d \in Channels \ {c} : buffer'[d] = buffer[d]
      BY <2>1, <2>2, <3>1, <3>3
    <3> QED
      BY <2>1, <2>2, <2>3, <3>1, <3>2, <3>4, <1>OneSidedStep
  <2>4. CASE buffer[c] # <<>> /\ senders[c] # <<>>
    <3>1. /\ buffer' = [buffer EXCEPT ![c] = Append(Tail(buffer[c]), Head(senders[c]).value)]
          /\ senders' = [senders EXCEPT ![c] = Tail(senders[c])]
          /\ UNCHANGED receivers
      BY <2>4 DEF Receive
    <3>2. receivers[c] = <<>> /\ Len(buffer[c]) = capacity[c]
      BY <2>2, <2>4
    <3>3. Head(senders[c]).value \in Values
      <4>1. senders[c] \in Seq([task : Tasks, value : Values])
        BY ZenonT(30) DEF Typed
      <4>2. Head(senders[c]) \in [task : Tasks, value : Values]
        BY <2>4, <4>1, SeqHeadTail, ZenonT(30)
      <4> QED
        BY <4>2
    <3>4. Tail(buffer[c]) \in Seq(Values) /\ Len(Tail(buffer[c])) = Len(buffer[c]) - 1
      BY <2>2, <2>4
    <3>5. PICK w : w = Append(Tail(buffer[c]), Head(senders[c]).value)
      BY ZenonT(20)
    <3>6. w \in Seq(Values) /\ Len(w) = Len(buffer[c])
      BY <2>2, <3>3, <3>4, <3>5
    <3>7. /\ buffer' \in [Channels -> Seq(Values)] /\ buffer'[c] = w
          /\ \A d \in Channels \ {c} : buffer'[d] = buffer[d]
      BY <2>2, <3>1, <3>5, <3>6
    <3>8. \A d \in Channels \ {c} : senders'[d] = senders[d]
      BY <3>1 DEF Typed
    <3>9. Len(buffer'[c]) = capacity[c]
      BY <3>2, <3>6, <3>7
    <3> QED
      BY ZenonT(20), <2>1, <2>2, <3>1, <3>2, <3>7, <3>8, <3>9, <1>OneSidedStep
  <2>5. CASE buffer[c] = <<>>
    <3>1. /\ receivers' = [receivers EXCEPT ![c] = Append(receivers[c], active)]
          /\ UNCHANGED <<buffer, senders>>
      BY <2>5 DEF Receive
    <3>2. senders[c] = <<>>
      BY <2>1, <2>2, <2>5
    <3>3. \A d \in Channels \ {c} : receivers'[d] = receivers[d]
      BY <3>1 DEF Typed
    <3> QED
      BY <2>1, <2>2, <2>5, <3>1, <3>2, <3>3, <1>OneSidedStep
  <2> QED
    BY <2>3, <2>4, <2>5
(* coroutine_send: the receiver it hands its value to really waits for it. *)
<1>SendScopeInv. ASSUME ScopeInv, QueueInv', NEW c \in Channels, NEW v \in Values, Send(c, v)
                 PROVE  ScopeInv'
  <2> USE <1>SendScopeInv
  <2>1. /\ pc = "run" /\ active \in Tasks /\ status[active] = "Running"
        /\ QueueInv /\ Typed /\ Waits /\ OneSided /\ Driven /\ Registered /\ Stacked
    BY DEF Send, ScopeInv, QueueInv
  <2>2. QueueInv' /\ OneSided'
    BY <2>1, <1>SendOneSided, Zenon
  <2>3. status \in [Tasks -> Statuses]
    BY <2>1 DEF Typed
  <2> SUFFICES pc' # "ended" /\ Waits' /\ Registered' /\ Stacked' /\ Driven'
    BY <2>2 DEF ScopeInv, ScopeEndsClean
  <2>4. CASE receivers[c] # <<>>
    <3>1. /\ receivers' = [receivers EXCEPT ![c] = Tail(receivers[c])] /\ UNCHANGED senders
          /\ WakeOther(Head(receivers[c]), <<"receive", c>>)
      BY <2>4 DEF Send
    <3>2. PICK t : t = Head(receivers[c])
      OBVIOUS
    <3>3. /\ t \in Tasks /\ CanWake(t, <<"receive", c>>)
          /\ WakeTask(t, <<"receive", c>>) /\ UNCHANGED <<timers, expired>> => Waits' /\ Registered'
      BY <2>1, <2>4, <3>1, <3>2, <1>WakeReceiver, Zenon
    <3>4. WakeTask(t, <<"receive", c>>)
          /\ UNCHANGED <<stacks, idle, created, active, pc, error, timers, expired>>
      BY <3>1, <3>2, <3>3 DEF WakeOther
    <3>5. /\ status[t] = "Waiting" /\ status' = [status EXCEPT ![t] = "Ready"]
      BY <3>3, <3>4 DEF CanWake, WakeTask
    <3>6. \A u \in Tasks : status'[u] \in Live <=> status[u] \in Live
      BY <2>3, <3>5 DEF Live
    <3>7. Stacked'
      BY <2>1, <3>4, <3>6, <1>StackedKept
    <3>8. Driven'
      BY <2>1, <2>3, <3>4, <3>5 DEF Driven
    <3> QED
      BY <2>1, <3>3, <3>4, <3>7, <3>8
  <2>5. CASE UNCHANGED <<taskVars, receivers, senders>>
    <3>1. UNCHANGED <<status, wait, ready, timers, expired, stacks, idle, created, pc, active, error>>
      BY <2>5 DEF taskVars
    <3> QED
      BY <2>1, <2>5, <3>1, <1>RegisteredKept, <1>StackedKept DEF Waits, Driven
  <2>6. CASE receivers[c] = <<>> /\ ~UNCHANGED <<taskVars, receivers, senders>>
    <3>1. /\ senders' = [senders EXCEPT ![c] = Append(senders[c], [task |-> active, value |-> v])]
          /\ BlockActive(<<"send", c>>) /\ UNCHANGED receivers
      BY <2>6, ZenonT(30) DEF Send
    <3>2. /\ status' = [status EXCEPT ![active] = "Waiting"]
          /\ wait' = [wait EXCEPT ![active] = <<"send", c>>]
          /\ active' = NoTask /\ pc' \in {"php", "join"}
          /\ UNCHANGED <<ready, timers, stacks, idle, created, expired, error>>
      BY <3>1 DEF BlockActive, BlockTask, Back
    <3>3. Blocks(active, <<"send", c>>)
      BY <2>1, <3>2 DEF Blocks
    <3>4. Waits' /\ Registered'
      BY <2>1, <3>1, <3>2, <3>3, <1>BlockOnSend, Zenon
    <3>5. Stacked'
      BY <2>1, <2>3, <3>2, <1>StackedKept DEF Live
    <3>6. Driven'
      BY <2>1, <2>3, <3>2 DEF Driven
    <3> QED
      BY <3>2, <3>4, <3>5, <3>6
  <2> QED
    BY <2>4, <2>5, <2>6
(* coroutine_receive: the sender whose value moves into the buffer waits.  *)
<1>ReceiveScopeInv. ASSUME ScopeInv, QueueInv', NEW c \in Channels, Receive(c)
                    PROVE  ScopeInv'
  <2> USE <1>ReceiveScopeInv
  <2>1. /\ pc = "run" /\ active \in Tasks /\ status[active] = "Running"
        /\ QueueInv /\ Typed /\ Waits /\ OneSided /\ Driven /\ Registered /\ Stacked
    BY DEF Receive, ScopeInv, QueueInv
  <2>2. QueueInv' /\ OneSided'
    BY <2>1, <1>ReceiveOneSided, Zenon
  <2>3. status \in [Tasks -> Statuses]
    BY <2>1 DEF Typed
  <2> SUFFICES pc' # "ended" /\ Waits' /\ Registered' /\ Stacked' /\ Driven'
    BY <2>2 DEF ScopeInv, ScopeEndsClean
  <2>4. CASE buffer[c] # <<>> /\ senders[c] # <<>>
    <3>1. /\ senders' = [senders EXCEPT ![c] = Tail(senders[c])] /\ UNCHANGED receivers
          /\ WakeOther(Head(senders[c]).task, <<"send", c>>)
      BY <2>4 DEF Receive
    <3>2. PICK t : t = Head(senders[c]).task
      OBVIOUS
    <3>3. /\ t \in Tasks /\ CanWake(t, <<"send", c>>)
          /\ WakeTask(t, <<"send", c>>) /\ UNCHANGED <<timers, expired>> => Waits' /\ Registered'
      BY <2>1, <2>4, <3>1, <3>2, <1>WakeSender, Zenon
    <3>4. WakeTask(t, <<"send", c>>)
          /\ UNCHANGED <<stacks, idle, created, active, pc, error, timers, expired>>
      BY <3>1, <3>2, <3>3 DEF WakeOther
    <3>5. /\ status[t] = "Waiting" /\ status' = [status EXCEPT ![t] = "Ready"]
      BY <3>3, <3>4 DEF CanWake, WakeTask
    <3>6. \A u \in Tasks : status'[u] \in Live <=> status[u] \in Live
      BY <2>3, <3>5 DEF Live
    <3>7. Stacked'
      BY <2>1, <3>4, <3>6, <1>StackedKept
    <3>8. Driven'
      BY <2>1, <2>3, <3>4, <3>5 DEF Driven
    <3> QED
      BY <2>1, <3>3, <3>4, <3>7, <3>8
  <2>5. CASE buffer[c] # <<>> /\ senders[c] = <<>>
    <3>1. UNCHANGED <<taskVars, receivers, senders>>
      BY <2>5, ZenonT(30) DEF Receive
    <3>2. UNCHANGED <<status, wait, ready, timers, expired, stacks, idle, created, pc, active, error>>
      BY <3>1 DEF taskVars
    <3> QED
      BY <2>1, <3>1, <3>2, <1>RegisteredKept, <1>StackedKept DEF Waits, Driven
  <2>6. CASE buffer[c] = <<>>
    <3>1. /\ receivers' = [receivers EXCEPT ![c] = Append(receivers[c], active)]
          /\ BlockActive(<<"receive", c>>) /\ UNCHANGED senders
      BY <2>6 DEF Receive
    <3>2. /\ status' = [status EXCEPT ![active] = "Waiting"]
          /\ wait' = [wait EXCEPT ![active] = <<"receive", c>>]
          /\ active' = NoTask /\ pc' \in {"php", "join"}
          /\ UNCHANGED <<ready, timers, stacks, idle, created, expired, error>>
      BY <3>1 DEF BlockActive, BlockTask, Back
    <3>3. Blocks(active, <<"receive", c>>)
      BY <2>1, <3>2 DEF Blocks
    <3>4. Waits' /\ Registered'
      BY <2>1, <3>1, <3>2, <3>3, <1>BlockOnReceive, Zenon
    <3>5. Stacked'
      BY <2>1, <2>3, <3>2, <1>StackedKept DEF Live
    <3>6. Driven'
      BY <2>1, <2>3, <3>2 DEF Driven
    <3> QED
      BY <3>2, <3>4, <3>5, <3>6
  <2> QED
    BY <2>4, <2>5, <2>6
(* Steps that block and wake nobody: the thread moves, or one task changes *)
(* its status without starting or ending to wait.                          *)
<1>StatusScopeInv. ASSUME ScopeInv, QueueInv', pc # "ended", pc' # "ended", Driven', Stacked',
                          UNCHANGED <<wait, timers, expired, channelVars>>,
                          \A t \in Tasks : status'[t] = "Waiting" <=> status[t] = "Waiting"
                   PROVE  ScopeInv'
  <2> USE <1>StatusScopeInv
  <2>1. UNCHANGED <<senders, receivers>>
    BY DEF channelVars
  <2>2. Registered' /\ OneSided'
    BY <2>1, <1>RegisteredKept, <1>OneSidedKept DEF ScopeInv
  <2> QED
    BY <2>2 DEF ScopeInv, Waits, ScopeEndsClean
<1>ResumeScopeInv. ASSUME Counting, ScopeInv, QueueInv', NEW t \in Tasks, NEW queue, BeginResume(t, queue),
                          pc \in {"php", "join", "pop"}, active = NoTask,
                          UNCHANGED <<wait, timers, expired, error, channelVars>>
                   PROVE  ScopeInv'
  <2> USE <1>ResumeScopeInv
  <2>1. /\ status \in [Tasks -> Statuses] /\ Typed /\ Driven /\ Stacked
    BY ZenonT(20) DEF ScopeInv, QueueInv, Typed
  <2>2. /\ status[t] \in Runnable /\ status' = [status EXCEPT ![t] = "Running"]
        /\ active' = t /\ pc' = "run"
    BY DEF BeginResume
  <2>3. Stacked'
    BY <2>1, <1>CheckoutKeeps
  <2>4. Driven'
    BY <2>1, <2>2 DEF Driven, NoTask, Tasks
  <2>5. \A u \in Tasks : status'[u] = "Waiting" <=> status[u] = "Waiting"
    BY <2>1, <2>2 DEF Runnable
  <2> QED
    BY <2>2, <2>3, <2>4, <2>5, <1>StatusScopeInv
(* The running task ends, or is cancelled.                                 *)
<1>EndScopeInv. ASSUME Counting, ScopeInv, QueueInv', active # NoTask, expired = <<>>,
                       NEW s \in {"Completed", "Failed", "Cancelled"},
                       status' = [status EXCEPT ![active] = s], Recycle(active),
                       active' = NoTask, pc' \in {"php", "join", "fatal"},
                       error' \in {"none", "refused", "nested", "deadlock"},
                       error' = "none" \/ pc' = "fatal",
                       error' = "deadlock" => ready' = <<>> /\ timers = <<>>,
                       UNCHANGED <<wait, timers, expired, senders, receivers>>, OneSided'
                PROVE  ScopeInv'
  <2> USE <1>EndScopeInv
  <2>1. /\ status \in [Tasks -> Statuses] /\ Typed /\ Driven /\ Stacked /\ Registered
        /\ active \in Tasks /\ status[active] = "Running"
    BY ZenonT(20) DEF ScopeInv, QueueInv, Typed
  <2>2. Stacked'
    BY ZenonT(20), <2>1, <1>RecycleKeeps DEF Live
  <2>3. Driven'
    BY <2>1 DEF Driven
  <2>4. \A u \in Tasks : status'[u] = "Waiting" <=> status[u] = "Waiting"
    BY <2>1
  <2>5. Registered'
    BY <2>1, <2>4, <1>RegisteredKept
  <2> QED
    BY <2>2, <2>3, <2>5 DEF ScopeInv, Waits, ScopeEndsClean
(* The thread moves on its own.                                            *)
<1>MoveScopeInv. ASSUME ScopeInv, QueueInv', pc # "ended", pc' # "ended", Driven',
                        UNCHANGED <<status, wait, timers, stacks, idle, created, expired, channelVars>>
                 PROVE  ScopeInv'
  <2> USE <1>MoveScopeInv
  <2>1. Stacked'
    BY <1>StackedKept DEF ScopeInv
  <2> QED
    BY <2>1, <1>StatusScopeInv
(* An error ends the scope, and the task that runs.                        *)
<1>FatalScopeInv. ASSUME Counting, ScopeInv, QueueInv', pc \notin {"expire", "ended"},
                         NEW reason \in {"refused", "nested", "deadlock"}, Fatal(reason),
                         reason = "deadlock" => ready' = <<>> /\ timers = <<>>,
                         UNCHANGED <<wait, timers, expired, channelVars>>
                  PROVE  ScopeInv'
  <2> USE <1>FatalScopeInv
  <2>1. error' = reason /\ pc' = "fatal" /\ active' = NoTask
    BY DEF Fatal
  <2>2. OneSided /\ Driven /\ expired = <<>>
    BY DEF ScopeInv, Driven
  <2>3. OneSided' /\ UNCHANGED <<senders, receivers>>
    BY <2>2, <1>OneSidedKept DEF channelVars
  <2>4. CASE active = NoTask
    <3>1. UNCHANGED <<status, stacks, idle, created>>
      BY <2>4 DEF Fatal
    <3>2. Driven'
      BY <2>1, <2>2, <2>4, <3>1 DEF Driven
    <3> QED
      BY <2>1, <3>1, <3>2, <1>MoveScopeInv
  <2>5. CASE active # NoTask
    <3>1. status' = [status EXCEPT ![active] = "Cancelled"] /\ Recycle(active)
      BY <2>5 DEF Fatal
    <3> QED
      BY <2>1, <2>2, <2>3, <2>5, <3>1, <1>EndScopeInv
  <2> QED
    BY <2>4, <2>5
(* finish_scope: nothing is left live, every stack is idle again, and the  *)
(* failure it raises is the first one nobody has joined.                   *)
<1>FinishScopeInv. ASSUME Counting, ScopeInv, QueueInv', FinishScope, UNCHANGED channelVars
                   PROVE  ScopeInv'
  <2> USE <1>FinishScopeInv
  <2>1. /\ status \in [Tasks -> Statuses] /\ pc \in {"php", "fatal"}
        /\ Waits /\ OneSided /\ Driven /\ Registered /\ Stacked
    BY DEF ScopeInv, QueueInv, Typed, FinishScope
  <2>2. PICK own \in {NoTask, RootException} : FinishTasks(own)
    BY DEF FinishScope
  <2>3. /\ status' = [t \in Tasks |-> IF status[t] \in Runnable \cup {"Waiting"} THEN "Cancelled"
                                    ELSE IF t = Raised(own) THEN "Joined" ELSE status[t]]
        /\ wait' = [t \in Tasks |-> IF status[t] \in Live THEN NoWait ELSE wait[t]]
        /\ stacks' = stacks \ {t \in stacks : status[t] \in Live}
        /\ idle' = idle + Cardinality({t \in stacks : status[t] \in Live})
        /\ exception' = Raised(own) /\ expired' = <<>> /\ pc' = "ended" /\ UNCHANGED <<created, error>>
    BY <2>2 DEF FinishTasks
  <2>4. \A t \in Tasks : status[t] \in Statuses \ {"Running"}
    <3>1. active = NoTask
      BY <2>1 DEF ScopeInv, QueueInv
    <3> QED
      BY <2>1, <3>1 DEF Driven, NoTask, Tasks
  <2>5. \A t \in Tasks : /\ status'[t] \notin Live \cup {"Created"}
                         /\ status'[t] = "Failed" => status[t] = "Failed" /\ t # Raised(own)
    BY <2>3, <2>4 DEF Statuses, Live, Runnable
  <2>6. \A t \in Tasks : wait'[t] = NoWait
    BY <2>1, <2>3 DEF Registered, Live
  <2>7. {t \in stacks : status[t] \in Live} = stacks
    BY <2>1 DEF Stacked
  <2>8. stacks' = {} /\ idle' = created'
    BY ZenonT(20), <2>1, <2>3, <2>7, <1>StacksFinite DEF Stacked
  <2>9. ASSUME NEW t \in Tasks, status'[t] = "Failed"
        PROVE  exception' \in (1..(t - 1)) \cup {RootException}
    <3>1. CASE own = RootException
      <4>1. RootException # NoTask
        BY MaxTasksAssumption DEF RootException, NoTask
      <4> QED
        BY <2>3, <3>1, <4>1 DEF Raised
    <3>2. CASE own = NoTask
      <4>1. t \in Unjoined /\ t # Raised(own)
        BY <2>5, <2>9 DEF Unjoined
      <4>2. Raised(own) = Min(Unjoined)
        BY <3>2, <4>1 DEF Raised
      <4>3. Unjoined \subseteq Tasks /\ Tasks \subseteq Nat
        BY MaxTasksAssumption DEF Unjoined, Tasks
      <4>4. \E m \in Unjoined : \A k \in Unjoined : m <= k
        BY ZenonT(20), <4>1, <4>3, LeastNat
      <4>5. PICK m : m = Min(Unjoined)
        OBVIOUS
      <4>6. m \in Unjoined /\ m <= t
        BY <4>1, <4>4, <4>5 DEF Min
      <4>7. m \in 1..MaxTasks /\ t \in 1..MaxTasks /\ m # t
        BY <4>1, <4>2, <4>3, <4>5, <4>6 DEF Tasks
      <4>8. m \in 1..(t - 1)
        BY <4>6, <4>7, MaxTasksAssumption
      <4> QED
        BY <2>3, <4>2, <4>5, <4>8
    <3> QED
      BY <3>1, <3>2
  <2>10. ScopeEndsClean'
    BY <2>5, <2>6, <2>8, <2>9 DEF ScopeEndsClean
  <2>11. Waits'
    BY <2>3, <2>6 DEF Waits
  <2>12. Driven'
    <3>1. \A t \in Tasks : status'[t] # "Running"
      BY <2>5 DEF Live
    <3> QED
      BY <2>1, <2>3, <3>1 DEF Driven
  <2>13. OneSided'
    BY <2>1, <1>OneSidedKept
  <2> QED
    BY <2>3, <2>10, <2>11, <2>12, <2>13 DEF ScopeInv
<1>NewScopeInv. ASSUME Counting, NewScope
                PROVE  ScopeInv'
  <2> USE <1>NewScopeInv
  <2>1. (Counting /\ Init => ScopeInv)'
    BY InitScopeInv, PTL
  <2>2. Init'
    BY DEF NewScope, NewTasks, Init, InitTasks, InitChannels
  <2> QED
    BY <2>1, <2>2
<1> SUFFICES ASSUME Counting, ScopeInv, [Next]_vars PROVE ScopeInv'
  OBVIOUS
<1>1. QueueInv'
  BY NextQueueInv DEF ScopeInv
<1>2. status \in [Tasks -> Statuses] /\ Typed /\ Waits /\ OneSided /\ Driven
  BY ZenonT(20) DEF ScopeInv, QueueInv, Typed
<1>3. pc # "ended" => Registered /\ Stacked
  BY DEF ScopeInv
<1>4. pc = "run" => active \in Tasks /\ status[active] = "Running"
  BY DEF ScopeInv, QueueInv
<1>5. CASE UNCHANGED vars
  <2>1. UNCHANGED <<status, wait, ready, timers, stacks, idle, created, active, pc, joining,
                    expired, error, exception, channelVars>>
    BY <1>5 DEF vars, taskVars
  <2>2. UNCHANGED <<senders, receivers>>
    BY <2>1 DEF channelVars
  <2>3. OneSided'
    BY <1>2, <2>1, <1>OneSidedKept
  <2>4. pc # "ended" => Registered' /\ Stacked'
    BY <1>3, <2>1, <2>2, <1>RegisteredKept, <1>StackedKept
  <2>5. Waits' /\ Driven'
    BY <1>2, <2>1 DEF Waits, Driven
  <2>6. ScopeEndsClean'
    BY <2>1 DEF ScopeInv, ScopeEndsClean
  <2> QED
    BY <1>1, <2>1, <2>3, <2>4, <2>5, <2>6 DEF ScopeInv
<1>6. CASE Spawn /\ UNCHANGED channelVars
  <2>1. PICK t \in Tasks : /\ status[t] = "None" /\ status' = [status EXCEPT ![t] = "Created"]
                           /\ UNCHANGED <<wait, timers, stacks, idle, created, active, pc,
                                          joining, expired, error>>
    BY <1>6, ZenonT(30) DEF Spawn, Spawned
  <2>2. pc \in {"php", "run"}
    BY <1>6 DEF Spawn, Calling
  <2>3. Stacked'
    BY <1>2, <1>3, <2>1, <2>2, <1>StackedKept DEF Live
  <2>4. Driven'
    BY <1>2, <2>1, <2>2 DEF Driven
  <2>5. \A u \in Tasks : status'[u] = "Waiting" <=> status[u] = "Waiting"
    BY <1>2, <2>1
  <2> QED
    BY <1>1, <1>6, <2>1, <2>2, <2>3, <2>4, <2>5, <1>StatusScopeInv
<1>7. CASE RefusedCall /\ UNCHANGED channelVars
  <2>1. pc \in {"php", "run"} /\ UNCHANGED <<wait, ready, timers, joining, expired>>
    BY <1>7 DEF RefusedCall, Calling
  <2>2. Fatal("refused")
    BY <1>7 DEF RefusedCall
  <2> QED
    BY ZenonT(20), <1>1, <1>7, <2>1, <2>2, <1>FatalScopeInv
<1>8. CASE Suspend /\ UNCHANGED channelVars
  <2>1. /\ pc = "run" /\ status' = [status EXCEPT ![active] = "Suspended"] /\ active' = NoTask
        /\ pc' \in {"php", "join"}
        /\ UNCHANGED <<wait, ready, timers, stacks, idle, created, joining, expired, error>>
    BY <1>8 DEF Suspend, Back
  <2>2. Stacked'
    BY <1>2, <1>3, <1>4, <2>1, <1>StackedKept DEF Live
  <2>3. Driven'
    BY <1>2, <1>4, <2>1 DEF Driven
  <2>4. \A u \in Tasks : status'[u] = "Waiting" <=> status[u] = "Waiting"
    BY <1>2, <1>4, <2>1
  <2> QED
    BY <1>1, <1>8, <2>1, <2>2, <2>3, <2>4, <1>StatusScopeInv
<1>9. CASE Sleep /\ UNCHANGED channelVars
  <2>1. /\ pc = "run" /\ status' = [status EXCEPT ![active] = "Waiting"]
        /\ wait' = [wait EXCEPT ![active] = Timer] /\ active' = NoTask
        /\ pc' \in {"php", "join"} /\ ScheduleTimer(active)
        /\ UNCHANGED <<ready, stacks, idle, created, joining, expired, error>>
    BY <1>9 DEF Sleep, BlockTask, Back
  <2>2. OneSided' /\ UNCHANGED <<senders, receivers>>
    BY <1>2, <1>9, <1>OneSidedKept DEF channelVars
  <2>3. Blocks(active, Timer)
    BY <1>4, <2>1 DEF Blocks
  <2>4. Waits' /\ Registered'
    BY <1>2, <1>3, <1>4, <2>1, <2>2, <2>3, <1>BlockOnTimer, Zenon
  <2>5. Stacked'
    BY <1>2, <1>3, <1>4, <2>1, <1>StackedKept DEF Live
  <2>6. Driven'
    BY <1>2, <1>4, <2>1 DEF Driven
  <2> QED
    BY <1>1, <2>1, <2>2, <2>4, <2>5, <2>6 DEF ScopeInv, ScopeEndsClean
<1>10. CASE FinishScope /\ UNCHANGED channelVars
  BY <1>1, <1>10, <1>FinishScopeInv
<1>11. ASSUME NEW t \in Tasks, Resume(t), UNCHANGED channelVars PROVE ScopeInv'
  <2>1. active = NoTask
    BY <1>11 DEF Resume, ScopeInv, QueueInv
  <2> QED
    BY <1>1, <1>11, <2>1, <1>ResumeScopeInv DEF Resume
<1>12. ASSUME NEW t \in Tasks, Join(t), UNCHANGED channelVars PROVE ScopeInv'
  <2>1. /\ pc = "php" /\ pc' = "join"
        /\ UNCHANGED <<status, wait, ready, timers, stacks, idle, created, active, expired, error>>
    BY <1>12 DEF Join
  <2>2. Driven'
    BY <1>2, <2>1 DEF Driven
  <2> QED
    BY <1>1, <1>12, <2>1, <2>2, <1>MoveScopeInv
<1>27. ASSUME NEW t \in Tasks, JoinWaiting(t), UNCHANGED channelVars PROVE ScopeInv'
  <2>1. /\ pc = "run" /\ pc' = "timers"
        /\ UNCHANGED <<status, wait, ready, timers, stacks, idle, created, active, expired, error>>
    BY <1>27 DEF JoinWaiting
  <2>2. Driven'
    BY <1>2, <2>1 DEF Driven
  <2> QED
    BY <1>1, <1>27, <2>1, <2>2, <1>MoveScopeInv
<1>13. ASSUME NEW t \in Tasks, UNCHANGED channelVars, status[t] \in {"Completed", "Failed"},
              status' = [status EXCEPT ![t] = "Joined"], pc \in {"run", "join"},
              pc' \in {pc, "php"}, pc = "run" => pc' = "run",
              UNCHANGED <<wait, ready, timers, stacks, idle, created, active, expired, error>>
       PROVE  ScopeInv'
  <2>1. Stacked'
    BY <1>2, <1>3, <1>13, <1>StackedKept DEF Live
  <2>2. Driven'
    BY <1>2, <1>13 DEF Driven
  <2>3. \A u \in Tasks : status'[u] = "Waiting" <=> status[u] = "Waiting"
    BY <1>2, <1>13
  <2> QED
    BY <1>1, <1>13, <2>1, <2>2, <2>3, <1>StatusScopeInv
<1>14. ASSUME NEW t \in Tasks, JoinEnded(t), UNCHANGED channelVars PROVE ScopeInv'
  BY ZenonT(20), <1>13, <1>14 DEF JoinEnded
<1>15. CASE CreateChannel
  <2>1. UNCHANGED <<taskVars, senders, receivers>> /\ pc \in {"php", "run"}
    BY <1>15, ZenonT(30) DEF CreateChannel, Calling
  <2>2. UNCHANGED <<status, wait, ready, timers, expired, stacks, idle, created, pc, active, error>>
    BY <2>1 DEF taskVars
  <2>3. OneSided'
    BY <1>2, <1>15, <1>CreateChannelOneSided
  <2>4. Registered' /\ Stacked'
    BY <1>3, <2>1, <2>2, <1>RegisteredKept, <1>StackedKept
  <2>5. Waits' /\ Driven'
    BY <1>2, <2>2 DEF Waits, Driven
  <2> QED
    BY <1>1, <2>1, <2>2, <2>3, <2>4, <2>5 DEF ScopeInv, ScopeEndsClean
<1>16. CASE TaskEnds
  <2>1. /\ pc = "run" /\ Recycle(active) /\ active' = NoTask /\ pc' \in {"php", "join"}
        /\ UNCHANGED <<wait, ready, timers, expired, error, capacity, buffer, senders, receivers>>
    BY <1>16 DEF TaskEnds, Return, Back
  <2>2. PICK end \in {"Completed", "Failed"} : status' = [status EXCEPT ![active] = end]
    BY <1>16, ZenonT(30) DEF TaskEnds, Return
  <2>3. OneSided'
    BY <1>2, <2>1 DEF OneSided
  <2>4. error' = "none" /\ expired = <<>> /\ active # NoTask
    BY <1>2, <2>1 DEF Driven, ScopeInv, QueueInv
  <2> QED
    BY ZenonT(20), <1>1, <2>1, <2>2, <2>3, <2>4, <1>EndScopeInv
<1>17. CASE NewScope
  BY <1>17, <1>NewScopeInv
<1>18. ASSUME NEW c \in Channels, NEW v \in Values, Send(c, v) PROVE ScopeInv'
  BY <1>1, <1>18, <1>SendScopeInv
<1>19. ASSUME NEW c \in Channels, Receive(c) PROVE ScopeInv'
  BY <1>1, <1>19, <1>ReceiveScopeInv
<1>20. CASE JoinResume /\ UNCHANGED channelVars
  <2>1. joining \in Tasks /\ active = NoTask
    BY <1>20 DEF JoinResume, ScopeInv, QueueInv
  <2> QED
    BY <1>1, <1>20, <2>1, <1>ResumeScopeInv DEF JoinResume
<1>21. CASE JoinResult /\ UNCHANGED channelVars
  <2>1. joining \in Tasks
    BY <1>21 DEF JoinResult, ScopeInv, QueueInv
  <2> QED
    BY ZenonT(20), <1>13, <1>21, <2>1 DEF JoinResult
<1>22. CASE (JoinWait \/ SleepUntilDeadline) /\ UNCHANGED channelVars
  <2>1. /\ pc \in {"join", "sleep"} /\ pc' = "timers"
        /\ UNCHANGED <<status, wait, ready, timers, stacks, idle, created, active, expired, error>>
    BY <1>22 DEF JoinWait, SleepUntilDeadline
  <2>2. Driven'
    BY <1>2, <2>1 DEF Driven
  <2> QED
    BY <1>1, <1>22, <2>1, <2>2, <1>MoveScopeInv
<1>28. CASE (JoinTwice \/ ReportDeadlock) /\ UNCHANGED channelVars
  <2>1. \/ pc = "join" /\ Fatal("refused")
        \/ pc = "sleep" /\ timers = <<>> /\ Fatal("deadlock")
    BY <1>28, ZenonT(20) DEF JoinTwice, ReportDeadlock
  <2>2. UNCHANGED <<wait, ready, timers, expired>>
    BY <1>28 DEF JoinTwice, ReportDeadlock
  <2>3. pc = "sleep" => ready = <<>>
    BY <1>2 DEF Driven
  <2> QED
    BY ZenonT(20), <1>1, <1>28, <2>1, <2>2, <2>3, <1>FatalScopeInv
<1>23. CASE DrainDue /\ UNCHANGED channelVars
  <2>1. /\ pc = "timers" /\ pc' = "expire"
        /\ UNCHANGED <<status, wait, ready, stacks, idle, created, active, error>>
    BY <1>23 DEF DrainDue
  <2>2. PICK n \in 0..Len(timers) : /\ expired' = SubSeq(timers, 1, n)
                                    /\ timers' = SubSeq(timers, n + 1, Len(timers))
    BY <1>23 DEF DrainDue
  <2>3. OneSided' /\ UNCHANGED <<senders, receivers>>
    BY <1>2, <1>23, <1>OneSidedKept DEF channelVars
  <2>4. Registered'
    BY <1>2, <1>3, <2>1, <2>2, <2>3, <1>DrainTimers DEF Driven
  <2>5. Stacked'
    BY <1>3, <2>1, <1>StackedKept
  <2>6. Waits' /\ Driven'
    BY <1>2, <2>1 DEF Waits, Driven
  <2> QED
    BY <1>1, <2>1, <2>3, <2>4, <2>5, <2>6 DEF ScopeInv, ScopeEndsClean
<1>24. CASE ExpireTimer /\ UNCHANGED channelVars
  <2>1. /\ pc = "expire" /\ expired # <<>> /\ expired' = Tail(expired)
        /\ UNCHANGED <<timers, stacks, idle, created, active, pc, error>>
    BY <1>24 DEF ExpireTimer
  <2>2. OneSided' /\ UNCHANGED <<senders, receivers>>
    BY <1>2, <1>24, <1>OneSidedKept DEF channelVars
  <2>3. PICK t : t = Head(expired)
    OBVIOUS
  <2>4. /\ t \in Tasks /\ CanWake(t, Timer)
        /\ WakeTask(t, Timer) => Waits' /\ Registered'
    BY <1>2, <1>3, <2>1, <2>2, <2>3, <1>WakeSleeper
  <2>5. WakeTask(t, Timer)
    BY <1>24, <2>3, <2>4 DEF ExpireTimer
  <2>6. status[t] = "Waiting" /\ status' = [status EXCEPT ![t] = "Ready"]
    BY <2>4, <2>5 DEF CanWake, WakeTask
  <2>7. Stacked'
    BY <1>2, <1>3, <2>1, <2>6, <1>StackedKept DEF Live
  <2>8. Driven'
    BY <1>2, <2>1, <2>6 DEF Driven
  <2> QED
    BY <1>1, <2>1, <2>2, <2>4, <2>5, <2>7, <2>8 DEF ScopeInv, ScopeEndsClean
<1>25. CASE PopReady /\ UNCHANGED channelVars
  <2>1. pc = "pop" /\ ready # <<>> /\ UNCHANGED <<wait, timers, expired>>
    BY <1>25 DEF PopReady
  <2>2. Head(ready) \in Tasks /\ Head(ready) \in Queued
    BY ZenonT(20), <2>1, ListsTail DEF ScopeInv, QueueInv, Nested
  <2>3. CASE active = NoTask
    <3>1. BeginResume(Head(ready), Tail(ready)) /\ UNCHANGED error
      BY <1>25, <2>2, <2>3 DEF PopReady, Queued
    <3> QED
      BY <1>1, <1>25, <2>1, <2>2, <2>3, <3>1, <1>ResumeScopeInv
  <2>4. CASE active # NoTask
    <3>1. Fatal("nested")
      BY <1>25, <2>2, <2>4 DEF PopReady, Queued
    <3> QED
      BY ZenonT(20), <1>1, <1>25, <2>1, <3>1, <1>FatalScopeInv
  <2> QED
    BY <2>3, <2>4
<1>26. CASE TimersDone \/ NothingReady
  <2>1. /\ \/ pc = "expire" /\ expired = <<>> /\ pc' = "pop"
           \/ pc = "pop" /\ ready = <<>> /\ pc' = "sleep"
        /\ UNCHANGED <<status, wait, ready, timers, stacks, idle, created, active, expired, error,
                       channelVars>>
    BY <1>26 DEF TimersDone, NothingReady
  <2>2. Driven'
    BY <1>2, <2>1 DEF Driven
  <2> QED
    BY <1>1, <2>1, <2>2, <1>MoveScopeInv
<1> QED
  BY <1>5, <1>6, <1>7, <1>8, <1>9, <1>10, <1>11, <1>12, <1>14, <1>15, <1>16, <1>17, <1>18, <1>19,
     <1>20, <1>21, <1>22, <1>23, <1>24, <1>25, <1>26, <1>27, <1>28 DEF Next, Calls, Drive
=============================================================================
