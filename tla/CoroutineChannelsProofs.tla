---------------------- MODULE CoroutineChannelsProofs ----------------------
(***************************************************************************)
(* What CoroutineChannels' scheduler promises, for any number of tasks and *)
(* channels, any capacities and any values: a channel is one bounded FIFO  *)
(* queue (BoundedFifo), and the properties of the ready queue, of waiting  *)
(* tasks, of deadlock and of a scope's end that follow from the invariants *)
(* of CoroutineScopeProofs.                                                *)
(***************************************************************************)
EXTENDS CoroutineScopeProofs

(* A leaf that names no prover is tried with SMT, with Zenon and, if the   *)
(* machine was too busy for either, with SMT once more.                    *)
USE SMTT(10), ZenonT(20), SMTT(30)

(* The elements of a list of tasks.                                        *)
LEMMA ListElements ==
    ASSUME NEW q, NEW T \in SUBSET Tasks, Lists(q, Tasks, T)
    PROVE  Fifo!Elements(q) = T
<1>1. DOMAIN q = 1..Len(q) /\ \A i \in 1..Len(q) : q[i] \in Tasks
  BY DEF Lists
<1>2. {q[i] : i \in DOMAIN q} = T
  BY <1>1 DEF Lists
<1> QED
  BY <1>2 DEF Fifo!Elements

LEMMA FirstChannel == 1 \in Channels
  BY ChannelsAssumption DEF Channels

LEMMA StoppedAre == StoppedTasks = Waiting(<<"send", 1>>) \cup Waiting(<<"receive", 1>>)
  BY DEF StoppedTasks, Waiting

(* The tasks the channel stops are those of its two lists.                 *)
LEMMA StoppedListed ==
    ASSUME ScopeInv, pc # "ended"
    PROVE  StoppedTasks = Fifo!Elements(SendersOf(1)) \cup Fifo!Elements(receivers[1])
<1>1. /\ Lists(SendersOf(1), Tasks, Waiting(<<"send", 1>>))
      /\ Lists(receivers[1], Tasks, Waiting(<<"receive", 1>>))
  BY FirstChannel DEF ScopeInv, Registered, InSenders, InReceivers
<1>2. Waiting(<<"send", 1>>) \in SUBSET Tasks /\ Waiting(<<"receive", 1>>) \in SUBSET Tasks
  BY DEF Waiting
<1>3. Fifo!Elements(SendersOf(1)) = Waiting(<<"send", 1>>)
  BY <1>1, <1>2, ListElements, Zenon
<1>4. Fifo!Elements(receivers[1]) = Waiting(<<"receive", 1>>)
  <2>1. PICK q, T : q = receivers[1] /\ T = Waiting(<<"receive", 1>>)
    OBVIOUS
  <2>2. T \in SUBSET Tasks /\ Lists(q, Tasks, T)
    BY <1>1, <1>2, <2>1
  <2>3. Fifo!Elements(q) = T
    BY <2>2, ListElements, Zenon
  <2> QED
    BY <2>1, <2>3
<1> QED
  BY <1>3, <1>4, StoppedAre

LEMMA FifoInit == Init => Fifo!Init
<1> SUFFICES ASSUME Init PROVE Fifo!Init
  OBVIOUS
<1>1. /\ capacity[1] = 0 /\ buffer[1] = <<>> /\ senders[1] = <<>> /\ receivers[1] = <<>>
      /\ got = [t \in Tasks |-> Null] /\ wait = [t \in Tasks |-> NoWait]
  BY FirstChannel DEF Init, InitTasks, InitChannels
<1>2. NoWait \notin {<<"send", 1>>, <<"receive", 1>>}
  BY DEF NoWait
<1>3. StoppedTasks = {}
  BY <1>1, <1>2 DEF StoppedTasks
<1>4. Held(1) = <<>> /\ SendersOf(1) = <<>>
  BY <1>1 DEF Held, SendersOf
<1>5. QueueItems = <<>>
  BY <1>1, <1>4 DEF QueueItems
<1> QED
  BY <1>1, <1>3, <1>4, <1>5 DEF Fifo!Init

LEMMA FifoNext == ScopeInv /\ ScopeInv' /\ [Next]_vars => [Fifo!Next]_(Fifo!vars)
(* The values the blocked senders of a channel hold.                       *)
<1>HeldType. ASSUME Typed, NEW c \in Channels
             PROVE  /\ Held(c) \in Seq(Values) /\ Len(Held(c)) = Len(senders[c]) /\ Len(senders[c]) \in Nat
                    /\ senders[c] = <<>> => Held(c) = <<>>
                    /\ senders[c] # <<>> => Held(c) # <<>> /\ Head(Held(c)) = Head(senders[c]).value
  <2> USE <1>HeldType
  <2> DEFINE Entry == [task : Tasks, value : Values]
             s == senders[c]
  <2>1. s \in Seq(Entry)
    BY ZenonT(20) DEF Typed
  <2>2. Held(c) = [i \in DOMAIN s |-> s[i].value]
    BY DEF Held
  <2> HIDE DEF Entry, s
  <2>3. Len(s) \in Nat /\ DOMAIN s = 1..Len(s) /\ \A i \in 1..Len(s) : s[i] \in Entry
    BY <2>1
  <2>4. \A x \in Entry : x.value \in Values
    BY DEF Entry
  <2>5. Held(c) \in Seq(Values) /\ Len(Held(c)) = Len(s)
    BY <2>2, <2>3, <2>4
  <2>6. s = <<>> => Held(c) = <<>>
    BY <2>2
  <2>7. s # <<>> => Held(c) # <<>> /\ Head(Held(c)) = Head(s).value
    BY <2>1, <2>2, <2>3, <2>5
  <2> QED
    BY <2>3, <2>5, <2>6, <2>7 DEF s
<1>HeldAppend. ASSUME Typed, NEW c \in Channels, NEW t \in Tasks, NEW v \in Values,
                      senders' = [senders EXCEPT ![c] = Append(senders[c], [task |-> t, value |-> v])]
               PROVE  Held(c)' = Append(Held(c), v)
  <2> USE <1>HeldAppend
  <2> DEFINE Entry == [task : Tasks, value : Values]
             e == [task |-> t, value |-> v]
             s == senders[c]
             w == senders'[c]
  <2>1. s \in Seq(Entry) /\ e \in Entry /\ e.value = v
    BY ZenonT(20) DEF Typed
  <2>2. w = Append(s, e)
    BY DEF Typed
  <2>3. Held(c) = [i \in DOMAIN s |-> s[i].value]
    BY DEF Held
  <2>4. Held(c)' = [i \in DOMAIN w |-> w[i].value]
    BY DEF Held
  <2> HIDE DEF Entry, e, s, w
  <2>5. /\ Len(s) \in Nat /\ DOMAIN s = 1..Len(s) /\ DOMAIN w = 1..(Len(s) + 1)
        /\ \A i \in 1..Len(s) : w[i] = s[i]
        /\ w[Len(s) + 1] = e
    BY <2>1, <2>2
  <2>6. \A i \in 1..Len(s) : s[i].value \in Values
    <3>1. \A i \in 1..Len(s) : s[i] \in Entry
      BY <2>1
    <3>2. \A x \in Entry : x.value \in Values
      BY DEF Entry
    <3> QED
      BY <3>1, <3>2
  <2>7. Held(c) \in Seq(Values) /\ Len(Held(c)) = Len(s)
    BY <2>3, <2>5, <2>6
  <2>8. Held(c)' \in Seq(Values) /\ Len(Held(c)') = Len(s) + 1
    BY <2>1, <2>4, <2>5, <2>6
  <2>9. /\ Append(Held(c), v) \in Seq(Values) /\ Len(Append(Held(c), v)) = Len(s) + 1
        /\ \A i \in 1..Len(s) : Append(Held(c), v)[i] = Held(c)[i]
        /\ Append(Held(c), v)[Len(s) + 1] = v
    BY <2>7
  <2>10. \A i \in 1..(Len(s) + 1) : Held(c)'[i] = Append(Held(c), v)[i]
    BY <2>1, <2>3, <2>4, <2>5, <2>9
  <2> QED
    BY <2>8, <2>9, <2>10, SeqSame
<1>HeldTail. ASSUME Typed, NEW c \in Channels, senders[c] # <<>>,
                    senders' = [senders EXCEPT ![c] = Tail(senders[c])]
             PROVE  Held(c)' = Tail(Held(c))
  <2> USE <1>HeldTail
  <2> DEFINE Entry == [task : Tasks, value : Values]
             s == senders[c]
             w == senders'[c]
  <2>1. s \in Seq(Entry) /\ s # <<>>
    BY ZenonT(20) DEF Typed
  <2>2. w = Tail(s)
    BY DEF Typed
  <2>3. Held(c) = [i \in DOMAIN s |-> s[i].value]
    BY DEF Held
  <2>4. Held(c)' = [i \in DOMAIN w |-> w[i].value]
    BY DEF Held
  <2> HIDE DEF Entry, s, w
  <2>5. /\ Len(s) \in Nat /\ Len(s) > 0 /\ DOMAIN s = 1..Len(s) /\ DOMAIN w = 1..(Len(s) - 1)
        /\ \A i \in 1..(Len(s) - 1) : w[i] = s[i + 1]
    BY <2>1, <2>2
  <2>6. \A i \in 1..Len(s) : s[i].value \in Values
    <3>1. \A i \in 1..Len(s) : s[i] \in Entry
      BY <2>1
    <3>2. \A x \in Entry : x.value \in Values
      BY DEF Entry
    <3> QED
      BY <3>1, <3>2
  <2>7. Held(c) \in Seq(Values) /\ Len(Held(c)) = Len(s)
    BY <2>3, <2>5, <2>6
  <2>8. Held(c)' \in Seq(Values) /\ Len(Held(c)') = Len(s) - 1
    BY <2>4, <2>5, <2>6
  <2>9. /\ Tail(Held(c)) \in Seq(Values) /\ Len(Tail(Held(c))) = Len(s) - 1
        /\ \A i \in 1..(Len(s) - 1) : Tail(Held(c))[i] = Held(c)[i + 1]
    BY <2>5, <2>7
  <2>10. \A i \in 1..(Len(s) - 1) : Held(c)'[i] = Tail(Held(c))[i]
    BY <2>3, <2>4, <2>5, <2>9
  <2> QED
    BY <2>8, <2>9, <2>10, SeqSame
(* Other channels stop nobody here.                                        *)
<1>StoppedKept. ASSUME NEW r \in Reasons, \A s \in Reasons \ {r} : Waiting(s)' = Waiting(s),
                       r # <<"send", 1>>, r # <<"receive", 1>>
                PROVE  StoppedTasks' = StoppedTasks
  <2> USE <1>StoppedKept
  <2>1. <<"send", 1>> \in Reasons \ {r} /\ <<"receive", 1>> \in Reasons \ {r}
    BY FirstChannel, NotAReason
  <2>2. Waiting(<<"send", 1>>)' = Waiting(<<"send", 1>>)
    BY <2>1, Zenon
  <2>3. Waiting(<<"receive", 1>>)' = Waiting(<<"receive", 1>>)
    BY <2>1, Zenon
  <2>4. (StoppedTasks = Waiting(<<"send", 1>>) \cup Waiting(<<"receive", 1>>))'
    BY StoppedAre, PTL
  <2> QED
    BY <2>2, <2>3, <2>4, StoppedAre, Zenon
<1>FifoKept. ASSUME UNCHANGED channelVars, StoppedTasks' = StoppedTasks
             PROVE  UNCHANGED Fifo!vars
  <2> USE <1>FifoKept
  <2>1. UNCHANGED <<capacity, buffer, senders, receivers, got>>
    BY DEF channelVars
  <2> QED
    BY <2>1 DEF Fifo!vars, QueueItems, Held, SendersOf
(* coroutine_send on channel 1 puts its value, whichever branch it takes.  *)
<1>FifoPut. ASSUME ScopeInv, ScopeInv', NEW v \in Values, Send(1, v)
            PROVE  Fifo!Put(active, v)
  <2> USE <1>FifoPut
  <2>1. /\ pc = "run" /\ active \in Tasks /\ status[active] = "Running" /\ 1 \in Opened
        /\ Typed /\ Waits /\ OneSided /\ Registered /\ UNCHANGED capacity
    BY DEF Send, ScopeInv, QueueInv
  <2>3. pc' # "ended"
    BY <2>1 DEF Send, WakeOther, WakeTask, Fatal, BlockActive, BlockTask, Back, taskVars
  <2>4. (pc # "ended" /\ ScopeInv => StoppedTasks = Fifo!Elements(SendersOf(1)) \cup Fifo!Elements(receivers[1]))'
    BY StoppedListed, PTL
  <2>5. StoppedTasks' = Fifo!Elements(SendersOf(1)') \cup Fifo!Elements(receivers'[1])
    BY <2>3, <2>4 DEF Fifo!Elements
  <2>6. active \notin StoppedTasks
    <3>1. wait[active] = NoWait
      BY <2>1 DEF Registered
    <3>2. NoWait # <<"send", 1>> /\ NoWait # <<"receive", 1>>
      BY ZenonT(20), FirstChannel, NotAReason
    <3> QED
      BY <3>1, <3>2 DEF StoppedTasks
  <2>7. /\ capacity[1] \in Nat /\ capacity[1] > 0
        /\ buffer[1] \in Seq(Values) /\ Len(buffer[1]) \in Nat /\ Len(buffer[1]) <= capacity[1]
        /\ senders[1] # <<>> => Len(buffer[1]) = capacity[1] /\ receivers[1] = <<>>
        /\ receivers[1] # <<>> => buffer[1] = <<>>
        /\ receivers \in [Channels -> Seq(Tasks)] /\ buffer \in [Channels -> Seq(Values)]
    BY <2>1, FirstChannel DEF OneSided, Opened, Typed
  <2>8. /\ Held(1) \in Seq(Values) /\ Len(Held(1)) = Len(senders[1]) /\ Len(senders[1]) \in Nat
        /\ senders[1] = <<>> => Held(1) = <<>>
    BY <2>1, FirstChannel, <1>HeldType
  <2>9. QueueItems \in Seq(Values) /\ Len(QueueItems) = Len(buffer[1]) + Len(Held(1))
    BY <2>7, <2>8, SeqConcat DEF QueueItems
  <2>10. UNCHANGED senders => SendersOf(1)' = SendersOf(1) /\ Held(1)' = Held(1)
    BY DEF SendersOf, Held
  <2>11. IF receivers[1] # <<>>
         THEN /\ got' = [got EXCEPT ![Head(receivers[1])] = v]
              /\ receivers'[1] = Tail(receivers[1])
              /\ QueueItems' = QueueItems /\ SendersOf(1)' = SendersOf(1)
         ELSE /\ QueueItems' = Append(QueueItems, v)
              /\ SendersOf(1)' = IF Len(QueueItems) < capacity[1] THEN SendersOf(1)
                                 ELSE Append(SendersOf(1), active)
              /\ receivers'[1] = receivers[1] /\ got' = got
    <3>1. CASE receivers[1] # <<>>
      <4>1. /\ got' = [got EXCEPT ![Head(receivers[1])] = v]
            /\ receivers' = [receivers EXCEPT ![1] = Tail(receivers[1])] /\ UNCHANGED <<buffer, senders>>
        BY <3>1 DEF Send
      <4>2. receivers'[1] = Tail(receivers[1])
        BY <2>7, <4>1, FirstChannel
      <4>3. QueueItems' = QueueItems
        BY <2>10, <4>1 DEF QueueItems
      <4> QED
        BY <2>10, <3>1, <4>1, <4>2, <4>3
    <3>2. CASE receivers[1] = <<>> /\ Len(buffer[1]) < capacity[1]
      <4>1. buffer' = [buffer EXCEPT ![1] = Append(buffer[1], v)] /\ UNCHANGED <<receivers, senders, got>>
        BY <2>7, <3>2 DEF Send
      <4>2. Held(1) = <<>> /\ Held(1)' = <<>>
        BY <2>7, <2>8, <2>10, <3>2, <4>1
      <4>3. buffer'[1] = Append(buffer[1], v) /\ Append(buffer[1], v) \in Seq(Values)
        BY <2>7, <4>1, FirstChannel
      <4>4. QueueItems = buffer[1]
        BY <2>7, <4>2, ConcatEmpty, Zenon DEF QueueItems
      <4>5. QueueItems' = buffer'[1]
        BY <4>2, <4>3, ConcatEmpty, Zenon DEF QueueItems
      <4> QED
        BY <2>10, <3>2, <4>1, <4>3, <4>4, <4>5
    <3>3. CASE receivers[1] = <<>> /\ ~(Len(buffer[1]) < capacity[1])
      <4>1. /\ senders' = [senders EXCEPT ![1] = Append(senders[1], [task |-> active, value |-> v])]
            /\ UNCHANGED <<buffer, receivers, got>>
        BY <2>7, <3>3 DEF Send
      <4>2. SendersOf(1)' = Append(SendersOf(1), active)
        BY ZenonT(20), <2>1, <4>1, FirstChannel, SendersAppend
      <4>3. Held(1)' = Append(Held(1), v)
        BY ZenonT(20), <2>1, <4>1, FirstChannel, <1>HeldAppend
      <4>4. QueueItems' = buffer[1] \o Append(Held(1), v)
        BY ZenonT(20), <4>1, <4>3 DEF QueueItems
      <4>5. QueueItems' = Append(QueueItems, v)
        <5>1. PICK s, r : s = buffer[1] /\ r = Held(1)
          OBVIOUS
        <5>2. s \in Seq(Values) /\ r \in Seq(Values)
          BY <2>7, <2>8, <5>1
        <5>v. v \in Values
          OBVIOUS
        <5>3. s \o Append(r, v) = Append(s \o r, v)
          BY <5>2, <5>v, ConcatAppend
        <5>4. QueueItems = s \o r
          BY <5>1 DEF QueueItems
        <5> QED
          BY <4>4, <5>1, <5>3, <5>4, Zenon
      <4>6. ~(Len(QueueItems) < capacity[1])
        BY <2>7, <2>8, <2>9, <3>3
      <4> QED
        BY <3>3, <4>1, <4>2, <4>5, <4>6
    <3> QED
      BY <3>1, <3>2, <3>3
  <2> QED
    BY <2>1, <2>5, <2>6, <2>7, <2>11, Zenon DEF Fifo!Put, Fifo!Elements, QueueItems, StoppedTasks, Held
(* coroutine_receive on channel 1 gets the oldest value, or stops.         *)
<1>FifoGet. ASSUME ScopeInv, ScopeInv', Receive(1)
            PROVE  Fifo!Get(active)
  <2> USE <1>FifoGet
  <2>1. /\ pc = "run" /\ active \in Tasks /\ status[active] = "Running" /\ 1 \in Opened
        /\ Typed /\ Waits /\ OneSided /\ Registered /\ UNCHANGED capacity
    BY DEF Receive, ScopeInv, QueueInv
  <2>3. pc' # "ended"
    BY <2>1 DEF Receive, WakeOther, WakeTask, Fatal, BlockActive, BlockTask, Back, taskVars
  <2>4. (pc # "ended" /\ ScopeInv => StoppedTasks = Fifo!Elements(SendersOf(1)) \cup Fifo!Elements(receivers[1]))'
    BY StoppedListed, PTL
  <2>5. StoppedTasks' = Fifo!Elements(SendersOf(1)') \cup Fifo!Elements(receivers'[1])
    BY <2>3, <2>4 DEF Fifo!Elements
  <2>6. active \notin StoppedTasks
    <3>1. wait[active] = NoWait
      BY <2>1 DEF Registered
    <3>2. NoWait # <<"send", 1>> /\ NoWait # <<"receive", 1>>
      BY ZenonT(20), FirstChannel, NotAReason
    <3> QED
      BY <3>1, <3>2 DEF StoppedTasks
  <2>7. /\ capacity[1] \in Nat /\ capacity[1] > 0
        /\ buffer[1] \in Seq(Values) /\ Len(buffer[1]) \in Nat
        /\ senders[1] # <<>> => Len(buffer[1]) = capacity[1]
        /\ receivers \in [Channels -> Seq(Tasks)] /\ buffer \in [Channels -> Seq(Values)]
    BY <2>1, FirstChannel DEF OneSided, Opened, Typed
  <2>8. /\ Held(1) \in Seq(Values) /\ (senders[1] = <<>> => Held(1) = <<>>)
        /\ senders[1] # <<>> => Held(1) # <<>> /\ Head(Held(1)) = Head(senders[1]).value
        /\ senders[1] = <<>> => SendersOf(1) = <<>>
    BY <2>1, FirstChannel, <1>HeldType DEF SendersOf
  <2>9. UNCHANGED senders => SendersOf(1)' = SendersOf(1) /\ Held(1)' = Held(1)
    BY DEF SendersOf, Held
  <2>10. IF QueueItems # <<>>
         THEN /\ got' = [got EXCEPT ![active] = Head(QueueItems)]
              /\ QueueItems' = Tail(QueueItems)
              /\ SendersOf(1)' = IF SendersOf(1) = <<>> THEN <<>> ELSE Tail(SendersOf(1))
              /\ receivers'[1] = receivers[1]
         ELSE /\ got' = [got EXCEPT ![active] = Null]
              /\ receivers'[1] = Append(receivers[1], active)
              /\ QueueItems' = QueueItems /\ SendersOf(1)' = SendersOf(1)
    <3>1. CASE buffer[1] # <<>> /\ senders[1] = <<>>
      <4>1. /\ got' = [got EXCEPT ![active] = Head(buffer[1])]
            /\ buffer' = [buffer EXCEPT ![1] = Tail(buffer[1])] /\ UNCHANGED <<senders, receivers>>
        BY <3>1 DEF Receive
      <4>2. Held(1) = <<>> /\ Held(1)' = <<>> /\ SendersOf(1) = <<>> /\ SendersOf(1)' = <<>>
        BY <2>8, <2>9, <3>1, <4>1
      <4>3. buffer'[1] = Tail(buffer[1]) /\ Tail(buffer[1]) \in Seq(Values)
        BY <2>7, <3>1, <4>1, FirstChannel
      <4>4. QueueItems = buffer[1]
        BY <2>7, <4>2, ConcatEmpty, Zenon DEF QueueItems
      <4>5. QueueItems' = buffer'[1]
        BY <4>2, <4>3, ConcatEmpty, Zenon DEF QueueItems
      <4> QED
        BY <3>1, <4>1, <4>2, <4>3, <4>4, <4>5
    <3>2. CASE buffer[1] # <<>> /\ senders[1] # <<>>
      <4>1. /\ got' = [got EXCEPT ![active] = Head(buffer[1])]
            /\ buffer' = [buffer EXCEPT ![1] = Append(Tail(buffer[1]), Head(senders[1]).value)]
            /\ senders' = [senders EXCEPT ![1] = Tail(senders[1])] /\ UNCHANGED receivers
        BY <3>2 DEF Receive
      <4>2. SendersOf(1)' = Tail(SendersOf(1)) /\ SendersOf(1) # <<>>
        BY ZenonT(20), <2>1, <3>2, <4>1, FirstChannel, SendersTail
      <4>3. Held(1)' = Tail(Held(1)) /\ Held(1) # <<>> /\ Head(Held(1)) = Head(senders[1]).value
        BY ZenonT(20), <2>1, <2>8, <3>2, <4>1, FirstChannel, <1>HeldTail
      <4>4. buffer'[1] = Append(Tail(buffer[1]), Head(Held(1)))
        BY <2>7, <4>1, <4>3, FirstChannel
      <4>5. QueueItems' = Append(Tail(buffer[1]), Head(Held(1))) \o Tail(Held(1))
        BY <4>3, <4>4, Zenon DEF QueueItems
      <4>6. Tail(buffer[1]) \in Seq(Values)
        BY <2>7, <3>2
      <4>7. QueueItems' = Tail(buffer[1]) \o Held(1)
        BY <2>8, <4>3, <4>5, <4>6, ConcatShift, Zenon
      <4>8. QueueItems # <<>> /\ Head(QueueItems) = Head(buffer[1])
            /\ Tail(QueueItems) = Tail(buffer[1]) \o Held(1)
        BY <2>7, <2>8, <3>2, ConcatTail, Zenon DEF QueueItems
      <4> QED
        BY ZenonT(20), <4>1, <4>2, <4>7, <4>8
    <3>3. CASE buffer[1] = <<>>
      <4>1. /\ receivers' = [receivers EXCEPT ![1] = Append(receivers[1], active)]
            /\ got' = [got EXCEPT ![active] = Null] /\ UNCHANGED <<buffer, senders>>
        BY <3>3 DEF Receive
      <4>2. senders[1] = <<>>
        BY <2>7, <3>3
      <4>3. Held(1) = <<>>
        BY <2>8, <4>2
      <4>4. QueueItems = <<>>
        BY <2>7, <3>3, <4>3, ConcatEmpty, Zenon DEF QueueItems
      <4>5. QueueItems' = QueueItems
        BY <2>9, <4>1 DEF QueueItems
      <4>6. receivers'[1] = Append(receivers[1], active)
        BY <2>7, <4>1, FirstChannel
      <4> QED
        BY <2>9, <4>1, <4>4, <4>5, <4>6
    <3> QED
      BY <3>1, <3>2, <3>3
  <2> QED
    BY <2>1, <2>5, <2>6, <2>7, <2>10, Zenon DEF Fifo!Get, Fifo!Elements, QueueItems, StoppedTasks, Held
<1>FifoStutters. ASSUME Untouched, got' = got
                 PROVE  UNCHANGED Fifo!vars
    BY <1>FifoStutters DEF Untouched, Fifo!vars, QueueItems, Held, SendersOf
<1>FifoElsewhere. ASSUME Untouched, NEW u \in Tasks, NEW v \in Values \cup {Null}, u \notin StoppedTasks,
                         got' = [got EXCEPT ![u] = v]
                  PROVE  Fifo!Next
  <2> USE <1>FifoElsewhere
  <2>1. Fifo!Elsewhere(u, v)
    BY DEF Untouched, Fifo!Elsewhere, QueueItems, Held, SendersOf
  <2> QED
    BY <2>1 DEF Fifo!Next
<1>OtherReasons. ASSUME NEW c \in Channels \ {1}
                 PROVE  /\ <<"send", c>> \in Reasons /\ <<"receive", c>> \in Reasons
                        /\ {<<"send", c>>, <<"receive", c>>, NoWait, Timer}
                               \cap {<<"send", 1>>, <<"receive", 1>>} = {}
    BY <1>OtherReasons DEF Reasons, NoWait, Timer
<1>RunningIsNotStopped. ASSUME ScopeInv, pc = "run"
                        PROVE  active \in Tasks /\ active \notin StoppedTasks
  <2> USE <1>RunningIsNotStopped
  <2>1. active \in Tasks /\ status[active] = "Running" /\ Registered
    BY DEF ScopeInv, QueueInv
  <2>2. wait[active] = NoWait
    BY <2>1 DEF Registered
  <2>3. NoWait \notin {<<"send", 1>>, <<"receive", 1>>}
    BY DEF NoWait
  <2> QED
    BY <2>1, <2>2, <2>3 DEF StoppedTasks
(* Another channel wakes or blocks a task that channel 1 does not stop.    *)
<1>OtherWakes. ASSUME ScopeInv, pc = "run", NEW c \in Channels \ {1}, NEW k \in {"send", "receive"},
                      NEW w \in Tasks, w \in Waiting(<<k, c>>), WakeOther(w, <<k, c>>)
               PROVE  StoppedTasks' = StoppedTasks /\ w \notin StoppedTasks
  <2> USE <1>OtherWakes
  <2>1. PICK r : r = <<k, c>>
    OBVIOUS
  <2>2. r \in Reasons /\ r # <<"send", 1>> /\ r # <<"receive", 1>>
    BY ZenonT(20), <2>1, <1>OtherReasons
  <2>3. Typed /\ Waits /\ Registered /\ w \in Waiting(r) /\ WakeOther(w, r)
    BY <2>1 DEF ScopeInv, QueueInv
  <2>4. CanWake(w, r)
    BY <2>2, <2>3, WakeFacts, Zenon
  <2>5. WakeTask(w, r)
    BY <2>3, <2>4 DEF WakeOther
  <2>6. \A s \in Reasons \ {r} : Waiting(s)' = Waiting(s)
    BY <2>2, <2>3, <2>5, WakeFacts, Zenon
  <2>7. w \notin StoppedTasks
    BY <2>2, <2>3 DEF Waiting, StoppedTasks
  <2> QED
    BY <2>2, <2>6, <2>7, <1>StoppedKept, Zenon
<1>OtherBlocks. ASSUME ScopeInv, pc = "run", NEW r \in Reasons, r # <<"send", 1>>, r # <<"receive", 1>>,
                       BlockTask(active, r)
                PROVE  StoppedTasks' = StoppedTasks
  <2> USE <1>OtherBlocks
  <2>1. PICK t : t = active
    OBVIOUS
  <2>2. Typed /\ Waits /\ Registered /\ t \in Tasks /\ Blocks(t, r)
    BY <2>1 DEF ScopeInv, QueueInv, BlockTask, Blocks
  <2>3. \A s \in Reasons \ {r} : Waiting(s)' = Waiting(s)
    BY <2>2, BlockFacts, Zenon
  <2> QED
    BY <2>3, <1>StoppedKept, Zenon
<1>OtherSend. ASSUME ScopeInv, NEW c \in Channels \ {1}, NEW v \in Values, Send(c, v)
              PROVE  Fifo!Next \/ UNCHANGED Fifo!vars
  <2> USE <1>OtherSend
  <2>1. /\ pc = "run" /\ UNCHANGED capacity /\ Typed /\ OneSided /\ Registered
        /\ receivers \in [Channels -> Seq(Tasks)]
    BY ZenonT(20) DEF Send, ScopeInv, QueueInv, Typed
  <2>2. CASE receivers[c] # <<>>
    <3>1. PICK w : w = Head(receivers[c])
      OBVIOUS
    <3>2. /\ got' = [got EXCEPT ![w] = v] /\ WakeOther(w, <<"receive", c>>)
          /\ receivers' = [receivers EXCEPT ![c] = Tail(receivers[c])]
          /\ UNCHANGED <<buffer, senders>>
      BY <2>2, <3>1 DEF Send
    <3>3. w \in Tasks /\ w \in Waiting(<<"receive", c>>)
      <4>1. PICK q, T : q = receivers[c] /\ T = Waiting(<<"receive", c>>)
        OBVIOUS
      <4>2. Lists(q, Tasks, T) /\ q # <<>>
        BY <2>1, <2>2, <4>1 DEF Registered, InReceivers
      <4>3. Head(q) \in Tasks /\ Head(q) \in T
        BY ZenonT(20), <4>2, ListsTail
      <4> QED
        BY <3>1, <4>1, <4>3
    <3>4. StoppedTasks' = StoppedTasks /\ w \notin StoppedTasks
      BY ZenonT(20), <2>1, <3>2, <3>3, <1>OtherWakes
    <3>5. Untouched
      BY <2>1, <3>2, <3>4, FirstChannel DEF Untouched
    <3> QED
      BY <3>2, <3>3, <3>4, <3>5, <1>FifoElsewhere, Zenon
  <2>3. CASE receivers[c] = <<>> /\ Len(buffer[c]) < capacity[c]
    <3>1. /\ buffer' = [buffer EXCEPT ![c] = Append(buffer[c], v)]
          /\ UNCHANGED <<wait, receivers, senders, got>>
      <4>1. Len(buffer[c]) \in Nat /\ capacity[c] \in Nat
        BY <2>1 DEF OneSided
      <4> QED
        BY <2>3, <4>1 DEF Send, taskVars
    <3>2. Untouched
      BY <2>1, <3>1, FirstChannel DEF Untouched, StoppedTasks, OneSided
    <3> QED
      BY <3>1, <3>2, <1>FifoStutters
  <2>4. CASE receivers[c] = <<>> /\ ~(Len(buffer[c]) < capacity[c])
    <3>1. /\ senders' = [senders EXCEPT ![c] = Append(senders[c], [task |-> active, value |-> v])]
          /\ BlockTask(active, <<"send", c>>) /\ UNCHANGED <<buffer, receivers, got>>
      BY <2>4 DEF Send, BlockActive
    <3>2. StoppedTasks' = StoppedTasks
      BY ZenonT(20), <2>1, <3>1, <1>OtherReasons, <1>OtherBlocks
    <3>3. Untouched
      BY <2>1, <3>1, <3>2, FirstChannel DEF Untouched, Typed
    <3> QED
      BY <3>1, <3>3, <1>FifoStutters
  <2> QED
    BY <2>2, <2>3, <2>4, Zenon
<1>OtherReceive. ASSUME ScopeInv, NEW c \in Channels \ {1}, Receive(c)
                 PROVE  Fifo!Next \/ UNCHANGED Fifo!vars
  <2> USE <1>OtherReceive
  <2>1. /\ pc = "run" /\ UNCHANGED capacity /\ Typed /\ OneSided /\ Registered
        /\ receivers \in [Channels -> Seq(Tasks)] /\ buffer \in [Channels -> Seq(Values)]
        /\ senders \in [Channels -> Seq([task : Tasks, value : Values])]
    BY ZenonT(20) DEF Receive, ScopeInv, QueueInv, Typed, OneSided
  <2>2. active \in Tasks /\ active \notin StoppedTasks
    BY <2>1, <1>RunningIsNotStopped
  <2>3. CASE buffer[c] # <<>> /\ senders[c] = <<>>
    <3>1. /\ buffer' = [buffer EXCEPT ![c] = Tail(buffer[c])]
          /\ got' = [got EXCEPT ![active] = Head(buffer[c])] /\ UNCHANGED <<wait, receivers, senders>>
      BY <2>3 DEF Receive, taskVars
    <3>2. Head(buffer[c]) \in Values \cup {Null}
      BY <2>1, <2>3
    <3>3. Untouched
      BY <2>1, <3>1, FirstChannel DEF Untouched, StoppedTasks
    <3> QED
      BY <2>2, <3>1, <3>2, <3>3, <1>FifoElsewhere, Zenon
  <2>4. CASE buffer[c] # <<>> /\ senders[c] # <<>>
    <3>1. PICK w : w = Head(senders[c]).task
      OBVIOUS
    <3>2. /\ got' = [got EXCEPT ![active] = Head(buffer[c])] /\ WakeOther(w, <<"send", c>>)
          /\ buffer' = [buffer EXCEPT ![c] = Append(Tail(buffer[c]), Head(senders[c]).value)]
          /\ senders' = [senders EXCEPT ![c] = Tail(senders[c])]
          /\ UNCHANGED receivers
      BY <2>4, <3>1 DEF Receive
    <3>3. Head(buffer[c]) \in Values \cup {Null}
      BY <2>1, <2>4
    <3>4. w \in Tasks /\ w \in Waiting(<<"send", c>>)
      <4>1. PICK q, T : q = SendersOf(c) /\ T = Waiting(<<"send", c>>)
        OBVIOUS
      <4>2. Lists(q, Tasks, T)
        BY <2>1, <4>1 DEF Registered, InSenders
      <4>3. q # <<>> /\ Head(q) = w
        BY ZenonT(20), <2>1, <2>4, <3>1, <3>2, <4>1, SendersTail
      <4>4. Head(q) \in Tasks /\ Head(q) \in T
        BY ZenonT(20), <4>2, <4>3, ListsTail
      <4> QED
        BY <4>1, <4>3, <4>4
    <3>5. StoppedTasks' = StoppedTasks
      BY ZenonT(20), <2>1, <3>2, <3>4, <1>OtherWakes
    <3>6. Untouched
      BY <2>1, <3>2, <3>5, FirstChannel DEF Untouched
    <3> QED
      BY <2>2, <3>2, <3>3, <3>6, <1>FifoElsewhere, Zenon
  <2>5. CASE buffer[c] = <<>>
    <3>1. /\ receivers' = [receivers EXCEPT ![c] = Append(receivers[c], active)]
          /\ got' = [got EXCEPT ![active] = Null]
          /\ BlockTask(active, <<"receive", c>>) /\ UNCHANGED <<buffer, senders>>
      BY <2>5 DEF Receive, BlockActive
    <3>2. StoppedTasks' = StoppedTasks
      BY ZenonT(20), <2>1, <3>1, <1>OtherReasons, <1>OtherBlocks
    <3>3. Untouched
      BY <2>1, <3>1, <3>2, FirstChannel DEF Untouched
    <3>4. Null \in Values \cup {Null}
      OBVIOUS
    <3> QED
      BY <2>2, <3>1, <3>3, <3>4, <1>FifoElsewhere, Zenon
  <2> QED
    BY <2>3, <2>4, <2>5, Zenon
(* coroutine_channel opens the queue when it creates channel 1.            *)
<1>FifoOpens. ASSUME ScopeInv, CreateChannel
              PROVE  Fifo!Next \/ UNCHANGED Fifo!vars
  <2> USE <1>FifoOpens
  <2>1. PICK c \in Channels \ Opened, n \in 1..MaxCapacity :
            capacity' = [capacity EXCEPT ![c] = n] /\ UNCHANGED <<taskVars, buffer, senders, receivers, got>>
    BY ZenonT(20) DEF CreateChannel
  <2>2. UNCHANGED <<wait, buffer, senders, receivers, got>>
    BY <2>1 DEF taskVars
  <2>3. capacity \in [Channels -> Nat]
    BY DEF ScopeInv, OneSided
  <2>4. CASE c = 1
    <3>1. capacity[1] = 0 /\ capacity'[1] = n
      BY <2>1, <2>3, <2>4, FirstChannel DEF Opened
    <3>2. Fifo!Open
      BY <2>1, <2>2, <3>1 DEF Fifo!Open, QueueItems, StoppedTasks, Held, SendersOf
    <3> QED
      BY <3>2 DEF Fifo!Next
  <2>5. CASE c # 1
    <3>1. Untouched
      BY <2>1, <2>2, <2>3, <2>5, FirstChannel DEF Untouched, StoppedTasks
    <3> QED
      BY <2>2, <3>1, <1>FifoStutters
  <2> QED
    BY <2>4, <2>5, Zenon
<1>FifoCloses. ASSUME ScopeInv, ScopeInv', FinishScope, UNCHANGED channelVars
               PROVE  Fifo!Next
  <2> USE <1>FifoCloses
  <2>1. pc' = "ended"
    BY DEF FinishScope, FinishTasks
  <2>2. \A t \in Tasks : wait'[t] = NoWait
    BY <2>1 DEF ScopeInv, ScopeEndsClean
  <2>3. NoWait \notin {<<"send", 1>>, <<"receive", 1>>}
    BY DEF NoWait
  <2>4. UNCHANGED <<capacity, buffer, senders, receivers, got>>
    BY DEF channelVars
  <2>5. StoppedTasks' = {}
    BY <2>2, <2>3 DEF StoppedTasks
  <2>6. Fifo!Close
    BY <2>4, <2>5 DEF Fifo!Close, QueueItems, Held, SendersOf
  <2> QED
    BY <2>6 DEF Fifo!Next
<1>FifoRenews. ASSUME ScopeInv, NewScope
               PROVE  Fifo!Next
  <2> USE <1>FifoRenews
  <2>1. pc = "ended"
    BY DEF NewScope
  <2>2. \A t \in Tasks : wait[t] = NoWait
    BY <2>1 DEF ScopeInv, ScopeEndsClean
  <2>3. NoWait \notin {<<"send", 1>>, <<"receive", 1>>}
    BY DEF NoWait
  <2>4. StoppedTasks = {}
    BY <2>2, <2>3 DEF StoppedTasks
  <2>5. Init'
    BY DEF NewScope, NewTasks, Init, InitTasks, InitChannels
  <2>6. (Init => Fifo!Init)'
    BY FifoInit, PTL
  <2>7. Fifo!Init'
    BY <2>5, <2>6
  <2>8. Fifo!Renew
    BY <2>4, <2>7 DEF Fifo!Renew, Fifo!Init
  <2> QED
    BY <2>8 DEF Fifo!Next
<1> SUFFICES ASSUME ScopeInv, ScopeInv', [Next]_vars PROVE Fifo!Next \/ UNCHANGED Fifo!vars
  OBVIOUS
<1>1. ASSUME UNCHANGED <<wait, channelVars>> PROVE UNCHANGED Fifo!vars
  <2>1. StoppedTasks' = StoppedTasks
    BY <1>1 DEF StoppedTasks
  <2> QED
    BY <1>1, <2>1, <1>FifoKept
<1>2. CASE UNCHANGED vars
  BY <1>1, <1>2 DEF vars, taskVars
<1>3. CASE (Spawn \/ RefusedCall \/ Suspend) /\ UNCHANGED channelVars
  <2>1. UNCHANGED wait
    BY <1>3 DEF Spawn, RefusedCall, Suspend
  <2> QED
    BY <1>1, <1>3, <2>1
<1>4. CASE Sleep /\ UNCHANGED channelVars
  <2>1. pc = "run" /\ BlockTask(active, Timer)
    BY <1>4 DEF Sleep
  <2>2. Timer \in Reasons /\ Timer # <<"send", 1>> /\ Timer # <<"receive", 1>>
    BY DEF Reasons, Timer
  <2>3. StoppedTasks' = StoppedTasks
    BY <2>1, <2>2, <1>OtherBlocks
  <2> QED
    BY <1>4, <2>3, <1>FifoKept
<1>5. CASE FinishScope /\ UNCHANGED channelVars
  BY <1>5, <1>FifoCloses
<1>6. ASSUME NEW t \in Tasks, Resume(t) \/ Join(t) \/ JoinEnded(t) \/ JoinWaiting(t),
             UNCHANGED channelVars
      PROVE  UNCHANGED Fifo!vars
  <2>1. UNCHANGED wait
    BY <1>6 DEF Resume, Join, JoinEnded, JoinWaiting
  <2> QED
    BY <1>1, <1>6, <2>1
<1>7. CASE CreateChannel
  BY <1>7, <1>FifoOpens
<1>8. CASE TaskEnds
  <2>1. /\ pc = "run" /\ got' = [got EXCEPT ![active] = Null]
        /\ UNCHANGED <<wait, capacity, buffer, senders, receivers>>
    BY <1>8 DEF TaskEnds, Return
  <2>2. active \in Tasks /\ active \notin StoppedTasks
    BY <2>1, <1>RunningIsNotStopped
  <2>3. Untouched
    BY <2>1 DEF Untouched, StoppedTasks
  <2>4. Null \in Values \cup {Null}
    OBVIOUS
  <2> QED
    BY <2>1, <2>2, <2>3, <2>4, <1>FifoElsewhere, Zenon
<1>9. CASE NewScope
  BY <1>9, <1>FifoRenews
<1>10. ASSUME NEW c \in Channels, Receive(c) PROVE Fifo!Next \/ UNCHANGED Fifo!vars
  <2>1. CASE c = 1
    <3>1. pc = "run" /\ Receive(1)
      BY <1>10, <2>1 DEF Receive
    <3>2. active \in Tasks /\ Fifo!Get(active)
      BY <3>1, <1>RunningIsNotStopped, <1>FifoGet
    <3>3. \E u \in Tasks : Fifo!Get(u)
      BY <3>2, Zenon DEF Fifo!Get
    <3> QED
      BY <3>3 DEF Fifo!Next
  <2>2. CASE c # 1
    BY <1>10, <2>2, <1>OtherReceive
  <2> QED
    BY <2>1, <2>2, Zenon
<1>11. ASSUME NEW c \in Channels, NEW v \in Values, Send(c, v)
       PROVE  Fifo!Next \/ UNCHANGED Fifo!vars
  <2>1. CASE c = 1
    <3>1. pc = "run" /\ Send(1, v)
      BY <1>11, <2>1 DEF Send
    <3>2. active \in Tasks /\ Fifo!Put(active, v)
      BY <3>1, <1>RunningIsNotStopped, <1>FifoPut
    <3>3. \E u \in Tasks, x \in Values : Fifo!Put(u, x)
      BY <3>2, Zenon
    <3> QED
      BY <3>3 DEF Fifo!Next
  <2>2. CASE c # 1
    BY <1>11, <2>2, <1>OtherSend
  <2> QED
    BY <2>1, <2>2, Zenon
<1>12. CASE /\ JoinResume \/ JoinWait \/ JoinResult \/ JoinTwice \/ DrainDue \/ PopReady
               \/ SleepUntilDeadline \/ ReportDeadlock
            /\ UNCHANGED channelVars
  <2>1. UNCHANGED wait
    BY <1>12 DEF JoinResume, JoinWait, JoinResult, JoinTwice, DrainDue, PopReady,
                 SleepUntilDeadline, ReportDeadlock
  <2> QED
    BY <1>1, <1>12, <2>1
<1>13. CASE ExpireTimer /\ UNCHANGED channelVars
  <2>1. PICK t : t = Head(expired)
    OBVIOUS
  <2>2. CASE CanWake(t, Timer)
    <3>1. wait[t] = Timer /\ wait' = [wait EXCEPT ![t] = NoWait]
      BY <1>13, <2>1, <2>2 DEF ExpireTimer, CanWake, WakeTask
    <3>2. {Timer, NoWait} \cap {<<"send", 1>>, <<"receive", 1>>} = {}
      BY DEF Timer, NoWait
    <3>3. wait \in [Tasks -> Reasons \cup {NoWait}]
      BY DEF ScopeInv, Waits
    <3>4. StoppedTasks' = StoppedTasks
      BY ZenonT(20), <3>1, <3>2, <3>3 DEF StoppedTasks
    <3> QED
      BY <1>13, <3>4, <1>FifoKept
  <2>3. CASE ~CanWake(t, Timer)
    <3>1. UNCHANGED wait
      BY <1>13, <2>1, <2>3 DEF ExpireTimer
    <3> QED
      BY <1>1, <1>13, <3>1
  <2> QED
    BY <2>2, <2>3, Zenon
<1>14. CASE TimersDone \/ NothingReady
  <2>1. UNCHANGED <<wait, channelVars>>
    BY <1>14 DEF TimersDone, NothingReady
  <2> QED
    BY <1>1, <2>1
<1> QED
  <2>1. Next \/ UNCHANGED vars
    OBVIOUS
  <2>2. CASE Calls
    BY <2>2, <1>3, <1>4, <1>5, <1>6, <1>7, <1>8, <1>9, <1>10, <1>11, ZenonT(60) DEF Calls
  <2>3. CASE Drive
    BY <2>3, <1>12, <1>13, <1>14, ZenonT(60) DEF Drive
  <2> QED
    BY <2>1, <2>2, <2>3, <1>2, Zenon DEF Next

-----------------------------------------------------------------------------
(* The library's theorems are the last facts to come in: the lemmas above  *)
(* assume what they need of them.                                          *)
INSTANCE FiniteSetTheorems

INSTANCE NaturalsInduction

INSTANCE WellFoundedInduction

LEMMA NatHasLeast ==
    ASSUME NEW S, S \subseteq Nat, S # {}
    PROVE  \E m \in S : \A k \in S : m <= k
<1> DEFINE R == {ss \in Nat \X Nat : ss[1] < ss[2]}
<1>1. IsWellFoundedOn(R, Nat)
  BY NatLessThanWellFounded DEF OpToRel
<1>2. PICK x \in S : \A y \in S : ~ (<<y, x>> \in R)
  BY ZenonT(20), <1>1, WFMin
<1>3. \A y \in S : ~(y < x)
  BY ZenonT(20), <1>2
<1> QED
  BY <1>3

LEMMA CardinalityCounts == Counting
<1>1. \A S \in SUBSET Nat : S # {} => \E m \in S : \A k \in S : m <= k
  BY ZenonT(20), NatHasLeast
<1>2. \A a, b \in Int : /\ IsFiniteSet(a..b)
                        /\ Cardinality(a..b) = IF a > b THEN 0 ELSE b - a + 1
  BY FS_Interval
<1>3. ASSUME NEW S, IsFiniteSet(S)
      PROVE  /\ Cardinality(S) \in Nat
             /\ \A T \in SUBSET S : IsFiniteSet(T) /\ Cardinality(T) <= Cardinality(S)
             /\ \A x : /\ IsFiniteSet(S \cup {x}) /\ IsFiniteSet(S \ {x})
                       /\ x \notin S => Cardinality(S \cup {x}) = Cardinality(S) + 1
                       /\ x \in S => Cardinality(S \ {x}) = Cardinality(S) - 1
  <2>1. Cardinality(S) \in Nat
    BY <1>3, FS_CardinalityType
  <2>2. \A T \in SUBSET S : IsFiniteSet(T) /\ Cardinality(T) <= Cardinality(S)
    BY <1>3, FS_Subset
  <2>3. \A x : IsFiniteSet(S \cup {x}) /\ (x \notin S => Cardinality(S \cup {x}) = Cardinality(S) + 1)
    BY <1>3, FS_AddElement
  <2>4. \A x : IsFiniteSet(S \ {x}) /\ (x \in S => Cardinality(S \ {x}) = Cardinality(S) - 1)
    BY <1>3, FS_RemoveElement
  <2> QED
    BY <2>1, <2>2, <2>3, <2>4
<1> QED
  BY ZenonT(20), <1>1, <1>2, <1>3 DEF Counting

(* What the scheduler keeps true of every scope, for any number of tasks,  *)
(* channels and values: who waits is listed once, channels are one-sided,  *)
(* live tasks have the stacks.                                             *)
THEOREM ScopeInvariance == Spec => []ScopeInv
<1>1. Init => ScopeInv
  BY InitScopeInv, CardinalityCounts
<1>2. ScopeInv /\ [Next]_vars => ScopeInv'
  BY NextScopeInv, CardinalityCounts
<1> QED
  BY <1>1, <1>2, PTL DEF Spec

(* QueuedOnce for any number of tasks and channels: resume by name, wakes  *)
(* by channel operations and timers, and pop_ready leave the ready queue   *)
(* with each Created or Ready task once and no other; after a join that a  *)
(* task has called, with all but the one it popped.                        *)
THEOREM ReadyQueueIsExact == Spec => []QueuedOnce
<1>1. ScopeInv => QueuedOnce
  <2> SUFFICES ASSUME ScopeInv, pc # "ended" PROVE QueuedOnce
    BY DEF QueuedOnce
  <2>1. QueueInv /\ Driven
    BY DEF ScopeInv
  <2>2. \A listed : Lists(ready, Tasks, listed) =>
            \A t \in Tasks : Positions(t, ready) = IF t \in listed THEN 1 ELSE 0
    BY ListsPositions, CardinalityCounts DEF Positions
  <2>3. CASE error = "nested"
    <3>1. Nested
      BY <2>1, <2>3 DEF Driven, Nested
    <3>2. PICK t \in Queued : Lists(ready, Tasks, Queued \ {t})
      BY <2>1, <3>1, Zenon DEF QueueInv
    <3>3. \A u \in Tasks : Positions(u, ready) = IF u \in Queued \ {t} THEN 1 ELSE 0
      BY <2>2, <3>2
    <3>4. \E listed \in {Queued \ {x} : x \in Queued} :
              \A u \in Tasks : Positions(u, ready) = IF u \in listed THEN 1 ELSE 0
      BY <3>3, Zenon
    <3> QED
      BY <2>3, <3>4 DEF QueuedOnce
  <2>4. CASE error # "nested"
    <3>1. Lists(ready, Tasks, Queued)
      BY <2>1, <2>4 DEF QueueInv, Nested
    <3> QED
      BY <2>2, <2>4, <3>1, Zenon DEF QueuedOnce
  <2> QED
    BY <2>3, <2>4
<1> QED
  BY <1>1, ScopeInvariance, PTL

(* Every task that block_task makes wait is in exactly one list, the one   *)
(* its wait reason names, and wake_task never meets a task that does not   *)
(* wait for it: the error "inconsistent readiness state" cannot happen.    *)
THEOREM WaitersAreRegistered == Spec => []WaitersRegistered
<1>1. ScopeInv => WaitersRegistered
  <2> SUFFICES ASSUME ScopeInv PROVE WaitersRegistered
    OBVIOUS
  <2>1. error # "inconsistent"
    BY DEF ScopeInv, Driven
  <2>2. ASSUME pc # "ended", NEW t \in Tasks
        PROVE  /\ (status[t] = "Waiting") = (wait[t] # NoWait)
               /\ Positions(t, timers) + Positions(t, expired) = IF wait[t] = Timer THEN 1 ELSE 0
               /\ \A c \in Channels :
                   /\ Positions(t, SendersOf(c)) = IF wait[t] = <<"send", c>> THEN 1 ELSE 0
                   /\ Positions(t, receivers[c]) = IF wait[t] = <<"receive", c>> THEN 1 ELSE 0
    <3>1. Registered
      BY <2>2 DEF ScopeInv
    <3>2. (status[t] = "Waiting") = (wait[t] # NoWait)
      BY <3>1 DEF Registered
    <3>3. \A r : t \in Waiting(r) <=> wait[t] = r
      BY DEF Waiting
    <3>4. Positions(t, timers) + Positions(t, expired) = IF wait[t] = Timer THEN 1 ELSE 0
      <4>1. PICK due \in SUBSET Waiting(Timer) :
                 Lists(expired, Tasks, due) /\ Lists(timers, Tasks, Waiting(Timer) \ due)
        BY <3>1 DEF Registered, InTimers
      <4>2. Positions(t, expired) = IF t \in due THEN 1 ELSE 0
        BY <4>1, ListsPositions, CardinalityCounts DEF Positions
      <4>3. Positions(t, timers) = IF t \in Waiting(Timer) \ due THEN 1 ELSE 0
        BY <4>1, ListsPositions, CardinalityCounts DEF Positions
      <4> QED
        BY <3>3, <4>1, <4>2, <4>3
    <3>5. ASSUME NEW c \in Channels
          PROVE  /\ Positions(t, SendersOf(c)) = IF wait[t] = <<"send", c>> THEN 1 ELSE 0
                 /\ Positions(t, receivers[c]) = IF wait[t] = <<"receive", c>> THEN 1 ELSE 0
      <4>1. /\ Lists(SendersOf(c), Tasks, Waiting(<<"send", c>>))
            /\ Lists(receivers[c], Tasks, Waiting(<<"receive", c>>))
        BY <3>1 DEF Registered, InSenders, InReceivers
      <4>2. Positions(t, SendersOf(c)) = IF t \in Waiting(<<"send", c>>) THEN 1 ELSE 0
        BY <4>1, ListsPositions, CardinalityCounts DEF Positions
      <4>3. Positions(t, receivers[c]) = IF t \in Waiting(<<"receive", c>>) THEN 1 ELSE 0
        BY <4>1, ListsPositions, CardinalityCounts DEF Positions
      <4> QED
        BY <3>3, <4>2, <4>3
    <3> QED
      BY <3>2, <3>4, <3>5
  <2> QED
    BY <2>1, <2>2 DEF WaitersRegistered
<1> QED
  BY <1>1, ScopeInvariance, PTL

(* When join reports a deadlock no task of the scope can go on, however    *)
(* many tasks and channels it has: none is queued, running or asleep, and  *)
(* each waiting one stands before a full channel without receivers or an   *)
(* empty one without senders.                                              *)
THEOREM DeadlocksAreReal == Spec => []DeadlockIsReal
<1>1. ScopeInv => DeadlockIsReal
  <2> SUFFICES ASSUME ScopeInv, error = "deadlock", pc = "fatal", NEW t \in Tasks
               PROVE  /\ status[t] \notin {"Created", "Ready", "Running"}
                      /\ status[t] = "Waiting" =>
                          \E c \in Channels :
                              \/ wait[t] = <<"send", c>> /\ Len(buffer[c]) = capacity[c] /\ receivers[c] = <<>>
                              \/ wait[t] = <<"receive", c>> /\ buffer[c] = <<>> /\ senders[c] = <<>>
    BY DEF DeadlockIsReal
  <2>1. Registered /\ Driven /\ OneSided /\ Waits /\ QueueInv
    BY DEF ScopeInv
  <2>2. ready = <<>> /\ timers = <<>> /\ expired = <<>>
    BY <2>1 DEF Driven
  <2>3. t \notin Queued
    BY <2>1, <2>2 DEF QueueInv, Nested, Lists
  <2>4. status[t] \notin {"Created", "Ready", "Running"}
    BY <2>1, <2>3 DEF QueueInv, Driven, Queued, NoTask, Tasks
  <2>5. ASSUME status[t] = "Waiting"
        PROVE  \E c \in Channels :
                   \/ wait[t] = <<"send", c>> /\ Len(buffer[c]) = capacity[c] /\ receivers[c] = <<>>
                   \/ wait[t] = <<"receive", c>> /\ buffer[c] = <<>> /\ senders[c] = <<>>
    <3>1. wait[t] \in Reasons
      BY <2>1, <2>5 DEF Registered, Waits
    <3>2. wait[t] # Timer
      <4>1. PICK due \in SUBSET Waiting(Timer) :
                 Lists(expired, Tasks, due) /\ Lists(timers, Tasks, Waiting(Timer) \ due)
        BY <2>1 DEF Registered, InTimers
      <4>2. t \notin due /\ t \notin Waiting(Timer) \ due
        BY <2>2, <4>1 DEF Lists
      <4> QED
        BY <4>2 DEF Waiting
    <3>3. PICK c \in Channels : wait[t] = <<"send", c>> \/ wait[t] = <<"receive", c>>
      BY <3>1, <3>2 DEF Reasons
    <3>4. InSenders(c) /\ InReceivers(c)
      BY <2>1 DEF Registered
    <3>5. CASE wait[t] = <<"send", c>>
      <4>1. t \in Waiting(<<"send", c>>)
        BY <3>5 DEF Waiting
      <4>2. SendersOf(c) # <<>>
        BY <3>4, <4>1 DEF InSenders, Lists
      <4>3. senders[c] # <<>>
        BY <4>2 DEF SendersOf
      <4> QED
        BY <2>1, <3>5, <4>3 DEF OneSided
    <3>6. CASE wait[t] = <<"receive", c>>
      <4>1. t \in Waiting(<<"receive", c>>)
        BY <3>6 DEF Waiting
      <4>2. receivers[c] # <<>>
        BY <3>4, <4>1 DEF InReceivers, Lists
      <4> QED
        BY <2>1, <3>6, <4>2 DEF OneSided
    <3> QED
      BY <3>3, <3>5, <3>6
  <2> QED
    BY <2>4, <2>5
<1> QED
  BY <1>1, ScopeInvariance, PTL

(* finish_scope leaves no task live or waiting and no stack out of the     *)
(* pool, and raises the first failure nobody joined unless the root has an *)
(* exception of its own.                                                   *)
THEOREM ScopesEndClean == Spec => []ScopeEndsClean
<1>1. ScopeInv => ScopeEndsClean
  BY DEF ScopeInv
<1> QED
  BY <1>1, ScopeInvariance, PTL

(* A channel with the senders blocked on it is a bounded FIFO queue, among *)
(* any number of other channels that the same tasks use: coroutine_send    *)
(* and coroutine_receive deliver each value once and in order whichever of *)
(* their branches they take, and the tasks they leave Waiting are the      *)
(* stopped users of the queue.                                             *)
THEOREM ChannelRefinement == Spec => ImplementsFifo
<1>1. Init => Fifo!Init
  BY FifoInit
<1>2. ScopeInv /\ ScopeInv' /\ [Next]_vars => [Fifo!Next]_(Fifo!vars)
  BY FifoNext
<1> QED
  BY <1>1, <1>2, ScopeInvariance, PTL DEF Spec, ImplementsFifo, Fifo!Spec
=============================================================================
