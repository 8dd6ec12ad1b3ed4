------------------------- MODULE AppLifecycleProofs --------------------------
(***************************************************************************)
(* Proofs about the process life cycle and the notification worker, for    *)
(* every number of cards, queue size, number of retries and of changes.    *)
(***************************************************************************)
EXTENDS AppLifecycle, SequenceTheorems, TLAPS

(* A card number in the queue; the end marker is no card.                  *)
Queued(i) == i \in DOMAIN queue /\ queue[i] # None

(* The queue holds published cards in the order of their publication.      *)
QueueInOrder ==
    /\ \A i \in DOMAIN queue : queue[i] <= published
    /\ \A i, j \in DOMAIN queue : i < j /\ Queued(j) => queue[i] < queue[j]

(* The card in hand is the oldest that is left, and not done with.         *)
CardInHand ==
    /\ card # None <=> doing \in {"card", "text", "backoff"}
    /\ card # None => attempt < MaxRetries /\ status[card] = "open"
    /\ card <= published
    /\ \A i \in DOMAIN queue : Queued(i) => card < queue[i]

(* What is done with is older than everything the worker still has.        *)
DoneIsOlder ==
    \A c \in Cards : status[c] # "open" =>
        /\ c <= published
        /\ card # None => c < card
        /\ \A i \in DOMAIN queue : Queued(i) => c < queue[i]

WorkerInv == WorkerTypeOK /\ QueueInOrder /\ CardInHand /\ DoneIsOlder /\ NoCardLost

(* stop() begins when the clients are closed, and its end marker when the  *)
(* worker has nothing left.                                                *)
StopInv ==
    /\ stopping # "no" => closing = "closed"
    /\ stopping \in {"await", "closed"} =>
           card = None /\ \A i \in DOMAIN queue : queue[i] = None

(* close begins after run, and closes the clients after the coalescer.     *)
CloseInv ==
    /\ Stopped => phase = "returned"
    /\ closing \in {"closed", "broken"} => pc \in {"off", "ended"}

(* The inductive invariant.                                                *)
IInv == LifecycleTypeOK /\ WorkerInv /\ StopInv /\ CloseInv
-----------------------------------------------------------------------------
(* Every step of the worker's interface keeps WorkerInv.                   *)

LEMMA WorkerInitInv == WorkerInit => WorkerInv
<1>. SUFFICES ASSUME WorkerInit PROVE WorkerInv
  OBVIOUS
<1>1. DOMAIN queue = {} /\ Len(queue) = 0
  BY DEF WorkerInit
<1>2. WorkerTypeOK
  BY <1>1, NotificationAssumption DEF WorkerInit, WorkerTypeOK, Cards, None
<1>3. QueueInOrder /\ CardInHand /\ DoneIsOlder
  BY <1>1, NotificationAssumption
  DEF WorkerInit, QueueInOrder, CardInHand, DoneIsOlder, Queued, None
<1>4. NoCardLost
  BY DEF WorkerInit, NoCardLost, Finished, Cards
<1>5. QED
  BY <1>2, <1>3, <1>4 DEF WorkerInv

(* put_nowait: the new card is younger than every other.                   *)
LEMMA PublishInv ==
    ASSUME WorkerInv, Publish
    PROVE  WorkerInv'
<1>. DEFINE new == published + 1
<1>1. /\ published \in 0..MaxCards /\ published < MaxCards /\ published' = new
      /\ new \in Cards /\ queue \in Seq(Cards \cup {None}) /\ Len(queue) \in Nat
      /\ MaxCards \in Nat
  BY NotificationAssumption DEF WorkerInv, WorkerTypeOK, Publish, Cards
<1>2. status \in [Cards -> {"open", "accepted", "settled"}] /\ status[new] = "open"
  BY <1>1 DEF WorkerInv, WorkerTypeOK, DoneIsOlder
<1>3. \A i \in DOMAIN queue : queue[i] \in Int /\ queue[i] < new
  BY <1>1 DEF WorkerInv, QueueInOrder, Cards, None
<1>4. card \in Int /\ card < new
  BY <1>1 DEF WorkerInv, WorkerTypeOK, CardInHand, Cards, None
<1>5. CASE Len(queue) < QueueSize /\ queue' = Append(queue, new) /\ UNCHANGED dropped
  <2>1. /\ queue' \in Seq(Cards \cup {None}) /\ Len(queue') = Len(queue) + 1
        /\ DOMAIN queue' = 1..(Len(queue) + 1) /\ DOMAIN queue = 1..Len(queue)
        /\ queue'[Len(queue) + 1] = new
        /\ \A i \in DOMAIN queue : queue'[i] = queue[i]
    BY <1>1, <1>5
  <2>2. WorkerTypeOK'
    BY <1>1, <1>5, <2>1, NotificationAssumption DEF WorkerInv, WorkerTypeOK, Publish
  <2>3. QueueInOrder'
    <3>1. ASSUME NEW i \in DOMAIN queue' PROVE queue'[i] <= new
      BY <3>1, <1>1, <1>3, <2>1
    <3>2. ASSUME NEW i \in DOMAIN queue', NEW j \in DOMAIN queue', i < j, Queued(j)'
          PROVE  queue'[i] < queue'[j]
      <4>1. i \in DOMAIN queue
        BY <3>2, <1>1, <2>1
      <4>2. CASE j \in DOMAIN queue
        BY <3>2, <4>1, <4>2, <2>1 DEF WorkerInv, QueueInOrder, Queued
      <4>3. CASE j = Len(queue) + 1
        BY <4>1, <4>3, <1>3, <2>1
      <4>4. QED
        BY <4>2, <4>3, <3>2, <1>1, <2>1
    <3>3. QED
      BY <3>1, <3>2, <1>1 DEF QueueInOrder
  <2>4. CardInHand' /\ DoneIsOlder'
    <3>1. \A i \in DOMAIN queue' : Queued(i)' => Queued(i) \/ queue'[i] = new
      BY <1>1, <2>1 DEF Queued
    <3>2. CardInHand'
      BY <3>1, <1>1, <1>4, <2>1 DEF WorkerInv, CardInHand, Publish, Queued
    <3>3. DoneIsOlder'
      BY <3>1, <1>1, <2>1 DEF WorkerInv, DoneIsOlder, Publish, Cards, Queued
    <3>4. QED
      BY <3>2, <3>3
  <2>5. NoCardLost'
    <3>1. SUFFICES ASSUME NEW c \in Cards, Finished(c)', c \notin dropped'
                   PROVE  status'[c] # "open"
      BY DEF NoCardLost
    <3>2. c # new
      BY <3>1, <2>1, <1>1 DEF Finished
    <3>3. Finished(c)
      BY <3>1, <3>2, <2>1, <1>1 DEF Finished, Publish, Cards
    <3>4. QED
      BY <3>1, <3>3, <1>5 DEF WorkerInv, NoCardLost, Publish
  <2>6. QED
    BY <2>2, <2>3, <2>4, <2>5 DEF WorkerInv
<1>6. CASE dropped' = dropped \cup {new} /\ UNCHANGED queue
  <2>1. WorkerTypeOK'
    BY <1>1, <1>6, NotificationAssumption DEF WorkerInv, WorkerTypeOK, Publish, Cards
  <2>2. QueueInOrder' /\ CardInHand'
    <3>1. QueueInOrder'
      BY <1>1, <1>3, <1>6 DEF WorkerInv, QueueInOrder, Queued, Publish
    <3>2. CardInHand'
      BY <1>1, <1>4, <1>6 DEF WorkerInv, CardInHand, Queued, Publish
    <3>3. QED
      BY <3>1, <3>2
  <2>3. DoneIsOlder'
    BY <1>1, <1>6 DEF WorkerInv, DoneIsOlder, Queued, Publish, Cards
  <2>4. NoCardLost'
    BY <1>1, <1>6 DEF WorkerInv, NoCardLost, Finished, Publish, Cards
  <2>5. QED
    BY <2>1, <2>2, <2>3, <2>4 DEF WorkerInv
<1>7. QED
  BY <1>1, <1>5, <1>6 DEF Publish

(* The oldest card is taken out of the queue.                              *)
LEMMA GetInv ==
    ASSUME WorkerInv, Get
    PROVE  WorkerInv'
<1>1. /\ queue \in Seq(Cards \cup {None}) /\ queue # <<>> /\ Len(queue) \in Nat
      /\ card' = queue[1] /\ queue' = Tail(queue)
      /\ card' \in Cards \cup {None} /\ published \in Nat /\ QueueSize \in Nat
  BY NotificationAssumption DEF WorkerInv, WorkerTypeOK, Get
<1>2. /\ queue' \in Seq(Cards \cup {None}) /\ Len(queue') = Len(queue) - 1
      /\ DOMAIN queue' = 1..(Len(queue) - 1) /\ DOMAIN queue = 1..Len(queue)
      /\ \A i \in DOMAIN queue' : queue'[i] = queue[i + 1] /\ i + 1 \in DOMAIN queue
      /\ 1 \in DOMAIN queue
  BY <1>1
<1>3. card = None
  BY DEF Get, WorkerInv, CardInHand
<1>4. WorkerTypeOK'
  BY <1>1, <1>2, NotificationAssumption DEF WorkerInv, WorkerTypeOK, Get
<1>5. \A i \in DOMAIN queue' : Queued(i)' => Queued(i + 1)
  BY <1>2 DEF Queued
<1>6. QueueInOrder'
  BY <1>1, <1>2, <1>5 DEF WorkerInv, QueueInOrder, Get
<1>7. CardInHand'
  <2>1. \A i \in DOMAIN queue' : Queued(i)' => card' < queue'[i]
    BY <1>1, <1>2, <1>5 DEF WorkerInv, QueueInOrder
  <2>2. card' # None => Queued(1) /\ status[card'] = "open"
    <3>1. SUFFICES ASSUME card' # None PROVE Queued(1) /\ status[card'] = "open"
      OBVIOUS
    <3>2. Queued(1) /\ card' \in Cards
      BY <3>1, <1>1, <1>2 DEF Queued
    <3>3. ~(card' < card')
      BY <3>2 DEF Cards
    <3>4. QED
      BY <3>2, <3>3, <1>1, <1>2 DEF WorkerInv, DoneIsOlder
  <2>3. card' <= published'
    BY <1>1, <1>2 DEF WorkerInv, QueueInOrder, Get
  <2>4. card' # None <=> doing' \in {"card", "text", "backoff"}
    BY DEF Get
  <2>5. card' # None => attempt' < MaxRetries
    BY NotificationAssumption DEF Get
  <2>6. QED
    BY <2>1, <2>2, <2>3, <2>4, <2>5 DEF CardInHand, Get
<1>8. DoneIsOlder'
  BY <1>1, <1>2, <1>5 DEF WorkerInv, DoneIsOlder, Queued, Get
<1>9. NoCardLost'
  <2>1. SUFFICES ASSUME NEW c \in Cards, Finished(c)', c \notin dropped'
                 PROVE  status'[c] # "open"
    BY DEF NoCardLost
  <2>2. ASSUME NEW i \in DOMAIN queue PROVE queue[i] # c
    <3>1. CASE i = 1
      BY <2>1, <3>1, <1>1 DEF Finished
    <3>2. CASE i # 1
      <4>1. i - 1 \in DOMAIN queue' /\ queue'[i - 1] = queue[i]
        BY <3>2, <1>1, <1>2
      <4>2. QED
        BY <4>1, <2>1 DEF Finished
    <3>3. QED
      BY <3>1, <3>2
  <2>3. Finished(c)
    BY <2>1, <2>2, <1>3 DEF Finished, Get, Cards, None
  <2>4. QED
    BY <2>1, <2>3 DEF WorkerInv, NoCardLost, Get
<1>10. QED
  BY <1>4, <1>6, <1>7, <1>8, <1>9 DEF WorkerInv

(* One post.  Either the worker keeps the card, and it stays open, or it   *)
(* lets go of the card, and what became of it is known.                    *)
LEMMA PostInv ==
    ASSUME WorkerInv, Post
    PROVE  WorkerInv'
<1>1. PICK reply \in Replies : status' = [status EXCEPT ![card] = CameTo(reply)] /\ After(reply)
  BY DEF Post
<1>2. /\ doing \in {"card", "text"} /\ card # None /\ card \in Cards
      /\ attempt \in 0..MaxRetries /\ attempt < MaxRetries /\ MaxRetries \in Nat
      /\ status \in [Cards -> {"open", "accepted", "settled"}]
      /\ UNCHANGED <<queue, published, dropped, stopping>>
  BY NotificationAssumption DEF WorkerInv, WorkerTypeOK, CardInHand, Post
<1>3. \A c \in Cards : c # card => status'[c] = status[c]
  BY <1>1, <1>2
<1>4. CameTo(reply) \in {"open", "accepted", "settled"} /\ status'[card] = CameTo(reply)
  BY <1>1, <1>2 DEF CameTo
<1>5. WorkerTypeOK'
  <2>1. status' \in [Cards -> {"open", "accepted", "settled"}]
    BY <1>1, <1>2, <1>4
  <2>2. /\ doing' \in {"get", "card", "text", "backoff", "ended"}
        /\ card' \in Cards \cup {None} /\ attempt' \in 0..MaxRetries
    BY <1>1, <1>2 DEF After, TryAgain, Done
  <2>3. QED
    BY <2>1, <2>2, <1>2 DEF WorkerInv, WorkerTypeOK
<1>6. QueueInOrder'
  BY <1>2 DEF WorkerInv, QueueInOrder, Queued
<1>7. CASE card' = card
  <2>1. /\ doing' \in {"text", "backoff"} /\ attempt' < MaxRetries
        /\ CameTo(reply) = "open"
    BY <1>1, <1>2, <1>7 DEF After, TryAgain, Done, CameTo
  <2>2. CardInHand'
    BY <2>1, <1>2, <1>4, <1>7 DEF WorkerInv, CardInHand, Queued
  <2>3. DoneIsOlder'
    BY <2>1, <1>2, <1>3, <1>4, <1>7 DEF WorkerInv, DoneIsOlder, Queued
  <2>4. NoCardLost'
    BY <1>2, <1>3, <1>7 DEF WorkerInv, NoCardLost, Finished
  <2>5. QED
    BY <1>5, <1>6, <2>2, <2>3, <2>4 DEF WorkerInv
<1>8. CASE card' = None /\ doing' = "get"
  <2>1. CameTo(reply) # "open"
    BY <1>1, <1>2, <1>8 DEF After, TryAgain, CameTo, Done, Replies
  <2>2. /\ published \in Nat /\ card <= published
        /\ \A i \in DOMAIN queue : Queued(i) => queue[i] \in Cards /\ card < queue[i]
    BY DEF WorkerInv, WorkerTypeOK, CardInHand, Queued
  <2>3. CardInHand'
    BY <2>2, <1>2, <1>8 DEF CardInHand, Queued, Cards, None
  <2>4. DoneIsOlder'
    BY <2>2, <1>2, <1>3, <1>8 DEF WorkerInv, DoneIsOlder, Queued, Cards
  <2>5. NoCardLost'
    BY <2>1, <1>2, <1>3, <1>4, <1>8 DEF WorkerInv, NoCardLost, Finished
  <2>6. QED
    BY <1>5, <1>6, <2>3, <2>4, <2>5 DEF WorkerInv
<1>9. QED
  BY <1>1, <1>7, <1>8 DEF After, TryAgain, Done

(* The steps that touch neither a card nor its history.                    *)
LEMMA BackoffInv ==
    ASSUME WorkerInv, BackoffEnds
    PROVE  WorkerInv'
BY DEF WorkerInv, WorkerTypeOK, QueueInOrder, CardInHand, DoneIsOlder, NoCardLost,
       Finished, Queued, BackoffEnds

LEMMA StoppingInv ==
    ASSUME WorkerInv, Stop \/ CloseNotifier \/ UNCHANGED workerVars
    PROVE  WorkerInv'
BY DEF WorkerInv, WorkerTypeOK, QueueInOrder, CardInHand, DoneIsOlder, NoCardLost,
       Finished, Queued, Stop, CloseNotifier, workerVars

(* The end marker enters an empty queue.                                   *)
LEMMA JoinedInv ==
    ASSUME WorkerInv, Joined
    PROVE  WorkerInv'
<1>1. /\ queue' = <<None>> /\ DOMAIN queue' = {1} /\ queue'[1] = None /\ Len(queue') = 1
      /\ queue' \in Seq(Cards \cup {None}) /\ DOMAIN queue = {} /\ published \in Nat
  BY DEF Joined, WorkerInv, WorkerTypeOK
<1>2. WorkerTypeOK'
  BY <1>1, NotificationAssumption DEF WorkerInv, WorkerTypeOK, Joined
<1>3. QueueInOrder' /\ CardInHand' /\ DoneIsOlder'
  BY <1>1 DEF WorkerInv, QueueInOrder, CardInHand, DoneIsOlder, Queued, Joined, None
<1>4. NoCardLost'
  BY <1>1 DEF WorkerInv, NoCardLost, Finished, Joined
<1>5. QED
  BY <1>2, <1>3, <1>4 DEF WorkerInv

-----------------------------------------------------------------------------
(* The inductive invariant of the whole program.                           *)

LEMMA InitInv == LifecycleInit => IInv
<1>. SUFFICES ASSUME LifecycleInit PROVE IInv
  OBVIOUS
<1>1. WorkerInv
  BY WorkerInitInv DEF LifecycleInit
<1>2. LifecycleTypeOK
  <2>1. event \in BOOLEAN /\ pc = "off" /\ closing = "no" /\ phase = "start"
    BY DEF LifecycleInit, CoalescerInit
  <2>2. world \in 0..MaxChanges /\ read \in 0..world /\ early \in 0..world
    BY CoalescerAssumption DEF LifecycleInit, CoalescerInit, StreamInit
  <2>3. exchange \in Exchanges /\ interval \in BOOLEAN /\ inbox \in BOOLEAN /\ ~inbox
    BY DEF LifecycleInit, StreamInit
  <2>4. link = "off" /\ known \in BOOLEAN
    BY DEF LifecycleInit, StreamInit
  <2>5. missed \in 0..world /\ faults \in 0..MaxFaults
    BY CoalescerAssumption DEF LifecycleInit, CoalescerInit
  <2>6. CoalescerTypeOK /\ StreamTypeOK
    BY <2>1, <2>2, <2>3, <2>4, <2>5 DEF CoalescerTypeOK, StreamTypeOK
  <2>7. QED
    BY <1>1, <2>1, <2>4, <2>6 DEF LifecycleTypeOK, WorkerInv
<1>3. StopInv /\ CloseInv
  BY DEF LifecycleInit, CoalescerInit, WorkerInit, StopInv, CloseInv, Stopped
<1>4. QED
  BY <1>1, <1>2, <1>3 DEF IInv

(* The steps of run.                                                       *)
LEMMA RunStepInv ==
    ASSUME IInv, RunStep
    PROVE  IInv'
<1>1. CASE StartUpEnds \/ FirstRoundEnds \/ RunReturns
  <2>1. UNCHANGED workerVars /\ UNCHANGED <<coalescerVars, streamVars>>
    BY <1>1 DEF StartUpEnds, FirstRoundEnds, RunReturns, backgroundVars
  <2>2. WorkerInv'
    BY <2>1, StoppingInv DEF IInv
  <2>3. LifecycleTypeOK'
    BY <1>1, <2>1, <2>2
    DEF IInv, WorkerInv, LifecycleTypeOK, CoalescerTypeOK, StreamTypeOK, StartUpEnds,
        FirstRoundEnds, RunReturns, coalescerVars, roundVars, streamVars, Stopped
  <2>4. StopInv' /\ CloseInv'
    BY <1>1, <2>1 DEF IInv, StopInv, CloseInv, Stopped, StartUpEnds, FirstRoundEnds,
                      RunReturns, coalescerVars, roundVars, workerVars
  <2>5. QED
    BY <2>2, <2>3, <2>4 DEF IInv
<1>2. CASE StartUp
  <2>1. WorkerInv'
    BY <1>2, PublishInv DEF StartUp, IInv
  <2>2. LifecycleTypeOK'
    BY <1>2, <2>1, CoalescerAssumption
    DEF IInv, WorkerInv, LifecycleTypeOK, CoalescerTypeOK, StreamTypeOK, StartUp,
        streamVars, Stopped
  <2>3. StopInv' /\ CloseInv'
    BY <1>2 DEF IInv, LifecycleTypeOK, CoalescerTypeOK, StopInv, CloseInv, Stopped,
                StartUp, Publish
  <2>4. QED
    BY <2>1, <2>2, <2>3 DEF IInv
<1>3. CASE StartTasks
  <2>1. WorkerInv'
    BY <1>3, StoppingInv DEF StartTasks, IInv
  <2>2. LifecycleTypeOK'
    BY <1>3, <2>1
    DEF IInv, WorkerInv, LifecycleTypeOK, CoalescerTypeOK, StreamTypeOK, CloseInv,
        StartTasks, StartCoalescer, StartStream, fixedStream, Stopped, roundVars
  <2>3. StopInv' /\ CloseInv'
    BY <1>3 DEF IInv, StopInv, CloseInv, LifecycleTypeOK, CoalescerTypeOK, Stopped,
                StartTasks, StartCoalescer, workerVars
  <2>4. QED
    BY <2>1, <2>2, <2>3 DEF IInv
<1>4. QED
  BY <1>1, <1>2, <1>3 DEF RunStep

(* A card can be published only while a round may run, and none can once   *)
(* the notifications are being stopped.                                    *)
LEMMA RoundPublishesInv ==
    ASSUME IInv, RoundPublishes
    PROVE  IInv'
<1>1. WorkerInv'
  BY PublishInv DEF RoundPublishes, IInv
<1>2. stopping = "no"
  BY DEF RoundPublishes, IInv, StopInv, CloseInv, Stopped
<1>3. LifecycleTypeOK'
  BY <1>1 DEF IInv, WorkerInv, LifecycleTypeOK, CoalescerTypeOK, StreamTypeOK, RoundPublishes,
              backgroundVars, coalescerVars, roundVars, streamVars, Stopped
<1>4. StopInv' /\ CloseInv'
  BY <1>2 DEF IInv, StopInv, CloseInv, Stopped, RoundPublishes, Publish, backgroundVars,
              coalescerVars, roundVars
<1>5. QED
  BY <1>1, <1>3, <1>4 DEF IInv

LEMMA CloseStepInv ==
    ASSUME IInv, CloseStep
    PROVE  IInv'
<1>1. UNCHANGED phase
  BY DEF CloseStep
<1>2. CASE CloseCoalescer \/ CloseTasks
  <2>1. UNCHANGED workerVars
    BY <1>2 DEF CloseCoalescer, CloseTasks
  <2>2. WorkerInv'
    BY <2>1, StoppingInv DEF IInv
  <2>3. LifecycleTypeOK'
    <3>1. CoalescerTypeOK'
      BY <1>2 DEF IInv, LifecycleTypeOK, CoalescerTypeOK, CloseCoalescer, StopCoalescer,
                  CloseTasks, CloseClients, Stopped, roundVars
    <3>2. StreamTypeOK'
      <4>1. UNCHANGED <<world, exchange, interval, known, early>>
        BY <1>2 DEF CloseCoalescer, StopCoalescer, CloseTasks, CloseClients, fixedStream,
                    streamVars
      <4>2. UNCHANGED <<inbox, link>> \/ (inbox' = FALSE /\ link' = "off")
        BY <1>2 DEF CloseCoalescer, CloseTasks, streamVars
      <4>3. inbox' \in BOOLEAN /\ (inbox' => link' = "live")
        <5>1. CASE UNCHANGED <<inbox, link>>
          BY <5>1 DEF IInv, LifecycleTypeOK, StreamTypeOK
        <5>2. CASE inbox' = FALSE /\ link' = "off"
          BY <5>2
        <5>3. QED
          BY <4>2, <5>1, <5>2
      <4>4. link' \in {"off", "down", "asked", "live", "deaf"}
        BY <4>2 DEF IInv, LifecycleTypeOK, StreamTypeOK
      <4>5. QED
        BY <4>1, <4>3, <4>4 DEF IInv, LifecycleTypeOK, StreamTypeOK
    <3>3. link' # "off" => pc' # "off" /\ closing' \in {"no", "requested", "stopping"}
      BY <1>2 DEF IInv, LifecycleTypeOK, CloseCoalescer, StopCoalescer, CloseTasks, streamVars
    <3>4. UNCHANGED pc
      BY <1>2 DEF CloseCoalescer, StopCoalescer, CloseTasks, CloseClients
    <3>5. QED
      BY <1>1, <2>2, <3>1, <3>2, <3>3, <3>4 DEF IInv, LifecycleTypeOK, WorkerInv
  <2>4. StopInv' /\ CloseInv'
    BY <1>1, <1>2, <2>1
    DEF IInv, StopInv, CloseInv, CloseCoalescer, StopCoalescer, CloseTasks, CloseClients,
        workerVars, Stopped
  <2>5. QED
    BY <2>2, <2>3, <2>4 DEF IInv
<1>3. CASE StopNotifications
  <2>1. WorkerInv'
    BY <1>3, StoppingInv DEF IInv, StopNotifications
  <2>2. LifecycleTypeOK' /\ CloseInv'
    BY <1>1, <1>3, <2>1
    DEF IInv, WorkerInv, LifecycleTypeOK, CoalescerTypeOK, StreamTypeOK, CloseInv,
        StopNotifications, backgroundVars, coalescerVars, roundVars, streamVars, Stopped
  <2>3. StopInv'
    BY <1>3 DEF StopInv, StopNotifications, Stop, backgroundVars, coalescerVars, roundVars
  <2>4. QED
    BY <2>1, <2>2, <2>3 DEF IInv
<1>4. QED
  BY <1>2, <1>3 DEF CloseStep

(* The types under the steps of the tasks, the leader and the network.     *)
BackgroundStep ==
    \/ CoalescerStep /\ UNCHANGED streamVars
    \/ StreamStep \/ Interval \/ Change \/ Disconnect
    \/ RequestStop /\ UNCHANGED streamVars

LEMMA CoalescerStepTyped ==
    ASSUME CoalescerTypeOK, BackgroundStep
    PROVE  CoalescerTypeOK'
<1>1. CASE Wake \/ Debounced
  BY <1>1 DEF CoalescerTypeOK, Wake, Debounced, Stopped, roundVars
<1>2. CASE BeginRound
  BY <1>2 DEF CoalescerTypeOK, BeginRound, NextPc, Stopped, AppStopped
<1>3. CASE ReadFails \/ FinishRound
  BY <1>3, CoalescerAssumption
  DEF CoalescerTypeOK, ReadFails, FinishRound, NextPc, Stopped, AppStopped, roundVars
<1>4. CASE Connect
  BY <1>4 DEF CoalescerTypeOK, Connect, Trigger, Stopped, roundVars
<1>5. CASE Subscribed \/ Disconnect
  BY <1>5, CoalescerAssumption DEF CoalescerTypeOK, Subscribed, Disconnect, Stopped, roundVars
<1>6. CASE Receive \/ Interval
  BY <1>6 DEF CoalescerTypeOK, Receive, Interval, Trigger, Stopped, roundVars
<1>7. CASE Change
  BY <1>7, CoalescerAssumption DEF CoalescerTypeOK, Change, Stopped, roundVars
<1>8. CASE RequestStop
  BY <1>8 DEF CoalescerTypeOK, RequestStop, Stopped, roundVars
<1>9. QED
  BY <1>1, <1>2, <1>3, <1>4, <1>5, <1>6, <1>7, <1>8
  DEF BackgroundStep, CoalescerStep, StreamStep

LEMMA StreamStepTyped ==
    ASSUME CoalescerTypeOK, StreamTypeOK, BackgroundStep
    PROVE  StreamTypeOK'
<1>1. CASE CoalescerStep /\ UNCHANGED streamVars
  <2>1. UNCHANGED world
    BY <1>1 DEF CoalescerStep, Wake, Debounced, BeginRound, ReadFails, FinishRound
  <2>2. QED
    BY <1>1, <2>1 DEF StreamTypeOK, CoalescerTypeOK, streamVars
<1>2. CASE Connect
  BY <1>2 DEF StreamTypeOK, CoalescerTypeOK, Connect, Trigger, fixedStream
<1>3. CASE Subscribed
  <2>1. inbox = FALSE
    BY <1>3 DEF StreamTypeOK, Subscribed
  <2>2. inbox' \in BOOLEAN
    BY <1>3 DEF StreamTypeOK, Subscribed
  <2>3. inbox' => link' = "live"
    BY <1>3, <2>1 DEF Subscribed
  <2>4. /\ UNCHANGED <<world, exchange, interval, known, early>>
        /\ link' \in {"live", "deaf"}
    BY <1>3 DEF Subscribed, fixedStream
  <2>5. QED
    BY <2>2, <2>3, <2>4 DEF StreamTypeOK
<1>4. CASE Receive
  BY <1>4 DEF StreamTypeOK, CoalescerTypeOK, Receive, Trigger, fixedStream
<1>5. CASE Interval
  BY <1>5 DEF StreamTypeOK, CoalescerTypeOK, Interval, Trigger, streamVars
<1>6. CASE RequestStop /\ UNCHANGED streamVars
  BY <1>6 DEF StreamTypeOK, CoalescerTypeOK, RequestStop, streamVars
<1>7. CASE Change
  <2>1. inbox' \in BOOLEAN /\ (inbox' => link' = "live")
    BY <1>7 DEF StreamTypeOK, Change
  <2>2. world' \in Nat /\ early' \in 0..world'
    BY <1>7, CoalescerAssumption DEF StreamTypeOK, CoalescerTypeOK, Change
  <2>3. QED
    BY <1>7, <2>1, <2>2 DEF StreamTypeOK, Change, fixedStream
<1>8. CASE Disconnect
  <2>1. inbox' = FALSE /\ link' = "down"
    BY <1>8 DEF Disconnect
  <2>2. UNCHANGED <<world, exchange, interval, known, early>>
    BY <1>8 DEF Disconnect, fixedStream
  <2>3. QED
    BY <2>1, <2>2 DEF StreamTypeOK
<1>9. QED
  BY <1>1, <1>2, <1>3, <1>4, <1>5, <1>6, <1>7, <1>8 DEF BackgroundStep, StreamStep

(* The steps move the coalescer's task but neither create nor revive it;   *)
(* none of them closes anything, and none creates the stream.              *)
LEMMA BackgroundMoves ==
    ASSUME CoalescerTypeOK, BackgroundStep
    PROVE  /\ closing' = closing \/ (closing = "no" /\ closing' = "requested")
           /\ pc' = pc \/ (pc \notin {"off", "ended"} /\ pc' # "off")
           /\ link' = link \/ (link # "off" /\ link' # "off")
<1>1. CASE CoalescerStep /\ UNCHANGED streamVars
  <2>1. UNCHANGED <<closing, link>>
    BY <1>1 DEF CoalescerStep, Wake, Debounced, BeginRound, ReadFails, FinishRound,
               streamVars
  <2>2. pc' = pc \/ (pc \notin {"off", "ended"} /\ pc' # "off")
    BY <1>1 DEF CoalescerStep, Wake, Debounced, BeginRound, ReadFails, FinishRound,
               NextPc
  <2>3. QED
    BY <2>1, <2>2
<1>2. CASE StreamStep \/ Disconnect
  BY <1>2 DEF StreamStep, Connect, Subscribed, Receive, Disconnect
<1>3. CASE Interval \/ Change
  BY <1>3 DEF Interval, Change, streamVars
<1>4. CASE RequestStop /\ UNCHANGED streamVars
  BY <1>4 DEF RequestStop, streamVars
<1>5. QED
  BY <1>1, <1>2, <1>3, <1>4 DEF BackgroundStep

LEMMA BackgroundInv ==
    ASSUME IInv, UNCHANGED <<phase, workerVars>>, BackgroundStep
    PROVE  IInv'
<1>1. WorkerInv'
  BY StoppingInv DEF IInv
<1>2. /\ CoalescerTypeOK /\ StreamTypeOK /\ CloseInv
      /\ pc # "off" => phase \in {"running", "returned"}
      /\ link # "off" => pc # "off" /\ closing \in {"no", "requested", "stopping"}
  BY DEF IInv, LifecycleTypeOK
<1>3. CoalescerTypeOK' /\ StreamTypeOK'
  BY <1>2, CoalescerStepTyped, StreamStepTyped
<1>4. CloseInv'
  BY <1>2, BackgroundMoves DEF CloseInv, Stopped
<1>5. LifecycleTypeOK'
  <2>1. pc' # "off" => phase' \in {"running", "returned"}
    BY <1>2, BackgroundMoves
  <2>2. link' # "off" => pc' # "off" /\ closing' \in {"no", "requested", "stopping"}
    BY <1>2, BackgroundMoves
  <2>3. phase' \in {"start", "first_round", "ready", "running", "returned"}
    BY DEF IInv, LifecycleTypeOK
  <2>4. QED
    BY <1>1, <1>3, <2>1, <2>2, <2>3 DEF LifecycleTypeOK, WorkerInv
<1>6. StopInv'
  BY <1>2, BackgroundMoves DEF IInv, StopInv, workerVars
<1>7. QED
  BY <1>1, <1>4, <1>5, <1>6 DEF IInv

LEMMA WorkerRunsInv ==
    ASSUME IInv, WorkerRuns
    PROVE  IInv'
<1>1. UNCHANGED <<phase, coalescerVars, streamVars>>
  BY DEF WorkerRuns, backgroundVars
<1>2. WorkerInv'
  BY GetInv, PostInv, BackoffInv, JoinedInv, StoppingInv DEF IInv, WorkerRuns, WorkerStep
<1>3. LifecycleTypeOK' /\ CloseInv'
  BY <1>1, <1>2
  DEF IInv, WorkerInv, LifecycleTypeOK, CoalescerTypeOK, StreamTypeOK, CloseInv,
      coalescerVars, roundVars, streamVars, Stopped
<1>4. StopInv'
  <2>1. CASE Get
    <3>1. queue \in Seq(Cards \cup {None}) /\ queue # <<>> /\ UNCHANGED stopping
      BY <2>1 DEF IInv, WorkerInv, WorkerTypeOK, Get
    <3>2. /\ 1 \in DOMAIN queue /\ card' = queue[1]
          /\ \A i \in DOMAIN queue' : queue'[i] = queue[i + 1] /\ i + 1 \in DOMAIN queue
      BY <2>1, <3>1 DEF Get
    <3>3. QED
      BY <3>1, <3>2, <1>1 DEF IInv, StopInv, coalescerVars, roundVars
  <2>2. CASE Post
    <3>1. stopping \notin {"await", "closed"} /\ UNCHANGED stopping
      BY <2>2 DEF IInv, StopInv, WorkerInv, CardInHand, Post
    <3>2. QED
      BY <3>1, <1>1 DEF IInv, StopInv, coalescerVars, roundVars
  <2>3. CASE BackoffEnds \/ CloseNotifier
    BY <2>3, <1>1 DEF IInv, StopInv, BackoffEnds, CloseNotifier, coalescerVars, roundVars
  <2>4. CASE Joined
    BY <2>4, <1>1 DEF IInv, StopInv, Joined, coalescerVars, roundVars
  <2>5. QED
    BY <2>1, <2>2, <2>3, <2>4 DEF WorkerRuns, WorkerStep
<1>5. QED
  BY <1>2, <1>3, <1>4 DEF IInv

LEMMA NextInv == IInv /\ [LifecycleNext]_lifecycleVars => IInv'
<1>. SUFFICES ASSUME IInv, [LifecycleNext]_lifecycleVars PROVE IInv'
  OBVIOUS
<1>1. CASE RunStep
  BY <1>1, RunStepInv
<1>2. CASE RoundPublishes
  BY <1>2, RoundPublishesInv
<1>3. CASE CloseStep
  BY <1>3, CloseStepInv
<1>4. CASE CoalescerRuns
  BY <1>4, BackgroundInv DEF BackgroundStep, CoalescerRuns
<1>5. CASE StreamRuns \/ IntervalPasses
  BY <1>5, BackgroundInv DEF BackgroundStep, StreamRuns, IntervalPasses
<1>6. CASE (Change \/ Disconnect) /\ UNCHANGED <<phase, workerVars>>
  BY <1>6, BackgroundInv DEF BackgroundStep
<1>7. CASE RequestStop /\ UNCHANGED <<phase, streamVars, workerVars>>
  BY <1>7, BackgroundInv DEF BackgroundStep
<1>8. CASE WorkerRuns
  BY <1>8, WorkerRunsInv
<1>9. CASE UNCHANGED lifecycleVars
  <2>1. WorkerInv'
    BY <1>9, StoppingInv DEF lifecycleVars, IInv
  <2>2. QED
    BY <1>9, <2>1
    DEF IInv, WorkerInv, LifecycleTypeOK, CoalescerTypeOK, StreamTypeOK, StopInv, CloseInv,
        lifecycleVars, coalescerVars, roundVars, streamVars, workerVars, Stopped
<1>10. QED
  BY <1>1, <1>2, <1>3, <1>4, <1>5, <1>6, <1>7, <1>8, <1>9 DEF LifecycleNext

LEMMA Invariance == Spec => []IInv
BY InitInv, NextInv, PTL DEF Spec

-----------------------------------------------------------------------------
(* run, close and their tasks keep their types in every execution; a task  *)
(* of the coalescer exists only once run has created it, and the stream    *)
(* only while the coalescer's task exists and the clients are open.        *)
THEOREM LifecycleTypeCorrect == Spec => []LifecycleTypeOK
BY Invariance, PTL DEF IInv

(* close uses the exchange clients last: they are closed only after run    *)
(* and the coalescer's task have ended, and no round begins afterwards.    *)
THEOREM NoRoundUsesClosedClients == Spec => []NoRoundAfterClose
<1>1. IInv => NoRoundAfterClose
  BY DEF IInv, CloseInv, NoRoundAfterClose, Stopped
<1>2. QED
  BY <1>1, Invariance, PTL

(* However the posts fail and whenever the program is stopped, a card that *)
(* has left the worker was accepted, given up after every attempt, refused *)
(* as text too, or dropped at a full queue.                                *)
THEOREM CardsAccountedFor == Spec => []NoCardLost
BY Invariance, PTL DEF IInv, WorkerInv

(* The notifier is closed with nothing left: no card is published once its *)
(* queue has been joined, whatever was running when the stop was asked for.*)
THEOREM NotifierClosedDrained == Spec => []DrainedBeforeClose
<1>1. IInv => DrainedBeforeClose
  BY NotificationAssumption
  DEF IInv, WorkerInv, WorkerTypeOK, StopInv, DrainedBeforeClose, Finished, Cards, None
<1>2. QED
  BY <1>1, Invariance, PTL

(* The worker never posts a card whose delivery it has seen, and never one *)
(* older than a card that is done with: cards reach the channel in order.  *)
THEOREM DeliveredOnceInOrder == Spec => NoRepeatAfterDelivery
<1>. DEFINE Ordered == Post => /\ status[card] # "accepted"
                               /\ \A c \in Cards : status[c] # "open" => c <= card
<1>1. IInv => Ordered
  <2>. SUFFICES ASSUME IInv, Post PROVE Ordered
    OBVIOUS
  <2>1. card # None /\ status[card] = "open" /\ card \in Int
    BY DEF IInv, WorkerInv, WorkerTypeOK, CardInHand, Post, Cards, None
  <2>2. QED
    BY <2>1 DEF IInv, WorkerInv, DoneIsOlder, Cards
<1>2. IInv /\ [LifecycleNext]_lifecycleVars => [Ordered]_workerVars
  BY <1>1
<1>3. QED
  BY <1>2, Invariance, PTL DEF Spec, NoRepeatAfterDelivery
==============================================================================
