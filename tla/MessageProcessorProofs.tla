------------------------ MODULE MessageProcessorProofs ------------------------
(***************************************************************************)
(* Proofs about MessageProcessor: for any topics, handlers, messages and   *)
(* faults, its types, and that a message leaves its queue only when every  *)
(* handler that can decode it succeeded.                                   *)
(***************************************************************************)
EXTENDS MessageProcessor, TLAPS

-----------------------------------------------------------------------------
(* Type correctness                                                        *)

\* The conjuncts of TypeOK, by the steps that disturb them together.
QueuesOK == queue \in [Topics -> Seq(Messages)] /\ sent \in SUBSET Messages
ProcessOK == process \in {"up", "down"} /\ cancelled \in BOOLEAN
FeedOK == feed \in [Topics -> {"closed", "idle", "offered", "taken"}]
SubscriberOK == subscriber \in [Topics -> {"none", "receive", "send", "ended"}]
ListenerOK ==
  listener \in [Topics -> {"none", "start", "select", "dispatch", "failed", "returned"}]
DispatchOK ==
  /\ todo \in [Topics -> SUBSET Handler]
  /\ handled \in [Topics -> SUBSET Handler]
  /\ failed \in [Topics -> BOOLEAN]
FaultsOK == faults \in 0..MaxFaults

TypeInv ==
  QueuesOK /\ ProcessOK /\ FeedOK /\ SubscriberOK /\ ListenerOK /\ DispatchOK /\ FaultsOK

\* A topic's message is on its way through one goroutine at a time, it is the
\* first of the queue, and no open feed offers it meanwhile.
MessageInv(t) ==
  /\ feed[t] \in {"offered", "taken"} => queue[t] # <<>>
  /\ listener[t] = "dispatch" \/ subscriber[t] = "send" =>
       queue[t] # <<>> /\ feed[t] \in {"taken", "closed"}
  /\ ~(listener[t] = "dispatch" /\ subscriber[t] = "send")

\* Without an error so far, a handler that can decode the message has
\* succeeded or is still to run.
DispatchInv(t) ==
  listener[t] = "dispatch" /\ ~failed[t] =>
    \A h \in Handlers[t] : CanHandle(t, h) => h \in handled[t] \cup todo[t]

ProcessorInv == TypeInv /\ \A t \in Topics : MessageInv(t) /\ DispatchInv(t)

\* What a step leaves alone keeps its type.
LEMMA Frames ==
  /\ QueuesOK /\ UNCHANGED <<queue, sent>> => QueuesOK'
  /\ ProcessOK /\ UNCHANGED <<process, cancelled>> => ProcessOK'
  /\ FeedOK /\ UNCHANGED feed => FeedOK'
  /\ SubscriberOK /\ UNCHANGED subscriber => SubscriberOK'
  /\ ListenerOK /\ UNCHANGED listener => ListenerOK'
  /\ DispatchOK /\ UNCHANGED <<todo, failed, handled>> => DispatchOK'
  /\ FaultsOK /\ UNCHANGED faults => FaultsOK'
BY DEF QueuesOK, ProcessOK, FeedOK, SubscriberOK, ListenerOK, DispatchOK, FaultsOK

LEMMA SpendType ==
  ASSUME FaultsOK, NEW fault, Spend(fault)
  PROVE  FaultsOK'
BY MaxFaultsAssumption DEF FaultsOK, Spend

\* A process that is gone has nothing in hand.
LEMMA ExitInv ==
  ASSUME ProcessorInv, Exit, UNCHANGED <<queue, sent>>, FaultsOK'
  PROVE  ProcessorInv'
<1>1. TypeInv'
  BY Frames DEF ProcessorInv, TypeInv, Exit, Everywhere, ProcessOK, FeedOK, SubscriberOK,
                ListenerOK,
     DispatchOK
<1>2. ASSUME NEW t \in Topics PROVE MessageInv(t)' /\ DispatchInv(t)'
  BY DEF Exit, Everywhere, MessageInv, DispatchInv
<1> QED
  BY <1>1, <1>2 DEF ProcessorInv

\* A step that keeps the topics' messages where they are.
LEMMA TopicKept ==
  ASSUME NEW t \in Topics, MessageInv(t), DispatchInv(t),
         queue'[t] = queue[t], feed'[t] = feed[t], listener'[t] = listener[t],
         subscriber'[t] = subscriber[t], todo'[t] = todo[t], failed'[t] = failed[t],
         handled'[t] = handled[t]
  PROVE  MessageInv(t)' /\ DispatchInv(t)'
BY DEF MessageInv, DispatchInv, CanHandle

LEMMA PublishInv ==
  ASSUME ProcessorInv, NEW m \in Messages, Publish(m)
  PROVE  ProcessorInv'
<1> USE DEF TypeInv
<1>1. QueuesOK'
  BY TopicOfAssumption DEF ProcessorInv, QueuesOK, Publish
<1>2. TypeInv'
  BY <1>1, Frames DEF ProcessorInv, Publish, goroutines
<1>3. ASSUME NEW t \in Topics, queue[t] # <<>>
      PROVE  queue'[t] # <<>> /\ Head(queue'[t]) = Head(queue[t])
  <2>1. queue[t] \in Seq(Messages)
    BY DEF ProcessorInv, QueuesOK
  <2>2. queue'[t] = queue[t] \/ queue'[t] = Append(queue[t], m)
    BY DEF ProcessorInv, QueuesOK, Publish
  <2> QED
    BY <1>3, <2>1, <2>2
<1>4. ASSUME NEW t \in Topics PROVE MessageInv(t)' /\ DispatchInv(t)'
  <2>1. MessageInv(t) /\ DispatchInv(t)
    BY DEF ProcessorInv
  <2> QED
    BY <1>3, <2>1 DEF MessageInv, DispatchInv, CanHandle, Publish, goroutines
<1> QED
  BY <1>2, <1>4 DEF ProcessorInv

\* The steps of the feed and of the process that leave the goroutines alone.
LEMMA FeedStepInv ==
  ASSUME ProcessorInv, NEW t \in Topics, Offer(t) \/ FeedEnds(t)
  PROVE  ProcessorInv'
<1> USE DEF TypeInv
<1>1. TypeInv'
  <2>1. FeedOK'
    BY DEF ProcessorInv, FeedOK, Offer, FeedEnds
  <2>2. FaultsOK'
    BY SpendType, Frames DEF ProcessorInv, Offer, FeedEnds
  <2> QED
    BY <2>1, <2>2, Frames DEF ProcessorInv, Offer, FeedEnds, goroutines
<1>2. ASSUME NEW s \in Topics PROVE MessageInv(s)' /\ DispatchInv(s)'
  <2>1. MessageInv(s) /\ DispatchInv(s)
    BY DEF ProcessorInv
  <2>2. UNCHANGED <<queue, goroutines>> /\ \A r \in Topics : r # t => feed'[r] = feed[r]
    BY DEF Offer, FeedEnds, ProcessorInv, FeedOK
  <2>3. CASE s # t
    BY <2>1, <2>2, <2>3, TopicKept DEF goroutines
  <2>4. CASE s = t
    BY <2>1, <2>2, <2>4 DEF MessageInv, DispatchInv, CanHandle, Offer, FeedEnds, ProcessorInv,
                            FeedOK,
       goroutines
  <2> QED
    BY <2>3, <2>4
<1> QED
  BY <1>1, <1>2 DEF ProcessorInv

LEMMA ProcessStepInv ==
  ASSUME ProcessorInv, Start \/ Stop \/ Crash \/ AllReturned
  PROVE  ProcessorInv'
<1> USE DEF TypeInv
<1>1. CASE Start
  <2>1. TypeInv'
    BY <1>1, Frames DEF ProcessorInv, Start, ProcessOK, ListenerOK, Everywhere
  <2>2. ASSUME NEW t \in Topics PROVE MessageInv(t)' /\ DispatchInv(t)'
    <3>1. MessageInv(t)
      BY DEF ProcessorInv
    <3> QED
      BY <1>1, <3>1 DEF MessageInv, DispatchInv, Start, Everywhere
  <2> QED
    BY <2>1, <2>2 DEF ProcessorInv
<1>2. CASE Stop
  <2>1. TypeInv'
    BY <1>2, SpendType, Frames DEF ProcessorInv, Stop, ProcessOK, goroutines
  <2>2. ASSUME NEW t \in Topics PROVE MessageInv(t)' /\ DispatchInv(t)'
    BY <1>2, TopicKept DEF ProcessorInv, Stop, goroutines
  <2> QED
    BY <2>1, <2>2 DEF ProcessorInv
<1>3. CASE Crash \/ AllReturned
  <2>1. FaultsOK'
    BY <1>3, SpendType, Frames DEF ProcessorInv, Crash, AllReturned
  <2> QED
    BY <1>3, <2>1, ExitInv DEF Crash, AllReturned
<1> QED
  BY <1>1, <1>2, <1>3

\* A step of the goroutines of one topic: the others keep their messages.
LEMMA OneTopicSteps ==
  ASSUME ProcessorInv, TypeInv', NEW t \in Topics, MessageInv(t)', DispatchInv(t)',
         \A s \in Topics : s # t =>
           /\ queue'[s] = queue[s] /\ feed'[s] = feed[s] /\ listener'[s] = listener[s]
           /\ subscriber'[s] = subscriber[s] /\ todo'[s] = todo[s] /\ failed'[s] = failed[s]
           /\ handled'[s] = handled[s]
  PROVE  ProcessorInv'
<1>1. ASSUME NEW s \in Topics, s # t PROVE MessageInv(s)' /\ DispatchInv(s)'
  BY <1>1, TopicKept DEF ProcessorInv
<1> QED
  BY <1>1 DEF ProcessorInv

LEMMA SubscriberStepInv ==
  ASSUME ProcessorInv, NEW t \in Topics, SubscriberStep(t)
  PROVE  ProcessorInv'
<1> USE DEF TypeInv
<1>1. TypeInv'
  <2>1. FeedOK' /\ SubscriberOK'
    BY DEF ProcessorInv, FeedOK, SubscriberOK, SubscriberStep, Take, SubscriberEnds, SendAbandoned
  <2> QED
    BY <2>1, Frames DEF ProcessorInv, SubscriberStep, Take, SubscriberEnds, SendAbandoned
<1>2. /\ UNCHANGED <<queue, listener, todo, failed, handled>>
      /\ \A s \in Topics : s # t => feed'[s] = feed[s] /\ subscriber'[s] = subscriber[s]
  BY DEF SubscriberStep, Take, SubscriberEnds, SendAbandoned, ProcessorInv, FeedOK, SubscriberOK
<1>3. MessageInv(t) /\ DispatchInv(t)
  BY DEF ProcessorInv
<1>4. DispatchInv(t)'
  BY <1>2, <1>3 DEF DispatchInv, CanHandle
<1>5. MessageInv(t)'
  BY <1>2, <1>3 DEF MessageInv, SubscriberStep, Take, SubscriberEnds, SendAbandoned, ProcessorInv,
     FeedOK, SubscriberOK
<1> QED
  BY <1>1, <1>2, <1>4, <1>5, OneTopicSteps

\* A listener that begins, ends or receives a message.
LEMMA ListenerInv ==
  ASSUME ProcessorInv, NEW t \in Topics,
         Subscribe(t) \/ SubscribeFails(t) \/ Receive(t)
  PROVE  ProcessorInv'
<1> USE DEF TypeInv
<1>1. TypeInv'
  <2>1. ListenerOK' /\ SubscriberOK' /\ FeedOK'
    BY DEF ProcessorInv, FeedOK, SubscriberOK, ListenerOK, Subscribe, SubscribeFails, Receive
  <2>2. FaultsOK'
    BY SpendType, Frames DEF ProcessorInv, Subscribe, SubscribeFails, Receive
  <2>3. Handlers[t] \subseteq Handler /\ (Handlers[t] = {}) \in BOOLEAN
    BY DEF Handler
  <2>4. DispatchOK'
    BY <2>3 DEF ProcessorInv, DispatchOK, Subscribe, SubscribeFails, Receive
  <2> QED
    BY <2>1, <2>2, <2>4, Frames DEF ProcessorInv, Subscribe, SubscribeFails, Receive
<1>2. \A s \in Topics : s # t =>
        /\ queue'[s] = queue[s] /\ feed'[s] = feed[s] /\ listener'[s] = listener[s]
        /\ subscriber'[s] = subscriber[s] /\ todo'[s] = todo[s] /\ failed'[s] = failed[s]
        /\ handled'[s] = handled[s]
  BY DEF Subscribe, SubscribeFails, Receive, ProcessorInv, FeedOK, SubscriberOK, ListenerOK,
         DispatchOK
<1>3. MessageInv(t) /\ DispatchInv(t)
  BY DEF ProcessorInv
<1>4. CASE Subscribe(t) \/ SubscribeFails(t)
  <2>1. MessageInv(t)' /\ DispatchInv(t)'
    BY <1>3, <1>4 DEF MessageInv, DispatchInv, Subscribe, SubscribeFails, ProcessorInv, ListenerOK,
       SubscriberOK, FeedOK
  <2> QED
    BY <1>1, <1>2, <2>1, OneTopicSteps
<1>5. CASE Receive(t)
  <2>1. MessageInv(t)'
    BY <1>3, <1>5 DEF MessageInv, Receive, ProcessorInv, ListenerOK, SubscriberOK
  <2>2. DispatchInv(t)'
    BY <1>5 DEF DispatchInv, Receive, ProcessorInv, DispatchOK
  <2> QED
    BY <1>1, <1>2, <2>1, <2>2, OneTopicSteps
<1> QED
  BY <1>4, <1>5

\* A listener that returns closes the feeds of all topics.
LEMMA ListenerReturnsInv ==
  ASSUME ProcessorInv, NEW t \in Topics, ListenerCancelled(t) \/ ListenerClosed(t)
  PROVE  ProcessorInv'
<1> USE DEF TypeInv
<1>1. TypeInv'
  <2>1. ListenerOK' /\ FeedOK'
    BY DEF ProcessorInv, FeedOK, ListenerOK, ListenerCancelled, ListenerClosed, Close, Everywhere
  <2> QED
    BY <2>1, Frames DEF ProcessorInv, ListenerCancelled, ListenerClosed
<1>2. ASSUME NEW s \in Topics PROVE MessageInv(s)' /\ DispatchInv(s)'
  <2>1. MessageInv(s) /\ DispatchInv(s)
    BY DEF ProcessorInv
  <2>2. /\ feed'[s] = "closed" /\ UNCHANGED <<queue, subscriber, todo, failed, handled>>
        /\ listener'[s] = "dispatch" => listener[s] = "dispatch"
    BY DEF ListenerCancelled, ListenerClosed, Close, Everywhere, ProcessorInv, ListenerOK
  <2> QED
    BY <2>1, <2>2 DEF MessageInv, DispatchInv, CanHandle
<1> QED
  BY <1>1, <1>2 DEF ProcessorInv

\* A handler that skips the message, succeeds or fails leaves it in hand.
LEMMA HandlerInv ==
  ASSUME ProcessorInv, NEW t \in Topics, NEW h \in Handler,
         HandlerSkips(t, h) \/ HandlerSucceeds(t, h) \/ HandlerFails(t, h)
  PROVE  ProcessorInv'
<1> USE DEF TypeInv
<1>1. TypeInv'
  <2>1. DispatchOK'
    <3>1. UNCHANGED failed \/ failed' = [failed EXCEPT ![t] = TRUE]
      BY DEF HandlerSkips, HandlerSucceeds, HandlerFails
    <3>2. failed' \in [Topics -> BOOLEAN]
      BY <3>1 DEF ProcessorInv, DispatchOK
    <3>3. todo' = [todo EXCEPT ![t] = @ \ {h}]
      BY DEF HandlerSkips, HandlerSucceeds, HandlerFails
    <3>4. UNCHANGED handled \/ handled' = [handled EXCEPT ![t] = @ \cup {h}]
      BY DEF HandlerSkips, HandlerSucceeds, HandlerFails
    <3> QED
      BY <3>2, <3>3, <3>4 DEF ProcessorInv, DispatchOK
  <2>2. FaultsOK'
    BY SpendType, Frames DEF ProcessorInv, HandlerSkips, HandlerSucceeds, HandlerFails
  <2> QED
    BY <2>1, <2>2, Frames DEF ProcessorInv, HandlerSkips, HandlerSucceeds, HandlerFails
<1>2. /\ UNCHANGED <<queue, feed, subscriber, listener>>
      /\ \A s \in Topics : s # t =>
           todo'[s] = todo[s] /\ failed'[s] = failed[s] /\ handled'[s] = handled[s]
  BY DEF HandlerSkips, HandlerSucceeds, HandlerFails, ProcessorInv, DispatchOK
<1>3. MessageInv(t) /\ DispatchInv(t)
  BY DEF ProcessorInv
<1>4. MessageInv(t)'
  BY <1>2, <1>3 DEF MessageInv
<1>5. DispatchInv(t)'
  <2>1. todo'[t] = todo[t] \ {h} /\ \A g : CanHandle(t, g)' <=> CanHandle(t, g)
    BY <1>2 DEF HandlerSkips, HandlerSucceeds, HandlerFails, ProcessorInv, DispatchOK, CanHandle
  <2>2. CASE HandlerSkips(t, h)
    BY <1>2, <1>3, <2>1, <2>2 DEF DispatchInv, HandlerSkips
  <2>3. CASE HandlerSucceeds(t, h)
    <3>1. handled'[t] = handled[t] \cup {h} /\ UNCHANGED failed
      BY <2>3 DEF HandlerSucceeds, ProcessorInv, DispatchOK
    <3> QED
      BY <1>2, <1>3, <2>1, <3>1 DEF DispatchInv
  <2>4. CASE HandlerFails(t, h)
    <3>1. failed'[t] = TRUE
      BY <2>4 DEF HandlerFails, ProcessorInv, DispatchOK
    <3> QED
      BY <3>1 DEF DispatchInv
  <2> QED
    BY <2>2, <2>3, <2>4
<1> QED
  BY <1>1, <1>2, <1>4, <1>5, OneTopicSteps

\* A message that is settled, acknowledged or not, is in nobody's hand.
LEMMA SettledInv ==
  ASSUME ProcessorInv, NEW t \in Topics, listener[t] = "dispatch", Settled(t), Ack(t) \/ Nack(t),
         FaultsOK'
  PROVE  ProcessorInv'
<1> USE DEF TypeInv
<1>1. MessageInv(t) /\ queue[t] # <<>> /\ queue[t] \in Seq(Messages)
  BY DEF ProcessorInv, MessageInv, QueuesOK
<1>2. TypeInv'
  <2>1. QueuesOK'
    <3>1. Tail(queue[t]) \in Seq(Messages)
      BY <1>1
    <3>2. UNCHANGED queue \/ queue' = [queue EXCEPT ![t] = Tail(queue[t])]
      BY DEF Ack, Nack
    <3> QED
      BY <3>1, <3>2 DEF ProcessorInv, QueuesOK, Settled
  <2>2. FeedOK' /\ ListenerOK' /\ DispatchOK'
    <3>1. FeedOK' /\ ListenerOK'
      BY DEF ProcessorInv, FeedOK, ListenerOK, Ack, Nack, Settled
    <3>2. failed' \in [Topics -> BOOLEAN]
      BY DEF ProcessorInv, DispatchOK, Settled
    <3>3. todo' \in [Topics -> SUBSET Handler] /\ handled' \in [Topics -> SUBSET Handler]
      BY DEF ProcessorInv, DispatchOK, Settled
    <3> QED
      BY <3>1, <3>2, <3>3 DEF DispatchOK
  <2> QED
    BY <2>1, <2>2, Frames DEF ProcessorInv, Settled
<1>3. listener'[t] = "select" /\ UNCHANGED subscriber /\ subscriber[t] # "send"
  BY <1>1 DEF Settled, ProcessorInv, ListenerOK, MessageInv
<1>4. feed'[t] \in {"closed", "idle"}
  BY DEF Ack, Nack, ProcessorInv, FeedOK
<1>5. MessageInv(t)' /\ DispatchInv(t)'
  BY <1>3, <1>4 DEF MessageInv, DispatchInv
<1>6. \A s \in Topics : s # t =>
        /\ queue'[s] = queue[s] /\ feed'[s] = feed[s] /\ listener'[s] = listener[s]
        /\ subscriber'[s] = subscriber[s] /\ todo'[s] = todo[s] /\ failed'[s] = failed[s]
        /\ handled'[s] = handled[s]
  BY DEF Settled, Ack, Nack, ProcessorInv, QueuesOK, FeedOK, ListenerOK, DispatchOK
<1> QED
  BY <1>2, <1>5, <1>6, OneTopicSteps

LEMMA EmptySeq ==
  ASSUME NEW S
  PROVE  <<>> \in Seq(S)
OBVIOUS

LEMMA InitInv ==
  ASSUME Init
  PROVE  ProcessorInv
<1>1. TypeInv
  <2>1. QueuesOK
    <3>1. PICK none \in Seq(Messages) : none = <<>>
      BY EmptySeq
    <3> QED
      BY <3>1 DEF Init, Everywhere, QueuesOK
  <2>2. ProcessOK /\ FeedOK /\ SubscriberOK /\ ListenerOK
    BY DEF Init, Everywhere, ProcessOK, FeedOK, SubscriberOK, ListenerOK
  <2>3. DispatchOK /\ FaultsOK
    BY MaxFaultsAssumption DEF Init, Everywhere, DispatchOK, FaultsOK
  <2> QED
    BY <2>1, <2>2, <2>3 DEF TypeInv
<1>2. ASSUME NEW t \in Topics PROVE MessageInv(t) /\ DispatchInv(t)
  BY DEF Init, Everywhere, MessageInv, DispatchInv
<1> QED
  BY <1>1, <1>2 DEF ProcessorInv

LEMMA NextInv ==
  ASSUME ProcessorInv, [Next]_vars
  PROVE  ProcessorInv'
<1>1. ASSUME NEW m \in Messages, Publish(m) PROVE ProcessorInv'
  BY <1>1, PublishInv
<1>2. ASSUME NEW t \in Topics, Offer(t) \/ FeedEnds(t) PROVE ProcessorInv'
  BY <1>2, FeedStepInv
<1>3. ASSUME NEW t \in Topics, SubscriberStep(t) PROVE ProcessorInv'
  BY <1>3, SubscriberStepInv
<1>4. ASSUME NEW t \in Topics, ListenerStep(t) PROVE ProcessorInv'
  <2>1. ASSUME NEW h \in Handler, HandlerPanics(t, h) PROVE ProcessorInv'
    <3>1. FaultsOK'
      BY <2>1, SpendType DEF HandlerPanics, ProcessorInv, TypeInv
    <3> QED
      BY <2>1, <3>1, SettledInv DEF HandlerPanics
  <2>2. CASE Settle(t)
    <3>1. FaultsOK'
      BY <2>2, Frames DEF Settle, ProcessorInv, TypeInv
    <3> QED
      BY <2>2, <3>1, SettledInv DEF Settle
  <2>3. CASE ExitOnError(t)
    <3>1. FaultsOK'
      BY <2>3, Frames DEF ExitOnError, ProcessorInv, TypeInv
    <3> QED
      BY <2>3, <3>1, ExitInv DEF ExitOnError
  <2> QED
    BY <1>4, <2>1, <2>2, <2>3, ListenerInv, ListenerReturnsInv, HandlerInv DEF ListenerStep
<1>5. CASE Start \/ AllReturned \/ Stop \/ Crash
  BY <1>5, ProcessStepInv
<1>6. CASE UNCHANGED vars
  <2>1. TypeInv'
    BY <1>6, Frames DEF ProcessorInv, TypeInv, vars, goroutines
  <2>2. ASSUME NEW t \in Topics PROVE MessageInv(t)' /\ DispatchInv(t)'
    BY <1>6, TopicKept DEF ProcessorInv, vars, goroutines
  <2> QED
    BY <2>1, <2>2 DEF ProcessorInv
<1> QED
  BY <1>1, <1>2, <1>3, <1>4, <1>5, <1>6 DEF Next

-----------------------------------------------------------------------------
(* A message leaves its queue handled                                      *)

\* Only a message that is settled without an error leaves its queue.
LEMMA LeavesBySettle ==
  ASSUME ProcessorInv, [Next]_vars, NEW t \in Topics, queue[t] # <<>>, queue'[t] = Tail(queue[t])
  PROVE  Settle(t) /\ ~failed[t]
<1>1. queue[t] \in Seq(Messages) /\ queue'[t] # queue[t]
  BY DEF ProcessorInv, TypeInv, QueuesOK
<1>2. ~\E m \in Messages : Publish(m)
  <2> SUFFICES ASSUME NEW m \in Messages, Publish(m) PROVE FALSE
    OBVIOUS
  <2>1. queue'[t] = Append(queue[t], m)
    BY <1>1 DEF Publish, ProcessorInv, TypeInv, QueuesOK
  <2>2. Append(queue[t], m) # Tail(queue[t])
    <3>1. PICK q \in Seq(Messages) : q = queue[t] /\ q # <<>>
      BY <1>1
    <3>2. Len(Append(q, m)) = Len(q) + 1 /\ Len(Tail(q)) = Len(q) - 1 /\ Len(q) \in Nat
      BY <3>1
    <3>3. Append(q, m) # Tail(q)
      BY <3>2
    <3> QED
      BY <3>1, <3>3
  <2> QED
    BY <2>1, <2>2
<1>3. queue' # queue
  BY <1>1
<1>4. ~(Start \/ AllReturned \/ Stop \/ Crash) /\ ~UNCHANGED vars
  BY <1>3 DEF Start, AllReturned, Stop, Crash, vars
<1>5. PICK s \in Topics : Offer(s) \/ FeedEnds(s) \/ SubscriberStep(s) \/ ListenerStep(s)
  BY <1>2, <1>4 DEF Next
<1>6. ~(Offer(s) \/ FeedEnds(s) \/ SubscriberStep(s))
  BY <1>3 DEF Offer, FeedEnds, SubscriberStep, Take, SubscriberEnds, SendAbandoned
<1>7. Settle(s) /\ ~failed[s]
  BY <1>3, <1>5, <1>6 DEF ListenerStep, Subscribe, SubscribeFails, Receive, ListenerCancelled,
     ListenerClosed, HandlerSkips, HandlerSucceeds, HandlerFails, HandlerPanics, Nack, Settle,
     ExitOnError
<1>8. s = t
  BY <1>1, <1>7 DEF Settle, Ack, ProcessorInv, TypeInv, QueuesOK
<1> QED
  BY <1>7, <1>8

\* The state of the processor is well typed.
THEOREM TypeCorrect == Spec => []TypeOK
<1>1. Init => ProcessorInv
  BY InitInv
<1>2. ProcessorInv /\ [Next]_vars => ProcessorInv'
  BY NextInv
<1>3. ProcessorInv => TypeOK
  BY DEF ProcessorInv, MessageInv, TypeInv, TypeOK, QueuesOK, ProcessOK, FeedOK, SubscriberOK,
     ListenerOK, DispatchOK, FaultsOK
<1> QED
  BY <1>1, <1>2, <1>3, PTL DEF Spec

\* No error, panic, stop or end of another listener turns into an
\* acknowledgement: a message leaves its queue only when every handler of the
\* topic that can decode it returned nil in that very delivery.
THEOREM NothingLeavesUnhandled == Spec => LeavesHandled
<1>1. Init => ProcessorInv
  BY InitInv
<1>2. ProcessorInv /\ [Next]_vars => ProcessorInv'
  BY NextInv
<1> DEFINE Leaves == \A t \in Topics :
             queue[t] # <<>> /\ queue'[t] = Tail(queue[t]) =>
               {h \in Handlers[t] : CanHandle(t, h)} \subseteq handled[t]
<1>3. ProcessorInv /\ [Next]_vars => [Leaves]_vars
  <2> SUFFICES ASSUME ProcessorInv, [Next]_vars, NEW t \in Topics,
                      queue[t] # <<>>, queue'[t] = Tail(queue[t])
               PROVE  {h \in Handlers[t] : CanHandle(t, h)} \subseteq handled[t]
    OBVIOUS
  <2>1. Settle(t) /\ ~failed[t]
    BY LeavesBySettle
  <2>2. DispatchInv(t) /\ listener[t] = "dispatch" /\ todo[t] = {}
    BY <2>1 DEF ProcessorInv, Settle
  <2> QED
    BY <2>1, <2>2 DEF DispatchInv
<1> QED
  BY <1>1, <1>2, <1>3, PTL DEF Spec, LeavesHandled

-----------------------------------------------------------------------------
(* Nobody waits for a goroutine that has gone                              *)

\* The parts of NobodyWaitsInVain: the goroutines of one topic, and the
\* subscriber they share.
Attended(t) ==
  /\ feed[t] = "taken" => subscriber[t] = "send" \/ listener[t] = "dispatch" \/ cancelled
  /\ subscriber[t] \in {"receive", "send"} => listener[t] \in {"select", "dispatch"} \/ cancelled
  /\ listener[t] \in {"select", "dispatch"} => subscriber[t] # "none"
ClosedForAll == SubscriberClosed => \A t \in Topics : feed[t] = "closed"

\* A process that is down has no goroutines and reads no feed.
Gone == \A t \in Topics : feed[t] = "closed" /\ subscriber[t] = "none" /\ listener[t] = "none"
DownIsGone == process = "down" => Gone

LEMMA NobodyWaitsParts ==
  NobodyWaitsInVain <=> ClosedForAll /\ \A t \in Topics : Attended(t)
BY DEF NobodyWaitsInVain, Attended, ClosedForAll

LEMMA ExitAttends ==
  ASSUME Exit
  PROVE  ClosedForAll' /\ (\A t \in Topics : Attended(t)') /\ Gone'
BY DEF Exit, Everywhere, ClosedForAll, SubscriberClosed, Attended, Gone

\* A step of one topic leaves the goroutines of the others alone; it may close
\* their feeds.
LEMMA OthersAttended ==
  ASSUME TypeInv, NEW s \in Topics, NEW t \in Topics, t # s, Attended(t),
         \/ Offer(s) \/ FeedEnds(s) \/ SubscriberStep(s)
         \/ ListenerStep(s) /\ ~ExitOnError(s)
  PROVE  Attended(t)'
<1>1. /\ subscriber'[t] = subscriber[t] /\ listener'[t] = listener[t] /\ cancelled' = cancelled
      /\ feed'[t] = feed[t] \/ feed'[t] = "closed"
  BY DEF TypeInv, FeedOK, SubscriberOK, ListenerOK, goroutines, Offer, FeedEnds,
         SubscriberStep, Take, SubscriberEnds, SendAbandoned, ListenerStep, Subscribe,
         SubscribeFails, Receive,
         ListenerCancelled, ListenerClosed, Close, Everywhere, HandlerSkips, HandlerSucceeds,
         HandlerFails, HandlerPanics, Settle, Settled, Nack, Ack
<1> QED
  BY <1>1 DEF Attended

LEMMA OwnAttended ==
  ASSUME TypeInv, NEW t \in Topics, Attended(t),
         \/ Offer(t) \/ FeedEnds(t) \/ SubscriberStep(t)
         \/ ListenerStep(t) /\ ~ExitOnError(t)
  PROVE  Attended(t)'
<1>1. CASE Offer(t) \/ FeedEnds(t)
  BY <1>1 DEF Offer, FeedEnds, Attended, TypeInv, FeedOK, goroutines
<1>2. CASE SubscriberStep(t)
  BY <1>2 DEF SubscriberStep, Take, SubscriberEnds, SendAbandoned, Attended, TypeInv, FeedOK,
              SubscriberOK
<1>3. CASE Subscribe(t) \/ SubscribeFails(t)
  BY <1>3 DEF Subscribe, SubscribeFails, Attended, TypeInv, FeedOK, SubscriberOK, ListenerOK
<1>4. CASE Receive(t)
  BY <1>4 DEF Receive, Attended, TypeInv, SubscriberOK, ListenerOK
<1>5. CASE ListenerCancelled(t) \/ ListenerClosed(t)
  BY <1>5 DEF ListenerCancelled, ListenerClosed, Close, Everywhere, Attended, TypeInv, ListenerOK
<1>6. ASSUME NEW h \in Handler, HandlerSkips(t, h) \/ HandlerSucceeds(t, h) \/ HandlerFails(t, h)
      PROVE  Attended(t)'
  BY <1>6 DEF HandlerSkips, HandlerSucceeds, HandlerFails, Attended
<1>7. ASSUME listener[t] = "dispatch", Settled(t), Nack(t) \/ Ack(t) PROVE Attended(t)'
  <2>1. /\ listener'[t] = "select" /\ subscriber' = subscriber /\ cancelled' = cancelled
        /\ feed'[t] \in {"idle", "closed"}
    BY <1>7 DEF Settled, Nack, Ack, TypeInv, FeedOK, ListenerOK
  <2> QED
    BY <1>7, <2>1 DEF Attended
<1>8. CASE Settle(t) \/ \E h \in Handler : HandlerPanics(t, h)
  BY <1>7, <1>8 DEF Settle, HandlerPanics
<1> QED
  BY <1>1, <1>2, <1>3, <1>4, <1>5, <1>6, <1>8 DEF ListenerStep

\* After the first listener has returned and closed the subscriber, no feed
\* opens again.
LEMMA StaysClosed ==
  ASSUME TypeInv, ClosedForAll, NEW t \in Topics,
         \/ Offer(t) \/ FeedEnds(t) \/ SubscriberStep(t)
         \/ ListenerStep(t) /\ ~ExitOnError(t)
  PROVE  ClosedForAll'
<1>1. CASE Offer(t) \/ FeedEnds(t) \/ SubscriberStep(t)
  BY <1>1 DEF Offer, FeedEnds, SubscriberStep, Take, SubscriberEnds, SendAbandoned, ClosedForAll,
              SubscriberClosed, TypeInv, FeedOK, goroutines
<1>2. CASE Subscribe(t)
  BY <1>2 DEF Subscribe, ClosedForAll, SubscriberClosed, TypeInv, ListenerOK
<1>3. CASE SubscribeFails(t) \/ Receive(t)
  BY <1>3 DEF SubscribeFails, Receive, ClosedForAll, SubscriberClosed, TypeInv, ListenerOK
<1>4. CASE ListenerCancelled(t) \/ ListenerClosed(t)
  BY <1>4 DEF ListenerCancelled, ListenerClosed, Close, Everywhere, ClosedForAll
<1>5. ASSUME NEW h \in Handler, HandlerSkips(t, h) \/ HandlerSucceeds(t, h) \/ HandlerFails(t, h)
      PROVE  ClosedForAll'
  BY <1>5 DEF HandlerSkips, HandlerSucceeds, HandlerFails, ClosedForAll, SubscriberClosed
<1>6. CASE Settle(t) \/ \E h \in Handler : HandlerPanics(t, h)
  BY <1>6 DEF Settle, HandlerPanics, Settled, Nack, Ack, ClosedForAll, SubscriberClosed, TypeInv,
              FeedOK, ListenerOK
<1> QED
  BY <1>1, <1>2, <1>3, <1>4, <1>5, <1>6 DEF ListenerStep

LEMMA DownIsGoneNext ==
  ASSUME DownIsGone, [Next]_vars
  PROVE  DownIsGone'
<1>1. ASSUME NEW t \in Topics, Offer(t) \/ FeedEnds(t) \/ SubscriberStep(t) PROVE DownIsGone'
  <2>1. process' = process /\ ~Gone
    BY <1>1 DEF Offer, FeedEnds, SubscriberStep, Take, SubscriberEnds, SendAbandoned, Gone
  <2> QED
    BY <2>1 DEF DownIsGone
<1>2. ASSUME NEW t \in Topics, ListenerStep(t), ~ExitOnError(t) PROVE DownIsGone'
  <2>1. process' = process /\ ~Gone
    BY <1>2 DEF ListenerStep, Subscribe, SubscribeFails, Receive, ListenerCancelled,
       ListenerClosed, HandlerSkips, HandlerSucceeds, HandlerFails, HandlerPanics, Settle,
       Settled, Gone
  <2> QED
    BY <2>1 DEF DownIsGone
<1>3. ASSUME NEW t \in Topics, ExitOnError(t) PROVE DownIsGone'
  BY <1>3, ExitAttends DEF ExitOnError, DownIsGone
<1>4. CASE (\E m \in Messages : Publish(m)) \/ Stop \/ UNCHANGED vars
  BY <1>4 DEF Publish, Stop, vars, goroutines, DownIsGone, Gone
<1>5. CASE AllReturned \/ Crash
  BY <1>5, ExitAttends DEF AllReturned, Crash, DownIsGone
<1>6. CASE Start
  BY <1>6 DEF Start, DownIsGone
<1> QED
  BY <1>1, <1>2, <1>3, <1>4, <1>5, <1>6 DEF Next

LEMMA NobodyWaitsNext ==
  ASSUME TypeInv, DownIsGone, NobodyWaitsInVain, [Next]_vars
  PROVE  NobodyWaitsInVain'
<1> SUFFICES ClosedForAll' /\ \A t \in Topics : Attended(t)'
  BY DEF NobodyWaitsInVain, Attended, ClosedForAll
<1>0. ClosedForAll /\ \A t \in Topics : Attended(t)
  BY NobodyWaitsParts
<1>1. ASSUME NEW s \in Topics,
             \/ Offer(s) \/ FeedEnds(s) \/ SubscriberStep(s)
             \/ ListenerStep(s) /\ ~ExitOnError(s)
      PROVE  ClosedForAll' /\ \A t \in Topics : Attended(t)'
  BY <1>0, <1>1, StaysClosed, OwnAttended, OthersAttended
<1>2. ASSUME NEW s \in Topics, ExitOnError(s) PROVE ClosedForAll' /\ \A t \in Topics : Attended(t)'
  BY <1>2, ExitAttends DEF ExitOnError
<1>3. CASE (\E m \in Messages : Publish(m)) \/ Stop \/ UNCHANGED vars
  <2>1. UNCHANGED <<feed, subscriber, listener>> /\ (cancelled => cancelled')
    BY <1>3 DEF Publish, Stop, vars, goroutines
  <2> QED
    BY <1>0, <2>1 DEF ClosedForAll, SubscriberClosed, Attended
<1>4. CASE AllReturned \/ Crash
  BY <1>4, ExitAttends DEF AllReturned, Crash
<1>5. CASE Start
  BY <1>5 DEF Start, Everywhere, DownIsGone, Gone, ClosedForAll, SubscriberClosed, Attended
<1> QED
  BY <1>1, <1>2, <1>3, <1>4, <1>5 DEF Next

\* For any topics, handlers, stops and restarts: no message in flight, no
\* sender and no listener is ever left to wait for a goroutine that has gone.
THEOREM NobodyIsLeftWaiting == Spec => []NobodyWaitsInVain
<1>1. Init => ProcessorInv /\ DownIsGone /\ NobodyWaitsInVain
  BY InitInv DEF Init, Everywhere, DownIsGone, Gone, NobodyWaitsInVain, SubscriberClosed
<1>2. ProcessorInv /\ [Next]_vars => ProcessorInv'
  BY NextInv
<1>3. DownIsGone /\ [Next]_vars => DownIsGone'
  BY DownIsGoneNext
<1>4. ProcessorInv /\ DownIsGone /\ NobodyWaitsInVain /\ [Next]_vars => NobodyWaitsInVain'
  BY NobodyWaitsNext DEF ProcessorInv
<1> QED
  BY <1>1, <1>2, <1>3, <1>4, PTL DEF Spec

=============================================================================
