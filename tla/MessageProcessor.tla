--------------------------- MODULE MessageProcessor ---------------------------
(***************************************************************************)
(* The message processor: one listener goroutine per topic, fed through an *)
(* unbuffered channel by a goroutine of SnsSubscriber, which takes the     *)
(* messages the SQS subscriber of watermill offers.  A listener hands each *)
(* message to every handler of its topic and acknowledges it when none of  *)
(* them failed.  The listeners share one subscriber, which the first of    *)
(* them to return closes for all, and a listener that returns with an      *)
(* error ends the process.  A supervisor starts the process again.         *)
(*                                                                         *)
(* watermill and SQS are external: a feed offers the first message of its  *)
(* FIFO queue and nothing more until that message is settled.              *)
(***************************************************************************)
EXTENDS Integers, Sequences

CONSTANTS
  Topics,       \* the topics the process listens to
  Handlers,     \* Handlers[t]: the handlers registered for topic t
  Messages,     \* the messages that may be published
  TopicOf,      \* TopicOf[m]: the topic message m is published to
  Understands,  \* <<h, m>>: handler h can decode message m
  Faults,       \* what may go wrong
  MaxFaults     \* bound: faults in a behaviour, stops included

Handler == UNION {Handlers[t] : t \in Topics}
Fault == {"handlerFails", "handlerPanics", "subscribeFails", "feedEnds", "stop", "crash"}

ASSUME HandlersAssumption == DOMAIN Handlers = Topics
ASSUME TopicOfAssumption == TopicOf \in [Messages -> Topics]
ASSUME UnderstandsAssumption == Understands \subseteq Handler \X Messages
ASSUME FaultsAssumption == Faults \subseteq Fault
ASSUME MaxFaultsAssumption == MaxFaults \in Nat

VARIABLES
  queue,      \* the SQS queue of each topic
  sent,       \* the messages published so far
  process,    \* "up" or "down"
  cancelled,  \* whether SIGTERM or SIGINT has cancelled the context
  feed,       \* watermill's channel of each topic: "closed", "idle", or the first
              \* message of the queue is "offered" or "taken" and not settled yet
  subscriber, \* the goroutine of SnsSubscriber.Subscribe
  listener,   \* the goroutine of MessageProcessor.Start
  todo,       \* the handlers that still have to see the listener's message
  failed,     \* whether one of the others returned an error
  handled,    \* history: the handlers that returned nil in this delivery
  faults      \* the faults so far

goroutines == <<subscriber, listener, todo, failed, handled>>
vars == <<queue, sent, process, cancelled, feed, goroutines, faults>>

-----------------------------------------------------------------------------
TypeOK ==
  /\ queue \in [Topics -> Seq(Messages)]
  /\ sent \in SUBSET Messages
  /\ process \in {"up", "down"}
  /\ cancelled \in BOOLEAN
  /\ feed \in [Topics -> {"closed", "idle", "offered", "taken"}]
  /\ subscriber \in [Topics -> {"none", "receive", "send", "ended"}]
  /\ listener \in [Topics -> {"none", "start", "select", "dispatch", "failed", "returned"}]
  /\ todo \in [Topics -> SUBSET Handler]
  /\ handled \in [Topics -> SUBSET Handler]
  /\ failed \in [Topics -> BOOLEAN]
  /\ faults \in 0..MaxFaults
  /\ \A t \in Topics : feed[t] \in {"offered", "taken"} => queue[t] # <<>>

Everywhere(value) == [t \in Topics |-> value]

Init ==
  /\ queue = Everywhere(<<>>)
  /\ sent = {}
  /\ process = "down"
  /\ cancelled = FALSE
  /\ feed = Everywhere("closed")
  /\ subscriber = Everywhere("none")
  /\ listener = Everywhere("none")
  /\ todo = Everywhere({})
  /\ failed = Everywhere(FALSE)
  /\ handled = Everywhere({})
  /\ faults = 0

Spend(fault) ==
  /\ fault \in Faults
  /\ faults < MaxFaults
  /\ faults' = faults + 1

\* The process is gone, whatever its goroutines were doing.
Exit ==
  /\ process' = "down"
  /\ cancelled' = FALSE
  /\ feed' = Everywhere("closed")
  /\ subscriber' = Everywhere("none")
  /\ listener' = Everywhere("none")
  /\ todo' = Everywhere({})
  /\ failed' = Everywhere(FALSE)
  /\ handled' = Everywhere({})

-----------------------------------------------------------------------------
(* The queues and their feeds                                              *)

Publish(m) ==
  /\ m \notin sent
  /\ sent' = sent \cup {m}
  /\ queue' = [queue EXCEPT ![TopicOf[m]] = Append(@, m)]
  /\ UNCHANGED <<process, cancelled, feed, goroutines, faults>>

Offer(t) ==
  /\ feed[t] = "idle"
  /\ queue[t] # <<>>
  /\ feed' = [feed EXCEPT ![t] = "offered"]
  /\ UNCHANGED <<queue, sent, process, cancelled, goroutines, faults>>

\* watermill notices the cancelled context, or ends a channel by itself.
FeedEnds(t) ==
  /\ feed[t] # "closed"
  /\ \/ cancelled /\ UNCHANGED faults
     \/ Spend("feedEnds")
  /\ feed' = [feed EXCEPT ![t] = "closed"]
  /\ UNCHANGED <<queue, sent, process, cancelled, goroutines>>

-----------------------------------------------------------------------------
(* Starting and ending                                                     *)

Start ==
  /\ process = "down"
  /\ process' = "up"
  /\ listener' = Everywhere("start")
  /\ UNCHANGED <<queue, sent, cancelled, feed, subscriber, todo, failed, handled, faults>>

\* A subscriber that was closed takes no more subscriptions.
SubscriberClosed == \E t \in Topics : listener[t] = "returned"

Subscribe(t) ==
  /\ listener[t] = "start"
  /\ ~SubscriberClosed
  /\ listener' = [listener EXCEPT ![t] = "select"]
  /\ subscriber' = [subscriber EXCEPT ![t] = "receive"]
  /\ feed' = [feed EXCEPT ![t] = "idle"]
  /\ UNCHANGED <<queue, sent, process, cancelled, todo, failed, handled, faults>>

SubscribeFails(t) ==
  /\ listener[t] = "start"
  /\ \/ (cancelled \/ SubscriberClosed) /\ UNCHANGED faults
     \/ Spend("subscribeFails")
  /\ listener' = [listener EXCEPT ![t] = "failed"]
  /\ UNCHANGED <<queue, sent, process, cancelled, feed, subscriber, todo, failed, handled>>

Stop ==
  /\ process = "up" /\ ~cancelled
  /\ Spend("stop")
  /\ cancelled' = TRUE
  /\ UNCHANGED <<queue, sent, process, feed, goroutines>>

Crash ==
  /\ process = "up"
  /\ Spend("crash")
  /\ Exit
  /\ UNCHANGED <<queue, sent>>

\* Mutant: the error is only logged, and the wait group not told.
ErrorIsLogged(t) ==
  /\ listener[t] = "failed"
  /\ listener' = [listener EXCEPT ![t] = "none"]
  /\ UNCHANGED <<queue, sent, process, cancelled, feed, subscriber, todo, failed, handled,
                 faults>>

\* os.Exit(1) of a listener that returned an error.
ExitOnError(t) ==
  /\ listener[t] = "failed"
  /\ Exit
  /\ UNCHANGED <<queue, sent, faults>>

\* The wait group is done: main returns.
AllReturned ==
  /\ process = "up"
  /\ \A t \in Topics : listener[t] = "returned"
  /\ Exit
  /\ UNCHANGED <<queue, sent, faults>>

-----------------------------------------------------------------------------
(* The goroutine of SnsSubscriber                                          *)

Take(t) ==
  /\ subscriber[t] = "receive"
  /\ feed[t] = "offered"
  /\ feed' = [feed EXCEPT ![t] = "taken"]
  /\ subscriber' = [subscriber EXCEPT ![t] = "send"]
  /\ UNCHANGED <<queue, sent, process, cancelled, listener, todo, failed, handled, faults>>

\* The context is cancelled or the feed is closed: close(out).
SubscriberEnds(t) ==
  /\ subscriber[t] = "receive"
  /\ cancelled \/ feed[t] = "closed"
  /\ subscriber' = [subscriber EXCEPT ![t] = "ended"]
  /\ UNCHANGED <<queue, sent, process, cancelled, feed, listener, todo, failed, handled, faults>>

\* The send gives way to the cancelled context: the message is not settled.
SendAbandoned(t) ==
  /\ subscriber[t] = "send"
  /\ cancelled
  /\ subscriber' = [subscriber EXCEPT ![t] = "receive"]
  /\ UNCHANGED <<queue, sent, process, cancelled, feed, listener, todo, failed, handled, faults>>

-----------------------------------------------------------------------------
(* The listener                                                            *)

\* The send and the receive on the unbuffered channel, and the start of Dispatch.
Receive(t) ==
  /\ subscriber[t] = "send"
  /\ listener[t] = "select"
  /\ subscriber' = [subscriber EXCEPT ![t] = "receive"]
  /\ listener' = [listener EXCEPT ![t] = "dispatch"]
  /\ todo' = [todo EXCEPT ![t] = Handlers[t]]
  /\ failed' = [failed EXCEPT ![t] = (Handlers[t] = {})]
  /\ handled' = [handled EXCEPT ![t] = {}]
  /\ UNCHANGED <<queue, sent, process, cancelled, feed, faults>>

\* Mutant: the subscriber, asked for a Closer, turns out to be none.
CloseNothing == UNCHANGED feed

\* The deferred Close of the subscriber all listeners share.
Close == feed' = Everywhere("closed")

ListenerCancelled(t) ==
  /\ listener[t] = "select"
  /\ cancelled
  /\ listener' = [listener EXCEPT ![t] = "failed"]
  /\ Close
  /\ UNCHANGED <<queue, sent, process, cancelled, subscriber, todo, failed, handled, faults>>

\* The channel is closed and the listener returns nil.
ListenerClosed(t) ==
  /\ listener[t] = "select"
  /\ subscriber[t] = "ended"
  /\ listener' = [listener EXCEPT ![t] = "returned"]
  /\ Close
  /\ UNCHANGED <<queue, sent, process, cancelled, subscriber, todo, failed, handled, faults>>

\* The message is not acknowledged; its feed will offer it again.
Nack(t) ==
  /\ feed' = [feed EXCEPT ![t] = IF @ = "closed" THEN @ ELSE "idle"]
  /\ UNCHANGED queue

\* Mutant: the feed is not told that its message is gone.
AckUnnoticed(t) ==
  \/ /\ feed[t] # "closed"
     /\ queue' = [queue EXCEPT ![t] = Tail(@)]
     /\ UNCHANGED feed
  \/ /\ feed[t] = "closed"
     /\ UNCHANGED <<queue, feed>>

\* A closed feed no longer listens for the acknowledgement.
Ack(t) ==
  \/ /\ feed[t] # "closed"
     /\ queue' = [queue EXCEPT ![t] = Tail(@)]
     /\ feed' = [feed EXCEPT ![t] = "idle"]
  \/ /\ feed[t] = "closed"
     /\ UNCHANGED <<queue, feed>>

Settled(t) ==
  /\ listener' = [listener EXCEPT ![t] = "select"]
  /\ todo' = [todo EXCEPT ![t] = {}]
  /\ failed' = [failed EXCEPT ![t] = FALSE]
  /\ handled' = [handled EXCEPT ![t] = {}]
  /\ UNCHANGED <<sent, process, cancelled, subscriber>>

\* The envelope can be read and names the type of message the handler expects.
UnmarshalMessage(h, m) == <<h, m>> \in Understands

CanHandle(t, h) == UnmarshalMessage(h, Head(queue[t]))

\* The handlers run one after the other, in the order of a map.
HandlerSkips(t, h) ==
  /\ listener[t] = "dispatch" /\ h \in todo[t]
  /\ ~CanHandle(t, h)
  /\ todo' = [todo EXCEPT ![t] = @ \ {h}]
  /\ UNCHANGED <<queue, sent, process, cancelled, feed, subscriber, listener, failed, handled,
                 faults>>

HandlerSucceeds(t, h) ==
  /\ listener[t] = "dispatch" /\ h \in todo[t]
  /\ CanHandle(t, h)
  /\ todo' = [todo EXCEPT ![t] = @ \ {h}]
  /\ handled' = [handled EXCEPT ![t] = @ \cup {h}]
  /\ UNCHANGED <<queue, sent, process, cancelled, feed, subscriber, listener, failed, faults>>

\* Mutant: the error of a handler is kept only if it is the last.
LastErrorWins(t, h) ==
  /\ listener[t] = "dispatch" /\ h \in todo[t]
  /\ CanHandle(t, h)
  /\ Spend("handlerFails")
  /\ todo' = [todo EXCEPT ![t] = @ \ {h}]
  /\ failed' = [failed EXCEPT ![t] = (todo[t] = {h})]
  /\ UNCHANGED <<queue, sent, process, cancelled, feed, subscriber, listener, handled>>

\* An error does not keep the other handlers from running.
HandlerFails(t, h) ==
  /\ listener[t] = "dispatch" /\ h \in todo[t]
  /\ CanHandle(t, h)
  /\ Spend("handlerFails")
  /\ todo' = [todo EXCEPT ![t] = @ \ {h}]
  /\ failed' = [failed EXCEPT ![t] = TRUE]
  /\ UNCHANGED <<queue, sent, process, cancelled, feed, subscriber, listener, handled>>

\* Mutant: the panic is recovered from, the message left as it is.
PanicForgetsNack(t, h) ==
  /\ listener[t] = "dispatch" /\ h \in todo[t]
  /\ CanHandle(t, h)
  /\ Spend("handlerPanics")
  /\ Settled(t)
  /\ UNCHANGED <<queue, feed>>

\* A panic does: the deferred function recovers and does not acknowledge.
HandlerPanics(t, h) ==
  /\ listener[t] = "dispatch" /\ h \in todo[t]
  /\ CanHandle(t, h)
  /\ Spend("handlerPanics")
  /\ Settled(t)
  /\ Nack(t)

Settle(t) ==
  /\ listener[t] = "dispatch" /\ todo[t] = {}
  /\ IF failed[t] THEN Nack(t) ELSE Ack(t)
  /\ Settled(t)
  /\ UNCHANGED faults

-----------------------------------------------------------------------------
SubscriberStep(t) == Take(t) \/ SubscriberEnds(t) \/ SendAbandoned(t)

ListenerStep(t) ==
  \/ Subscribe(t) \/ SubscribeFails(t)
  \/ Receive(t) \/ ListenerCancelled(t) \/ ListenerClosed(t)
  \/ \E h \in Handler :
       HandlerSkips(t, h) \/ HandlerSucceeds(t, h) \/ HandlerFails(t, h) \/ HandlerPanics(t, h)
  \/ Settle(t)
  \/ ExitOnError(t)

Next ==
  \/ \E m \in Messages : Publish(m)
  \/ \E t \in Topics : Offer(t) \/ FeedEnds(t) \/ SubscriberStep(t) \/ ListenerStep(t)
  \/ Start \/ AllReturned \/ Stop \/ Crash

Spec == Init /\ [][Next]_vars

\* Goroutines run, SQS delivers, watermill heeds the context, and the
\* supervisor starts the process again.
FairSpec ==
  /\ Spec
  /\ \A t \in Topics :
       /\ WF_vars(Offer(t)) /\ WF_vars(cancelled /\ FeedEnds(t))
       /\ WF_vars(SubscriberStep(t)) /\ WF_vars(ListenerStep(t))
  /\ WF_vars(Start) /\ WF_vars(AllReturned)

-----------------------------------------------------------------------------
(* Properties                                                              *)

\* A message leaves its queue only when every handler of the topic that can
\* decode it returned nil in that very delivery: no error, panic, stop or end
\* of the other listener turns into an acknowledgement.
LeavesHandled ==
  [][\A t \in Topics :
       queue[t] # <<>> /\ queue'[t] = Tail(queue[t]) =>
         {h \in Handlers[t] : CanHandle(t, h)} \subseteq handled[t]]_vars

\* Nobody waits for a goroutine that has gone.  A message taken from its feed,
\* which offers no other until it is settled, is with someone who will settle
\* it; a sender on the unbuffered channel has its listener, a listener its
\* sender; and once a listener has returned, no feed keeps another listening.
\* Only a stop, which all of them notice, comes in between.
NobodyWaitsInVain ==
  \A t \in Topics :
    /\ feed[t] = "taken" => subscriber[t] = "send" \/ listener[t] = "dispatch" \/ cancelled
    /\ subscriber[t] \in {"receive", "send"} => listener[t] \in {"select", "dispatch"} \/ cancelled
    /\ listener[t] \in {"select", "dispatch"} => subscriber[t] # "none"
    /\ SubscriberClosed => feed[t] = "closed"

\* A published message is handled in the end, whatever stops, panics and
\* restarts come in between: no goroutine keeps it in flight for ever.
QueuesDrain ==
  \A m \in Messages :
    m \in sent ~> \A i \in DOMAIN queue[TopicOf[m]] : queue[TopicOf[m]][i] # m

\* The process never goes on for good with one topic unattended: when one
\* listener has returned, the shared subscriber brings the others down.
NoneListensAlone ==
  (\E t \in Topics : listener[t] = "returned") ~> process = "down"

\* A process told to stop ends, whichever of its goroutines is in the middle
\* of a message or of a send.
StopEnds == cancelled ~> process = "down"

=============================================================================
