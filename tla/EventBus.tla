------------------------------ MODULE EventBus ------------------------------
(***************************************************************************)
(* util/eventbus: the goroutine of Bus.pump, the dispatcher goroutine of   *)
(* each subscribing Client, the callbacks it starts, and the goroutines    *)
(* that publish, subscribe and close.                                      *)
(*                                                                         *)
(* Channels are unbuffered, so a send and its receive are one action.  An  *)
(* event is its number in the order in which the pump accepted it and its  *)
(* type.  A client stands for its publishers too: they are closed with it. *)
(***************************************************************************)
EXTENDS Naturals, Sequences, SequencesExt

CONSTANTS
  Clients,
  Types,      \* event types
  FuncTypes,  \* those subscribed to with SubscribeFunc rather than Subscribe
  Wants,      \* Wants[c]: the types client c may subscribe to
  Publishes,  \* Publishes[c]: the types client c has publishers for
  Capacity,   \* maxPublishedEvents
  MaxEvents,  \* bound on the calls of Publish
  MaxCloses   \* bound on the calls of Close of subscribers, publishers and clients

ASSUME TypesAssumption == FuncTypes \subseteq Types
ASSUME ClientsAssumption == {Wants, Publishes} \subseteq [Clients -> SUBSET Types]
ASSUME CapacityAssumption == Capacity \in Nat \ {0}

None == "none"
ASSUME NoneIsNoClient == None \notin Clients

VARIABLES
  topics,     \* Bus.topics: for each type the clients subscribed to it, in order
  outputs,    \* outputs[c]: the types c has a subscriber for
  vals,       \* the pump's queue of published events
  pump,       \* where the pump is
  dests,      \* the clients that are still to be given Head(vals)
  routerDone, \* the pump's context has been cancelled
  svals,      \* svals[c]: the dispatcher's queue, which is unbounded
  disp,       \* disp[c]: where the dispatcher of c is, "none" before it exists
  cb,         \* cb[c]: the callback the dispatcher has started
  cancelled,  \* the context of c's dispatcher has been cancelled
  sending,    \* a goroutine of c is in the select of publish
  pubStopped, \* the stop flag of c's publishers
  closePc,    \* closePc[c]: progress of Client.Close
  busPc,      \* progress of Bus.Close
  busTodo,    \* clients that Bus.Close has not dealt with
  busCur,     \* the client that Bus.Close is closing
  started,    \* number of calls of Publish
  closes,     \* number of calls of Close by the users of the bus
  log,        \* history: the types of the accepted events
  got,        \* history: got[c], the events handed to c's subscribers, in order
  since       \* history: the length of log when c subscribed to a type

pumpVars == <<vals, pump, dests, routerDone>>
dispVars == <<svals, disp, cb, cancelled>>
subVars == <<topics, outputs, since>>
pubVars == <<sending, pubStopped, started>>
closerVars == <<closePc, busPc, busTodo, busCur>>
closeVars == <<closerVars, closes>>
vars == <<subVars, pumpVars, dispVars, pubVars, closeVars, log, got>>

Nums(q) == {q[i].n : i \in DOMAIN q}
Without(q, c) == RemoveFirst(q, c)
Goto(c, label) == disp' = [disp EXCEPT ![c] = label]
DropHead(c) == svals' = [svals EXCEPT ![c] = Tail(@)]
HeadType(c) == Head(svals[c]).t
CallClose == closes < MaxCloses /\ closes' = closes + 1

Init ==
  /\ topics = [t \in Types |-> <<>>]
  /\ outputs = [c \in Clients |-> {}]
  /\ vals = <<>> /\ pump = "wait" /\ dests = <<>> /\ routerDone = FALSE
  /\ svals = [c \in Clients |-> <<>>]
  /\ disp = [c \in Clients |-> "none"]
  /\ cb = [c \in Clients |-> "none"]
  /\ cancelled = [c \in Clients |-> FALSE]
  /\ sending = [c \in Clients |-> FALSE]
  /\ pubStopped = [c \in Clients |-> FALSE]
  /\ closePc = [c \in Clients |-> "open"]
  /\ busPc = "open" /\ busTodo = {} /\ busCur = None
  /\ started = 0 /\ closes = 0 /\ log = <<>>
  /\ got = [c \in Clients |-> <<>>]
  /\ since = [c \in Clients |-> [t \in Types |-> 0]]

-----------------------------------------------------------------------------
(* Subscribing. *)

\* Subscribe and SubscribeFunc, on an open client without a subscriber for t;
\* the first one starts the dispatcher.
Subscribe(c, t) ==
  /\ closePc[c] = "open" /\ t \notin outputs[c]
  /\ outputs' = [outputs EXCEPT ![c] = @ \cup {t}]
  /\ topics' = [topics EXCEPT ![t] = Append(@, c)]
  /\ since' = [since EXCEPT ![c][t] = Len(log)]
  /\ disp' = [disp EXCEPT ![c] = IF @ = "none" THEN "loop" ELSE @]
  /\ UNCHANGED <<pumpVars, svals, cb, cancelled, pubVars, closeVars, log, got>>

\* Subscriber.Close and SubscriberFunc.Close.  The owner of a closed Subscriber
\* no longer receives from it, so that a dispatcher which is offering it an
\* event ("chan") has nobody to give it to ("orphan").
SubscriberClose(c, t) ==
  /\ t \in outputs[c] /\ CallClose
  /\ outputs' = [outputs EXCEPT ![c] = @ \ {t}]
  /\ topics' = [topics EXCEPT ![t] = Without(@, c)]
  /\ disp' = [disp EXCEPT ![c] = IF @ = "chan" /\ HeadType(c) = t THEN "orphan" ELSE @]
  /\ UNCHANGED <<since, pumpVars, svals, cb, cancelled, pubVars, closerVars, log, got>>

-----------------------------------------------------------------------------
(* Publishing. *)

\* publish by a goroutine of c: it returns at once when the publisher is stopped.
Publish(c) ==
  /\ ~sending[c] /\ ~pubStopped[c] /\ started < MaxEvents
  /\ sending' = [sending EXCEPT ![c] = TRUE]
  /\ started' = started + 1
  /\ UNCHANGED <<subVars, pumpVars, dispVars, pubStopped, closeVars, log, got>>

\* publish called by c's callback.
CallbackPublish(c) ==
  /\ cb[c] = "running" /\ ~pubStopped[c] /\ started < MaxEvents
  /\ cb' = [cb EXCEPT ![c] = "publishing"]
  /\ started' = started + 1
  /\ UNCHANGED <<subVars, pumpVars, svals, disp, cancelled, sending, pubStopped,
                 closeVars, log, got>>

\* The calls of publish that are blocked in c's name return ...
Returns(c) ==
  \/ sending[c] /\ sending' = [sending EXCEPT ![c] = FALSE] /\ UNCHANGED cb
  \/ cb[c] = "publishing" /\ cb' = [cb EXCEPT ![c] = "running"] /\ UNCHANGED sending

\* ... because the publisher has been stopped,
PublishStopped(c) ==
  /\ pubStopped[c] /\ Returns(c)
  /\ UNCHANGED <<subVars, pumpVars, svals, disp, cancelled, pubStopped, started,
                 closeVars, log, got>>

\* PublisherClose is Publisher.Close.
PublisherClose(c) ==
  /\ ~pubStopped[c] /\ CallClose
  /\ pubStopped' = [pubStopped EXCEPT ![c] = TRUE]
  /\ UNCHANGED <<subVars, pumpVars, dispVars, sending, started, closerVars, log, got>>

-----------------------------------------------------------------------------
(* Bus.pump. *)

\* ... or because the pump has accepted the event: when it waits for one, or
\* while it delivers and its queue is not full.
PumpAccept(c, t) ==
  /\ \/ pump = "wait"
     \/ pump = "deliver" /\ dests # <<>> /\ Len(vals) < Capacity
  /\ Returns(c)
  /\ log' = Append(log, t)
  /\ vals' = Append(vals, [n |-> Len(log) + 1, t |-> t])
  /\ pump' = IF pump = "wait" THEN "route" ELSE pump
  /\ UNCHANGED <<subVars, dests, routerDone, svals, disp, cancelled, pubStopped,
                 started, closeVars, got>>

\* The subscribers are those of the moment at which the event is routed.
PumpRoute ==
  /\ pump = "route"
  /\ dests' = topics[Head(vals).t]
  /\ pump' = "deliver"
  /\ UNCHANGED <<subVars, vals, routerDone, dispVars, pubVars, closeVars, log, got>>

\* A dispatcher receives from the pump in each of its selects.
Accepting(c) ==
  \/ disp[c] = "loop" /\ svals[c] = <<>>
  \/ disp[c] \in {"chan", "orphan", "call"}

PumpDeliver ==
  /\ pump = "deliver" /\ dests # <<>> /\ Accepting(Head(dests))
  /\ svals' = [svals EXCEPT ![Head(dests)] = Append(@, Head(vals))]
  /\ dests' = Tail(dests)
  /\ UNCHANGED <<subVars, vals, pump, routerDone, disp, cb, cancelled, pubVars,
                 closeVars, log, got>>

\* Mutant of PumpSkip: the pump does not wait for a dispatcher that is busy.
PumpSkipBusy ==
  /\ pump = "deliver" /\ dests # <<>> /\ ~Accepting(Head(dests))
  /\ dests' = Tail(dests)
  /\ UNCHANGED <<subVars, vals, pump, routerDone, dispVars, pubVars, closeVars, log, got>>

\* d.closed(): the dispatcher has ended.
PumpSkip ==
  /\ pump = "deliver" /\ dests # <<>> /\ disp[Head(dests)] = "stopped"
  /\ dests' = Tail(dests)
  /\ UNCHANGED <<subVars, vals, pump, routerDone, dispVars, pubVars, closeVars, log, got>>

PumpDrop ==
  /\ pump = "deliver" /\ dests = <<>>
  /\ vals' = Tail(vals)
  /\ pump' = IF Tail(vals) = <<>> THEN "wait" ELSE "route"
  /\ UNCHANGED <<subVars, dests, routerDone, dispVars, pubVars, closeVars, log, got>>

PumpStop ==
  /\ routerDone
  /\ pump = "wait" \/ (pump = "deliver" /\ dests # <<>>)
  /\ pump' = "stopped"
  /\ UNCHANGED <<subVars, vals, dests, routerDone, dispVars, pubVars, closeVars, log, got>>

-----------------------------------------------------------------------------
(* subscribeState.pump and the two dispatch loops of client c. *)

\* Mutant of Lookup: an event without a subscriber is not dropped.
LookupNoDrop(c) ==
  /\ disp[c] = "loop" /\ svals[c] # <<>> /\ HeadType(c) \in outputs[c]
  /\ Goto(c, IF HeadType(c) \in FuncTypes THEN "start" ELSE "chan")
  /\ UNCHANGED <<subVars, pumpVars, svals, cb, cancelled, pubVars, closeVars, log, got>>

\* subscriberFor the event at the head; without one it is dropped.
Lookup(c) ==
  /\ disp[c] = "loop" /\ svals[c] # <<>>
  /\ \/ /\ HeadType(c) \notin outputs[c]
        /\ DropHead(c)
        /\ UNCHANGED disp
     \/ /\ HeadType(c) \in outputs[c]
        /\ Goto(c, IF HeadType(c) \in FuncTypes THEN "start" ELSE "chan")
        /\ UNCHANGED svals
  /\ UNCHANGED <<subVars, pumpVars, cb, cancelled, pubVars, closeVars, log, got>>

Hand(c) == got' = [got EXCEPT ![c] = Append(@, Head(svals[c]).n)]

\* Mutant of ChanRecv: vals.Drop is forgotten.
ChanRecvNoDrop(c) ==
  /\ disp[c] = "chan"
  /\ Hand(c) /\ Goto(c, "loop")
  /\ UNCHANGED <<subVars, pumpVars, svals, cb, cancelled, pubVars, closeVars, log>>

\* dispatchTyped: the owner of the Subscriber receives the event.
ChanRecv(c) ==
  /\ disp[c] = "chan"
  /\ Hand(c) /\ DropHead(c) /\ Goto(c, "loop")
  /\ UNCHANGED <<subVars, pumpVars, cb, cancelled, pubVars, closeVars, log>>

\* runFuncCallback is started in a goroutine of its own.
StartCallback(c) ==
  /\ disp[c] = "start"
  /\ Hand(c) /\ Goto(c, "call")
  /\ cb' = [cb EXCEPT ![c] = "running"]
  /\ UNCHANGED <<subVars, pumpVars, svals, cancelled, pubVars, closeVars, log>>

CallbackReturn(c) ==
  /\ cb[c] = "running"
  /\ cb' = [cb EXCEPT ![c] = "returned"]
  /\ UNCHANGED <<subVars, pumpVars, svals, disp, cancelled, pubVars, closeVars, log, got>>

\* dispatchFunc: callDone.
CallDone(c) ==
  /\ disp[c] = "call" /\ cb[c] = "returned"
  /\ DropHead(c) /\ Goto(c, "loop")
  /\ cb' = [cb EXCEPT ![c] = "none"]
  /\ UNCHANGED <<subVars, pumpVars, cancelled, pubVars, closeVars, log, got>>

\* Mutant of DispatchStop: dispatchTyped does not look at ctx.Done.
DispatchStopNotTyped(c) ==
  /\ cancelled[c] /\ Accepting(c) /\ disp[c] # "chan"
  /\ Goto(c, IF disp[c] = "call" THEN "closing" ELSE "stopped")
  /\ UNCHANGED <<subVars, pumpVars, svals, cb, cancelled, pubVars, closeVars, log, got>>

\* ctx.Done in one of the selects; dispatchFunc goes on to wait for the callback.
DispatchStop(c) ==
  /\ cancelled[c] /\ Accepting(c)
  /\ Goto(c, IF disp[c] = "call" THEN "closing" ELSE "stopped")
  /\ UNCHANGED <<subVars, pumpVars, svals, cb, cancelled, pubVars, closeVars, log, got>>

\* The callback has returned, or has taken five times slowSubscriberTimeout.
Closing(c) ==
  /\ disp[c] = "closing"
  /\ Goto(c, "stopped")
  /\ UNCHANGED <<subVars, pumpVars, svals, cb, cancelled, pubVars, closeVars, log, got>>

-----------------------------------------------------------------------------
(* Client.Close and Bus.Close. *)

\* The part under Client.mu, and the Stop of StopAndWait if there is a
\* dispatcher.  A second Close finds nothing to close and returns.
StartClose(c) ==
  /\ closePc[c] = "open"
  /\ closePc' = [closePc EXCEPT ![c] = "wait"]
  /\ cancelled' = [cancelled EXCEPT ![c] = disp[c] # "none"]

ClientClose(c) ==
  /\ StartClose(c) /\ CallClose
  /\ UNCHANGED <<subVars, pumpVars, svals, disp, cb, pubVars, busPc, busTodo, busCur,
                 log, got>>

\* Mutant of CloseSubscribers: Stop in place of StopAndWait.
CloseSubscribersNoWait(c) ==
  /\ closePc[c] = "wait"
  /\ outputs' = [outputs EXCEPT ![c] = {}]
  /\ topics' = [t \in Types |-> Without(topics[t], c)]
  /\ closePc' = [closePc EXCEPT ![c] = "publishers"]
  /\ UNCHANGED <<since, pumpVars, dispVars, pubVars, busPc, busTodo, busCur, closes, log, got>>

\* subscribeState.close goes on when the dispatcher has ended.  The pump skips an
\* ended dispatcher, so the order in which its subscribers are closed is not seen.
CloseSubscribers(c) ==
  /\ closePc[c] = "wait" /\ disp[c] \in {"none", "stopped"}
  /\ outputs' = [outputs EXCEPT ![c] = {}]
  /\ topics' = [t \in Types |-> Without(topics[t], c)]
  /\ closePc' = [closePc EXCEPT ![c] = "publishers"]
  /\ UNCHANGED <<since, pumpVars, dispVars, pubVars, busPc, busTodo, busCur, closes, log, got>>

ClosePublishers(c) ==
  /\ closePc[c] = "publishers"
  /\ pubStopped' = [pubStopped EXCEPT ![c] = TRUE]
  /\ closePc' = [closePc EXCEPT ![c] = "closed"]
  /\ UNCHANGED <<subVars, pumpVars, dispVars, sending, started, busPc, busTodo, busCur,
                 closes, log, got>>

\* router.StopAndWait ...
BusClose ==
  /\ busPc = "open"
  /\ routerDone' = TRUE
  /\ busPc' = "router"
  /\ UNCHANGED <<subVars, vals, pump, dests, dispVars, pubVars, closePc, busTodo, busCur,
                 closes, log, got>>

RouterStopped ==
  /\ busPc = "router" /\ pump = "stopped"
  /\ busPc' = "clients" /\ busTodo' = Clients
  /\ UNCHANGED <<subVars, pumpVars, dispVars, pubVars, closePc, busCur, closes, log, got>>

\* ... then the clients, one after the other.
PreviousClosed == busCur # None => closePc[busCur] = "closed"

BusCloseClient(c) ==
  /\ busPc = "clients" /\ PreviousClosed /\ c \in busTodo
  /\ busTodo' = busTodo \ {c}
  /\ \/ StartClose(c) /\ busCur' = c
     \/ closePc[c] # "open" /\ busCur' = None /\ UNCHANGED <<closePc, cancelled>>
  /\ UNCHANGED <<subVars, pumpVars, svals, disp, cb, pubVars, busPc, closes, log, got>>

BusClosed ==
  /\ busPc = "clients" /\ PreviousClosed /\ busTodo = {}
  /\ busPc' = "closed" /\ busCur' = None
  /\ UNCHANGED <<subVars, pumpVars, dispVars, pubVars, closePc, busTodo, closes, log, got>>

-----------------------------------------------------------------------------

Pump ==
  \/ PumpRoute \/ PumpDeliver \/ PumpSkip \/ PumpDrop \/ PumpStop
  \/ \E c \in Clients : \E t \in Publishes[c] : PumpAccept(c, t)

Dispatcher(c) ==
  Lookup(c) \/ StartCallback(c) \/ CallDone(c) \/ DispatchStop(c) \/ Closing(c)

Closer ==
  \/ \E c \in Clients : CloseSubscribers(c) \/ ClosePublishers(c) \/ BusCloseClient(c)
  \/ RouterStopped \/ BusClosed

Subscriber(c) == ChanRecv(c) \/ CallbackReturn(c)

User(c) ==
  \/ \E t \in Wants[c] : Subscribe(c, t) \/ SubscriberClose(c, t)
  \/ Publishes[c] # {} /\ (Publish(c) \/ CallbackPublish(c) \/ PublisherClose(c))
  \/ ClientClose(c)

Terminated == busPc = "closed" /\ UNCHANGED vars

Next ==
  \/ Pump \/ Closer \/ BusClose \/ Terminated
  \/ \E c \in Clients : Dispatcher(c) \/ Subscriber(c) \/ User(c) \/ PublishStopped(c)

Spec == Init /\ [][Next]_vars

\* The goroutines of the bus run.  Nobody has to receive an event, to return from
\* a callback, or to call a method.
FairSpec ==
  /\ Spec /\ WF_vars(Pump) /\ WF_vars(Closer)
  /\ \A c \in Clients : WF_vars(Dispatcher(c)) /\ WF_vars(PublishStopped(c))

-----------------------------------------------------------------------------
(* Properties. *)

Events == [n : Nat, t : Types]

\* The type of every variable, and the bound on the pump's queue.
TypeOK ==
  /\ topics \in [Types -> Seq(Clients)]
  /\ outputs \in [Clients -> SUBSET Types]
  /\ vals \in Seq(Events) /\ Len(vals) <= Capacity
  /\ pump \in {"wait", "route", "deliver", "stopped"}
  /\ dests \in Seq(Clients) /\ routerDone \in BOOLEAN
  /\ svals \in [Clients -> Seq(Events)]
  /\ disp \in [Clients -> {"none", "loop", "chan", "orphan", "start", "call", "closing",
                           "stopped"}]
  /\ cb \in [Clients -> {"none", "running", "publishing", "returned"}]
  /\ cancelled \in [Clients -> BOOLEAN]
  /\ sending \in [Clients -> BOOLEAN] /\ pubStopped \in [Clients -> BOOLEAN]
  /\ closePc \in [Clients -> {"open", "wait", "publishers", "closed"}]
  /\ busPc \in {"open", "router", "clients", "closed"}
  /\ busTodo \subseteq Clients /\ busCur \in Clients \cup {None}
  /\ started \in Nat /\ closes \in Nat /\ log \in Seq(Types)
  /\ got \in [Clients -> Seq(Nat)]
  /\ since \in [Clients -> [Types -> Nat]]

Line == INSTANCE Timeline WITH published <- Len(log), view <- got

\* doc.go: all events are published on one timeline, and the subscribers of a
\* client are given events in that order, each at most once, over two queues,
\* closed and renewed subscriptions included.
ImplementsTimeline == Line!Spec

\* Where event n, accepted by the pump, is on its way to client c.
OnItsWay(c, n) ==
  \/ (\E i \in DOMAIN got[c] : got[c][i] = n) \/ n \in Nums(svals[c])
  \/ vals # <<>> /\ n \in Nums(Tail(vals))
  \/ vals # <<>> /\ n = Head(vals).n /\ (pump = "route" \/ \E i \in DOMAIN dests : dests[i] = c)

\* No event that was accepted while c was subscribed to its type is lost, until
\* the client or the bus is closed: it has been handed over or is in a queue.
NothingSkipped ==
  \A c \in Clients : ~cancelled[c] /\ pump # "stopped" =>
    \A t \in outputs[c] : \A n \in (since[c][t] + 1)..Len(log) :
      log[n] = t => OnItsWay(c, n)

\* The bus and its queues are sound: typed, bounded, and without a gap on the way
\* from the pump to a subscriber.
QueuesSound == TypeOK /\ NothingSkipped

\* A call of Publish returns, even if no subscriber ever receives an event or
\* returns from its callback, and even if it comes after the pump has stopped.
PublishReturns ==
  \A c \in Clients : /\ sending[c] ~> ~sending[c]
                     /\ cb[c] = "publishing" ~> cb[c] # "publishing"

\* Bus.Close returns, even if a callback does not, and even if one is blocked in
\* Publish on a publisher that is closed only after it.
BusCloseReturns == busPc = "router" ~> busPc = "closed"

\* Once Client.Close has returned, no subscriber of the client is given an event.
QuietAfterClose ==
  [][\A c \in Clients : closePc[c] = "closed" => got'[c] = got[c]]_vars

\* No call into the bus hangs: Publish and Bus.Close return, whatever the
\* subscribers do.
BusCallsReturn == PublishReturns /\ BusCloseReturns

Responsive == \A c \in Clients : WF_vars(Subscriber(c))
Leaves(c, n) ==
  n \in Nums(svals[c]) ~> n \notin Nums(svals[c]) \/ cancelled[c] \/ disp[c] = "orphan"

\* When subscribers receive and callbacks return, what has reached the queue of a
\* client is dealt with, unless it is closed or the dispatcher is stuck with an
\* event for a Subscriber that was closed while it was offered.
EventuallyDelivered ==
  Responsive => \A c \in Clients, n \in 1..MaxEvents : Leaves(c, n)

Behind(c, n) == svals[c] # <<>> /\ n \in Nums(Tail(svals[c]))

\* A closed Subscriber does not keep the events of the client's other subscribers
\* waiting behind the one it was being offered.
OthersDelivered ==
  Responsive =>
    \A c \in Clients, n \in 1..MaxEvents : Behind(c, n) ~> ~Behind(c, n) \/ cancelled[c]
=============================================================================
