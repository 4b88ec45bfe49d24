--------------------------- MODULE EventBusProofs ---------------------------
(***************************************************************************)
(* Proofs about the event bus, for any clients, types of event and depth   *)
(* of the pump's queue, and any number of calls.                           *)
(*                                                                         *)
(* NothingSkipped does not follow from itself: it rests on what the topics *)
(* and the queues hold (Subscribed, Recorded) and on what the label of a   *)
(* dispatcher says (Dispatching).  That no client goes back on the         *)
(* timeline rests on the order of the numbers in the queues, and on a      *)
(* client being routed to once (Order).                                    *)
(***************************************************************************)
EXTENDS EventBus, QueueLemmas

Rising(q) == \A i, j \in 1..Len(q) : i < j => q[i].n < q[j].n

\* The events of queue q are what log l says they are.
Logged(q, l) == \A i \in 1..Len(q) : q[i].n \in 1..Len(l) /\ l[q[i].n] = q[i].t

\* The pump waits with an empty queue and works on the head of another.
PumpInv ==
  /\ pump = "wait" => vals = <<>>
  /\ pump \in {"route", "deliver"} => vals # <<>>

\* The topics are the subscriptions, each of them once.
Subscribed ==
  \A t \in Types :
    /\ Distinct(topics[t])
    /\ \A c \in Clients : t \in outputs[c] <=> Holds(topics[t], c)

\* The queues hold events of the log.
Recorded == Logged(vals, log) /\ \A c \in Clients : Logged(svals[c], log)

\* The labels at which a dispatcher works on the head of its queue.
AtHead == {"chan", "orphan", "start", "call"}

\* The label of the dispatcher of c says what has become of its queue and of c.
DispInv(c) ==
  /\ disp[c] \in AtHead => svals[c] # <<>>
  /\ disp[c] = "call" => Holds(got[c], svals[c][1].n)
  /\ disp[c] \in {"closing", "stopped"} => cancelled[c]
  /\ outputs[c] # {} => disp[c] # "none"
  /\ closePc[c] \in {"publishers", "closed"} => disp[c] \in {"none", "stopped"}

Dispatching == \A c \in Clients : DispInv(c)

\* Whatever client c has been given, or has in its queue, came before n.
Given(g, n) == \A i \in 1..Len(g) : g[i] < n
Queued(q, n) == \A i \in 1..Len(q) : q[i].n < n
Before(c, n) == Given(got[c], n) /\ Queued(svals[c], n)

\* The pump has still to give c the event at position k of its queue.
StillToRoute(c, k) == k > 1 \/ pump = "route" \/ (pump = "deliver" /\ Holds(dests, c))

\* The dispatcher of c has still to hand over the event at position k of its queue.
StillToHand(c, k) == (k > 1 \/ disp[c] # "call") /\ disp[c] \notin {"closing", "stopped"}

\* What c has been given, what is in its queue, and what the pump has for it, follow
\* each other on the timeline.
Routed(c) == \A k \in 1..Len(vals) : StillToRoute(c, k) => Before(c, vals[k].n)
Handed(c) == \A k \in 1..Len(svals[c]) : StillToHand(c, k) => Given(got[c], svals[c][k].n)
Past(c) == \A i \in 1..Len(got[c]) : got[c][i] \in 1..Len(log)

Order ==
  /\ Rising(vals) /\ Distinct(dests)
  /\ \A c \in Clients : Rising(svals[c]) /\ Past(c) /\ Routed(c) /\ Handed(c)

IInv ==
  TypeOK /\ PumpInv /\ Subscribed /\ Recorded /\ Dispatching /\ Order /\ NothingSkipped

-----------------------------------------------------------------------------
(* Sequences. *)

\* What Bus.unsubscribe leaves: the others stay, and c goes if it was there once.
LEMMA WithoutProperties ==
  ASSUME NEW S, NEW q \in Seq(S), NEW c
  PROVE  /\ Without(q, c) \in Seq(S)
         /\ \A d : Holds(Without(q, c), d) => Holds(q, d)
         /\ \A d : d # c /\ Holds(q, d) => Holds(Without(q, c), d)
         /\ Distinct(q) => Distinct(Without(q, c)) /\ ~Holds(Without(q, c), c)
BY RemoveFirstProperties DEF Without

\* The log grows at its end, so that what it says of a queue stays true.
LEMMA LoggedLater ==
  ASSUME NEW S, NEW l \in Seq(S), NEW x \in S, NEW q, Logged(q, l)
  PROVE  Logged(q, Append(l, x))
<1>1. Len(l) \in Nat /\ Len(Append(l, x)) = Len(l) + 1
      /\ \A i \in 1..Len(l) : Append(l, x)[i] = l[i]
  BY AppendFacts
<1>2. 1..Len(l) \subseteq 1..Len(Append(l, x))
  BY <1>1
<1> QED BY <1>1, <1>2 DEF Logged

\* A logged queue takes a logged event.
LEMMA LoggedAppend ==
  ASSUME NEW l, NEW q \in Seq(Events), NEW e \in Events, Logged(q, l),
         e.n \in 1..Len(l), l[e.n] = e.t
  PROVE  Logged(Append(q, e), l)
<1>1. /\ Len(q) \in Nat /\ Len(Append(q, e)) = Len(q) + 1
      /\ Append(q, e)[Len(q) + 1] = e
      /\ \A i \in 1..Len(q) : Append(q, e)[i] = q[i]
  BY AppendFacts
<1>2. \A i \in 1..Len(Append(q, e)) : i \in 1..Len(q) \/ i = Len(q) + 1
  BY <1>1
<1> QED BY <1>1, <1>2 DEF Logged

\* What is said of every element of a queue holds without its head.
LEMMA QueueTail ==
  ASSUME NEW q \in Seq(Events), q # <<>>
  PROVE  /\ \A l : Logged(q, l) => Logged(Tail(q), l)
         /\ \A n : Queued(q, n) => Queued(Tail(q), n)
         /\ Rising(q) => Rising(Tail(q))
<1>1. /\ Len(q) \in Nat \ {0} /\ Len(Tail(q)) = Len(q) - 1
      /\ \A i \in 1..Len(q) - 1 : Tail(q)[i] = q[i + 1]
  BY TailProperties
<1>2. \A i \in 1..Len(Tail(q)) : i + 1 \in 1..Len(q) /\ Tail(q)[i] = q[i + 1]
  BY <1>1
<1>3. \A i, j \in 1..Len(Tail(q)) : i < j => i + 1 < j + 1
  BY <1>1
<1>4. ASSUME NEW l, Logged(q, l) PROVE Logged(Tail(q), l)
  BY <1>2, <1>4 DEF Logged
<1>5. ASSUME NEW n, Queued(q, n) PROVE Queued(Tail(q), n)
  BY <1>2, <1>5 DEF Queued
<1>6. ASSUME Rising(q) PROVE Rising(Tail(q))
  BY <1>2, <1>3, <1>6 DEF Rising
<1> QED BY <1>4, <1>5, <1>6

\* A rising queue takes an event that comes after all of it.
LEMMA RisingAppend ==
  ASSUME NEW q \in Seq(Events), NEW e \in Events, Rising(q), Queued(q, e.n)
  PROVE  Rising(Append(q, e))
<1>1. /\ Len(q) \in Nat /\ Len(Append(q, e)) = Len(q) + 1
      /\ Append(q, e)[Len(q) + 1] = e
      /\ \A i \in 1..Len(q) : Append(q, e)[i] = q[i]
  BY AppendFacts
<1>2. \A i \in 1..Len(Append(q, e)) : i \in 1..Len(q) \/ i = Len(q) + 1
  BY <1>1
<1>3. \A i, j \in 1..Len(Append(q, e)) : i < j => i \in 1..Len(q)
  BY <1>1
<1> QED BY <1>1, <1>2, <1>3 DEF Rising, Queued

-----------------------------------------------------------------------------
(* Types. *)

\* What the other parts of the invariant talk about.
core == <<topics, outputs, since, vals, pump, dests, svals, disp, cancelled, closePc, log, got>>

\* The steps that change it.
BusSteps == PumpRoute \/ PumpDeliver \/ PumpSkip \/ PumpDrop \/ PumpStop
TypeSteps(c, t) == Subscribe(c, t) \/ SubscriberClose(c, t) \/ PumpAccept(c, t)
ClientSteps(c) ==
  \/ Lookup(c) \/ ChanRecv(c) \/ StartCallback(c) \/ CallDone(c) \/ DispatchStop(c)
  \/ Closing(c) \/ CloseSubscribers(c) \/ ClosePublishers(c)
  \/ (StartClose(c) /\ UNCHANGED <<subVars, pumpVars, svals, disp, pubVars, log, got>>)

\* A client subscribes to and publishes events of the types of the bus.
LEMMA ClientTypes ==
  ASSUME NEW c \in Clients
  PROVE  Wants[c] \subseteq Types /\ Publishes[c] \subseteq Types
BY ClientsAssumption

\* Every other step leaves that alone.
LEMMA Steps ==
  ASSUME [Next]_vars
  PROVE  \/ UNCHANGED core
         \/ BusSteps
         \/ \E c \in Clients, t \in Types : TypeSteps(c, t)
         \/ \E c \in Clients : ClientSteps(c)
<1> USE DEF pumpVars, dispVars, subVars, pubVars, closerVars, closeVars, core
<1>1. CASE UNCHANGED vars
  BY <1>1 DEF vars
<1>2. CASE Pump
  BY <1>2, ClientTypes DEF Pump, BusSteps, TypeSteps
<1>3. CASE Closer
  <2>1. CASE RouterStopped \/ BusClosed
    BY <2>1 DEF RouterStopped, BusClosed
  <2>2. ASSUME NEW c \in Clients, CloseSubscribers(c) \/ ClosePublishers(c)
        PROVE  ClientSteps(c)
    BY <2>2 DEF ClientSteps
  <2>3. ASSUME NEW c \in Clients, BusCloseClient(c)
        PROVE  ClientSteps(c) \/ UNCHANGED core
    BY <2>3 DEF BusCloseClient, ClientSteps
  <2> QED BY <1>3, <2>1, <2>2, <2>3 DEF Closer
<1>4. CASE BusClose \/ Terminated
  BY <1>4 DEF BusClose, Terminated, vars
<1>5. ASSUME NEW c \in Clients, Dispatcher(c) PROVE ClientSteps(c)
  BY <1>5 DEF Dispatcher, ClientSteps
<1>6. ASSUME NEW c \in Clients, Subscriber(c) PROVE ClientSteps(c) \/ UNCHANGED core
  BY <1>6 DEF Subscriber, CallbackReturn, ClientSteps
<1>7. ASSUME NEW c \in Clients, User(c)
      PROVE  UNCHANGED core \/ ClientSteps(c) \/ \E t \in Types : TypeSteps(c, t)
  <2>1. CASE \E t \in Wants[c] : Subscribe(c, t) \/ SubscriberClose(c, t)
    BY <2>1, ClientTypes DEF TypeSteps
  <2>2. CASE Publish(c) \/ CallbackPublish(c) \/ PublisherClose(c)
    BY <2>2 DEF Publish, CallbackPublish, PublisherClose
  <2>3. CASE ClientClose(c)
    BY <2>3 DEF ClientClose, ClientSteps
  <2> QED BY <1>7, <2>1, <2>2, <2>3 DEF User
<1>8. ASSUME NEW c \in Clients, PublishStopped(c) PROVE UNCHANGED core
  BY <1>8 DEF PublishStopped
<1> QED BY <1>1, <1>2, <1>3, <1>4, <1>5, <1>6, <1>7, <1>8 DEF Next

Label == {"none", "loop", "chan", "orphan", "start", "call", "closing", "stopped"}

\* The variables that only TypeOK talks about.
AsideType ==
  /\ routerDone \in BOOLEAN
  /\ cb \in [Clients -> {"none", "running", "publishing", "returned"}]
  /\ sending \in [Clients -> BOOLEAN] /\ pubStopped \in [Clients -> BOOLEAN]
  /\ busPc \in {"open", "router", "clients", "closed"}
  /\ busTodo \subseteq Clients /\ busCur \in Clients \cup {None}
  /\ started \in Nat /\ closes \in Nat

CoreType ==
  /\ topics \in [Types -> Seq(Clients)]
  /\ outputs \in [Clients -> SUBSET Types]
  /\ vals \in Seq(Events) /\ Len(vals) <= Capacity
  /\ pump \in {"wait", "route", "deliver", "stopped"}
  /\ dests \in Seq(Clients)
  /\ svals \in [Clients -> Seq(Events)]
  /\ disp \in [Clients -> Label]
  /\ cancelled \in [Clients -> BOOLEAN]
  /\ closePc \in [Clients -> {"open", "wait", "publishers", "closed"}]
  /\ log \in Seq(Types)
  /\ got \in [Clients -> Seq(Nat)]
  /\ since \in [Clients -> [Types -> Nat]]

\* TypeOK in two halves.
LEMMA TypeHalves == TypeOK <=> AsideType /\ CoreType
BY DEF TypeOK, AsideType, CoreType, Label

\* Every step keeps the types of the first half.
LEMMA AsideStep == AsideType /\ [Next]_vars => AsideType'
<1> SUFFICES ASSUME AsideType, [Next]_vars PROVE AsideType'
  OBVIOUS
<1> USE DEF pumpVars, dispVars, subVars, pubVars, closerVars, closeVars, AsideType
<1>1. CASE UNCHANGED vars
  BY <1>1 DEF vars
<1>2. CASE PumpRoute \/ PumpDeliver \/ PumpSkip \/ PumpDrop \/ PumpStop
  BY <1>2 DEF PumpRoute, PumpDeliver, PumpSkip, PumpDrop, PumpStop
<1>3. ASSUME NEW c \in Clients, NEW t, PumpAccept(c, t) PROVE AsideType'
  BY <1>3 DEF PumpAccept, Returns
<1>4. ASSUME NEW c \in Clients, CloseSubscribers(c) \/ ClosePublishers(c) PROVE AsideType'
  BY <1>4 DEF CloseSubscribers, ClosePublishers
<1>5. ASSUME NEW c \in Clients, BusCloseClient(c) PROVE AsideType'
  BY <1>5 DEF BusCloseClient
<1>6. CASE RouterStopped \/ BusClosed \/ BusClose \/ Terminated
  BY <1>6 DEF RouterStopped, BusClosed, BusClose, Terminated, vars
<1>7. ASSUME NEW c \in Clients, Dispatcher(c) PROVE AsideType'
  BY <1>7 DEF Dispatcher, Lookup, StartCallback, CallDone, DispatchStop, Closing
<1>8. ASSUME NEW c \in Clients, Subscriber(c) PROVE AsideType'
  BY <1>8 DEF Subscriber, ChanRecv, CallbackReturn
<1>9. ASSUME NEW c \in Clients, NEW t, Subscribe(c, t) \/ SubscriberClose(c, t)
      PROVE  AsideType'
  BY <1>9 DEF Subscribe, SubscriberClose, CallClose
<1>10. ASSUME NEW c \in Clients, Publish(c) \/ CallbackPublish(c) PROVE AsideType'
  <2>1. started' \in Nat
    BY <1>10 DEF Publish, CallbackPublish
  <2>2. sending' \in [Clients -> BOOLEAN]
    BY <1>10, Zenon DEF Publish, CallbackPublish
  <2>3. cb' \in [Clients -> {"none", "running", "publishing", "returned"}]
    BY <1>10 DEF Publish, CallbackPublish
  <2> QED BY <1>10, <2>1, <2>2, <2>3 DEF Publish, CallbackPublish
<1>12. ASSUME NEW c \in Clients, PublisherClose(c) \/ ClientClose(c) PROVE AsideType'
  <2>1. closes' \in Nat
    BY <1>12 DEF PublisherClose, ClientClose, CallClose
  <2>2. pubStopped' \in [Clients -> BOOLEAN]
    BY <1>12, Zenon DEF PublisherClose, ClientClose
  <2> QED BY <1>12, <2>1, <2>2 DEF PublisherClose, ClientClose
<1>11. ASSUME NEW c \in Clients, PublishStopped(c) PROVE AsideType'
  BY <1>11 DEF PublishStopped, Returns
<1> QED
  BY <1>1, <1>2, <1>3, <1>4, <1>5, <1>6, <1>7, <1>8, <1>9, <1>10, <1>11, <1>12
  DEF Next, Pump, Closer, User

\* Every step keeps the types of the second half, the bound on the pump's queue, and
\* what the pump needs of its queue.
LEMMA CoreStep ==
  CoreType /\ PumpInv /\ Dispatching /\ [Next]_vars => CoreType' /\ PumpInv'
<1> SUFFICES ASSUME CoreType, PumpInv, Dispatching, [Next]_vars PROVE CoreType' /\ PumpInv'
  OBVIOUS
<1> USE DEF pumpVars, dispVars, subVars, pubVars, closerVars, closeVars, CoreType, PumpInv
<1>1. CASE UNCHANGED core
  BY <1>1 DEF core
<1>2. CASE BusSteps
  <2>1. CASE PumpRoute
    <3>1. topics[Head(vals).t] \in Seq(Clients)
      <4>1. vals # <<>>
        BY <2>1 DEF PumpRoute
      <4>2. Head(vals) \in Events
        BY <4>1, TailProperties
      <4> QED BY <4>2 DEF Events
    <3> QED BY <2>1, <3>1 DEF PumpRoute
  <2>2. CASE PumpDeliver
    <3>1. vals # <<>> /\ dests # <<>>
      BY <2>2 DEF PumpDeliver
    <3>2. Head(vals) \in Events /\ Head(dests) \in Clients /\ Tail(dests) \in Seq(Clients)
      BY <3>1, TailProperties
    <3> QED BY <2>2, <3>2, AppendFacts DEF PumpDeliver
  <2>3. CASE PumpSkip
    BY <2>3 DEF PumpSkip
  <2>4. CASE PumpDrop
    <3>1. vals # <<>> /\ Capacity \in Nat
      BY <2>4, CapacityAssumption DEF PumpDrop
    <3>2. Tail(vals) \in Seq(Events) /\ Len(Tail(vals)) <= Capacity
      BY <3>1, TailProperties
    <3> QED BY <2>4, <3>2 DEF PumpDrop
  <2>5. CASE PumpStop
    BY <2>5 DEF PumpStop
  <2> QED BY <1>2, <2>1, <2>2, <2>3, <2>4, <2>5 DEF BusSteps
<1>3. ASSUME NEW c \in Clients, NEW t \in Types, TypeSteps(c, t)
      PROVE  CoreType' /\ PumpInv'
  <2>1. CASE Subscribe(c, t)
    <3>1. since' \in [Clients -> [Types -> Nat]]
      BY <2>1 DEF Subscribe
    <3>2. topics' \in [Types -> Seq(Clients)]
      BY <2>1 DEF Subscribe
    <3>3. disp' \in [Clients -> Label] /\ outputs' \in [Clients -> SUBSET Types]
      BY <2>1 DEF Subscribe, Label
    <3> QED BY <2>1, <3>1, <3>2, <3>3 DEF Subscribe
  <2>2. CASE SubscriberClose(c, t)
    <3>1. Without(topics[t], c) \in Seq(Clients)
      <4>1. topics[t] \in Seq(Clients)
        OBVIOUS
      <4> QED BY <4>1, WithoutProperties, Zenon
    <3>2. disp' \in [Clients -> Label] /\ outputs' \in [Clients -> SUBSET Types]
      BY <2>2 DEF SubscriberClose, Label
    <3> QED BY <2>2, <3>1, <3>2 DEF SubscriberClose
  <2>3. CASE PumpAccept(c, t)
    <3> DEFINE e == [n |-> Len(log) + 1, t |-> t]
    <3>1. e \in Events
      BY DEF Events
    <3>2. vals' = Append(vals, e) /\ log' = Append(log, t)
      BY <2>3 DEF PumpAccept
    <3> HIDE DEF e
    <3>3. vals' \in Seq(Events) /\ Len(vals') = Len(vals) + 1 /\ vals' # <<>>
      <4>1. vals \in Seq(Events)
        OBVIOUS
      <4>2. Append(vals, e) \in Seq(Events) /\ Len(Append(vals, e)) = Len(vals) + 1
            /\ Len(vals) \in Nat
        BY ONLY <3>1, <4>1, AppendFacts
      <4> QED BY ONLY <3>2, <4>2
    <3>4. Len(vals') <= Capacity
      BY <2>3, <3>3, CapacityAssumption DEF PumpAccept
    <3>5. log' \in Seq(Types)
      BY <3>2
    <3> QED BY <2>3, <3>3, <3>4, <3>5 DEF PumpAccept
  <2> QED BY <1>3, <2>1, <2>2, <2>3 DEF TypeSteps
<1>4. ASSUME NEW c \in Clients, ClientSteps(c) PROVE CoreType' /\ PumpInv'
  <2>1. svals[c] # <<>> => Head(svals[c]).n \in Nat /\ Tail(svals[c]) \in Seq(Events)
    <3>1. svals[c] \in Seq(Events)
      OBVIOUS
    <3>2. svals[c] # <<>> => Head(svals[c]) \in Events /\ Tail(svals[c]) \in Seq(Events)
      BY <3>1, TailProperties
    <3> QED BY <3>2 DEF Events
  <2>2. CASE Lookup(c)
    BY <2>1, <2>2 DEF Lookup, DropHead, Goto, Label
  <2>3. CASE ChanRecv(c)
    <3>1. svals[c] # <<>>
      BY <2>3 DEF ChanRecv, Dispatching, DispInv, AtHead
    <3> QED BY <2>1, <2>3, <3>1 DEF ChanRecv, Hand, DropHead, Goto, Label
  <2>4. CASE StartCallback(c)
    <3>1. svals[c] # <<>>
      BY <2>4 DEF StartCallback, Dispatching, DispInv, AtHead
    <3> QED BY <2>1, <2>4, <3>1 DEF StartCallback, Hand, Goto, Label
  <2>5. CASE CallDone(c)
    <3>1. svals[c] # <<>>
      BY <2>5 DEF CallDone, Dispatching, DispInv, AtHead
    <3> QED BY <2>1, <2>5, <3>1 DEF CallDone, DropHead, Goto, Label
  <2>6. CASE DispatchStop(c) \/ Closing(c)
    BY <2>6 DEF DispatchStop, Closing, Goto, Label
  <2>7. CASE CloseSubscribers(c)
    <3>1. ASSUME NEW t \in Types PROVE Without(topics[t], c) \in Seq(Clients)
      <4>1. topics[t] \in Seq(Clients)
        OBVIOUS
      <4> QED BY <4>1, WithoutProperties, Zenon
    <3> QED BY <2>7, <3>1 DEF CloseSubscribers
  <2>8. CASE ClosePublishers(c)
    BY <2>8 DEF ClosePublishers
  <2>9. CASE StartClose(c) /\ UNCHANGED <<subVars, pumpVars, svals, disp, pubVars, log, got>>
    BY <2>9 DEF StartClose
  <2> QED BY <1>4, <2>2, <2>3, <2>4, <2>5, <2>6, <2>7, <2>8, <2>9 DEF ClientSteps
<1> QED BY <1>1, <1>2, <1>3, <1>4, Steps

-----------------------------------------------------------------------------
(* Topics and queues. *)

\* Subscribing and unsubscribing keep the topics and the subscriptions in step.
LEMMA SubscribedStep ==
  ASSUME CoreType, Subscribed, [Next]_vars
  PROVE  Subscribed'
<1> USE DEF pumpVars, dispVars, subVars, pubVars, closerVars, closeVars
<1>1. CASE UNCHANGED <<topics, outputs>>
  BY <1>1 DEF Subscribed
<1>2. ASSUME NEW c \in Clients, NEW t \in Types, Subscribe(c, t) PROVE Subscribed'
  <2>1. /\ topics[t] \in Seq(Clients) /\ ~Holds(topics[t], c) /\ Distinct(topics[t])
        /\ \A d \in Clients : t \in outputs[d] <=> Holds(topics[t], d)
    BY <1>2 DEF Subscribe, Subscribed, CoreType
  <2>2. /\ Len(topics[t]) \in Nat /\ Len(Append(topics[t], c)) = Len(topics[t]) + 1
        /\ Append(topics[t], c)[Len(topics[t]) + 1] = c
        /\ \A i \in 1..Len(topics[t]) : Append(topics[t], c)[i] = topics[t][i]
    BY ONLY <2>1, AppendFacts, c \in Clients
  <2>3. Distinct(Append(topics[t], c))
    BY ONLY <2>1, <2>2 DEF Distinct, Holds
  <2>4. \A d \in Clients : Holds(Append(topics[t], c), d) <=> d = c \/ Holds(topics[t], d)
    BY ONLY <2>1, <2>2 DEF Holds
  <2>5. \A d \in Clients, u \in Types :
          u \in outputs'[d] <=> (d = c /\ u = t) \/ u \in outputs[d]
    BY <1>2 DEF Subscribe, CoreType
  <2>6. \A u \in Types : topics'[u] = IF u = t THEN Append(topics[t], c) ELSE topics[u]
    BY <1>2 DEF Subscribe, CoreType
  <2> QED BY <2>1, <2>3, <2>4, <2>5, <2>6 DEF Subscribed
<1>3. ASSUME NEW c \in Clients, NEW T \in SUBSET Types,
             \A d \in Clients : outputs'[d] = IF d = c THEN outputs[d] \ T ELSE outputs[d],
             \A u \in Types :
               topics'[u] = IF u \in T THEN Without(topics[u], c) ELSE topics[u]
      PROVE  Subscribed'
  <2> SUFFICES ASSUME NEW u \in Types
               PROVE  /\ Distinct(topics'[u])
                      /\ \A d \in Clients : u \in outputs'[d] <=> Holds(topics'[u], d)
    BY DEF Subscribed
  <2>1. /\ topics[u] \in Seq(Clients) /\ Distinct(topics[u])
        /\ \A d \in Clients : u \in outputs[d] <=> Holds(topics[u], d)
    BY DEF Subscribed, CoreType
  <2>2. CASE u \in T
    <3>1. /\ Distinct(Without(topics[u], c)) /\ ~Holds(Without(topics[u], c), c)
          /\ \A d : Holds(Without(topics[u], c), d) => Holds(topics[u], d)
          /\ \A d : d # c /\ Holds(topics[u], d) => Holds(Without(topics[u], c), d)
      BY <2>1, WithoutProperties
    <3> QED BY <1>3, <2>1, <2>2, <3>1
  <2>3. CASE u \notin T
    BY <1>3, <2>1, <2>3
  <2> QED BY <2>2, <2>3
<1>4. ASSUME NEW c \in Clients, NEW t \in Types, SubscriberClose(c, t) PROVE Subscribed'
  <2>1. \A d \in Clients : outputs'[d] = IF d = c THEN outputs[d] \ {t} ELSE outputs[d]
    BY <1>4 DEF SubscriberClose, CoreType
  <2>2. \A u \in Types : topics'[u] = IF u \in {t} THEN Without(topics[u], c) ELSE topics[u]
    BY <1>4 DEF SubscriberClose, CoreType
  <2> QED BY <1>3, <2>1, <2>2
<1>5. ASSUME NEW c \in Clients, CloseSubscribers(c) PROVE Subscribed'
  <2>1. \A d \in Clients : outputs'[d] = IF d = c THEN outputs[d] \ Types ELSE outputs[d]
    BY <1>5 DEF CloseSubscribers, CoreType
  <2>2. \A u \in Types : topics'[u] = IF u \in Types THEN Without(topics[u], c) ELSE topics[u]
    BY <1>5 DEF CloseSubscribers, CoreType
  <2> QED BY <1>3, <2>1, <2>2
<1>6. CASE BusSteps
  BY <1>1, <1>6 DEF BusSteps, PumpRoute, PumpDeliver, PumpSkip, PumpDrop, PumpStop
<1>7. ASSUME NEW c \in Clients, NEW t \in Types, PumpAccept(c, t) PROVE Subscribed'
  BY <1>1, <1>7 DEF PumpAccept
<1>8. ASSUME NEW c \in Clients, ClientSteps(c), ~CloseSubscribers(c) PROVE Subscribed'
  BY <1>1, <1>8
  DEF ClientSteps, Lookup, ChanRecv, StartCallback, CallDone, DispatchStop, Closing,
      ClosePublishers
<1> QED BY <1>1, <1>2, <1>4, <1>5, <1>6, <1>7, <1>8, Steps DEF core, TypeSteps

\* The types of what belongs to client c, and of the heads of the queues.
LEMMA ClientType ==
  ASSUME CoreType, NEW c \in Clients
  PROVE  /\ svals[c] \in Seq(Events) /\ got[c] \in Seq(Nat) /\ disp[c] \in Label
         /\ outputs[c] \in SUBSET Types /\ cancelled[c] \in BOOLEAN
         /\ svals[c] # <<>> => Head(svals[c]) = svals[c][1] /\ svals[c][1] \in Events
BY TailProperties DEF CoreType

\* What vals.Drop of client c's dispatcher leaves.
LEMMA DropHeadEffect ==
  ASSUME CoreType, NEW c \in Clients, DropHead(c)
  PROVE  \A d \in Clients : svals'[d] = IF d = c THEN Tail(svals[c]) ELSE svals[d]
BY DEF CoreType, DropHead

\* The event that the pump accepts.
LEMMA AcceptEffect ==
  ASSUME CoreType, NEW c \in Clients, NEW t \in Types, PumpAccept(c, t)
  PROVE  \E e \in Events :
           /\ e.n = Len(log) + 1 /\ e.t = t
           /\ vals' = Append(vals, e) /\ log' = Append(log, t)
           /\ Len(log') = Len(log) + 1 /\ log'[e.n] = t
           /\ \A n \in 1..Len(log) : log'[n] = log[n]
<1> DEFINE e == [n |-> Len(log) + 1, t |-> t]
<1>1. log \in Seq(Types)
  BY DEF CoreType
<1>2. /\ Len(Append(log, t)) = Len(log) + 1 /\ Append(log, t)[Len(log) + 1] = t
      /\ Len(log) \in Nat /\ \A n \in 1..Len(log) : Append(log, t)[n] = log[n]
  BY ONLY <1>1, AppendFacts, t \in Types
<1>3. e \in Events /\ e.n = Len(log) + 1 /\ e.t = t
  BY <1>2 DEF Events
<1>4. vals' = Append(vals, e) /\ log' = Append(log, t)
  BY DEF PumpAccept
<1> HIDE DEF e
<1> QED BY ONLY <1>2, <1>3, <1>4

\* What the pump gives to the first client of dests.
LEMMA DeliverEffect ==
  ASSUME CoreType, PumpInv, PumpDeliver
  PROVE  /\ Head(vals) = vals[1] /\ vals[1] \in Events /\ Len(vals) \in Nat \ {0}
         /\ Head(dests) = dests[1] /\ dests[1] \in Clients /\ dests # <<>>
         /\ \A d \in Clients :
              svals'[d] = IF d = dests[1] THEN Append(svals[d], vals[1]) ELSE svals[d]
<1>1. vals # <<>> /\ dests # <<>>
  BY DEF PumpDeliver, PumpInv
<1>2. vals \in Seq(Events) /\ dests \in Seq(Clients)
  BY DEF CoreType
<1>3. /\ Head(vals) = vals[1] /\ vals[1] \in Events /\ Len(vals) \in Nat \ {0}
      /\ Head(dests) = dests[1] /\ dests[1] \in Clients
  BY ONLY <1>1, <1>2, TailProperties
<1> QED BY <1>1, <1>3 DEF PumpDeliver, CoreType

\* The queues go on holding events of the log.
LEMMA RecordedStep ==
  ASSUME CoreType, PumpInv, Dispatching, Recorded, [Next]_vars
  PROVE  Recorded'
<1> USE DEF pumpVars, dispVars, subVars, pubVars, closerVars, closeVars
<1>1. CASE UNCHANGED <<vals, svals, log>>
  BY <1>1 DEF Recorded
<1>2. ASSUME NEW c \in Clients, NEW t \in Types, PumpAccept(c, t) PROVE Recorded'
  <2>1. PICK e \in Events :
          /\ e.n = Len(log) + 1 /\ e.t = t
          /\ vals' = Append(vals, e) /\ log' = Append(log, t)
          /\ Len(log') = Len(log) + 1 /\ log'[e.n] = t
    BY <1>2, AcceptEffect
  <2>2. log \in Seq(Types) /\ vals \in Seq(Events) /\ Len(log) \in Nat
    BY DEF CoreType
  <2>3. \A d \in Clients : Logged(svals[d], log')
    BY <2>1, <2>2, LoggedLater DEF Recorded
  <2>4. Logged(vals, log')
    BY <2>1, <2>2, LoggedLater DEF Recorded
  <2>5. e.n \in 1..Len(log') /\ log'[e.n] = e.t
    BY <2>1, <2>2
  <2>6. Logged(Append(vals, e), log')
    BY <2>2, <2>4, <2>5, LoggedAppend
  <2>7. UNCHANGED svals
    BY <1>2 DEF PumpAccept
  <2> QED BY <2>1, <2>3, <2>6, <2>7 DEF Recorded
<1>3. CASE PumpDeliver
  <2>1. /\ vals[1] \in Events /\ Len(vals) \in Nat \ {0}
        /\ \A d \in Clients :
             svals'[d] = IF d = dests[1] THEN Append(svals[d], vals[1]) ELSE svals[d]
    BY <1>3, DeliverEffect
  <2>2. vals[1].n \in 1..Len(log) /\ log[vals[1].n] = vals[1].t
    BY <2>1 DEF Recorded, Logged
  <2>3. \A d \in Clients : svals[d] \in Seq(Events) /\ Logged(svals[d], log)
    BY DEF Recorded, CoreType
  <2>4. \A d \in Clients : Logged(Append(svals[d], vals[1]), log)
    BY <2>1, <2>2, <2>3, LoggedAppend
  <2>5. UNCHANGED <<vals, log>>
    BY <1>3 DEF PumpDeliver
  <2> QED BY <2>1, <2>3, <2>4, <2>5 DEF Recorded
<1>4. CASE PumpDrop
  <2>1. vals \in Seq(Events) /\ vals # <<>> /\ vals' = Tail(vals) /\ UNCHANGED <<svals, log>>
    BY <1>4 DEF PumpDrop, PumpInv, CoreType
  <2>2. Logged(Tail(vals), log)
    BY <2>1, QueueTail DEF Recorded
  <2> QED BY <2>1, <2>2 DEF Recorded
<1>5. ASSUME NEW c \in Clients, svals[c] # <<>>, DropHead(c), UNCHANGED <<vals, log>>
      PROVE  Recorded'
  <2>1. Logged(Tail(svals[c]), log)
    BY <1>5, ClientType, QueueTail DEF Recorded
  <2> QED BY <1>5, <2>1, DropHeadEffect DEF Recorded
<1>6. CASE PumpRoute \/ PumpSkip \/ PumpStop
  BY <1>1, <1>6 DEF PumpRoute, PumpSkip, PumpStop
<1>7. ASSUME NEW c \in Clients, NEW t \in Types, Subscribe(c, t) \/ SubscriberClose(c, t)
      PROVE  Recorded'
  BY <1>1, <1>7 DEF Subscribe, SubscriberClose
<1>8. ASSUME NEW c \in Clients, ClientSteps(c) PROVE Recorded'
  <2>1. CASE Lookup(c) \/ ChanRecv(c) \/ CallDone(c)
    <3>1. svals[c] # <<>>
      BY <2>1 DEF Lookup, ChanRecv, CallDone, Dispatching, DispInv, AtHead
    <3>2. (DropHead(c) \/ UNCHANGED svals) /\ UNCHANGED <<vals, log>>
      BY <2>1 DEF Lookup, ChanRecv, CallDone
    <3> QED BY <1>1, <1>5, <3>1, <3>2
  <2>2. CASE ~(Lookup(c) \/ ChanRecv(c) \/ CallDone(c))
    BY <1>1, <1>8, <2>2
    DEF ClientSteps, StartCallback, DispatchStop, Closing, CloseSubscribers, ClosePublishers
  <2> QED BY <2>1, <2>2
<1> QED BY <1>1, <1>2, <1>3, <1>4, <1>6, <1>7, <1>8, Steps DEF core, BusSteps, TypeSteps

-----------------------------------------------------------------------------
(* Dispatchers. *)

\* The labels of the dispatchers go on saying what they say.
LEMMA DispatchingStep ==
  ASSUME CoreType, PumpInv, Dispatching, [Next]_vars
  PROVE  Dispatching'
<1> USE DEF pumpVars, dispVars, subVars, pubVars, closerVars, closeVars
<1>0. ASSUME NEW d \in Clients,
             UNCHANGED <<disp[d], svals[d], got[d], cancelled[d], outputs[d], closePc[d]>>
      PROVE  DispInv(d)'
  BY <1>0 DEF Dispatching, DispInv
<1>1. CASE UNCHANGED <<disp, svals, got, cancelled, outputs, closePc>>
  BY <1>1 DEF Dispatching, DispInv
<1>2. ASSUME NEW c \in Clients, NEW t \in Types, Subscribe(c, t) PROVE Dispatching'
  <2>1. ASSUME NEW d \in Clients, d # c PROVE DispInv(d)'
    BY <1>0, <1>2, <2>1 DEF Subscribe, CoreType
  <2>2. DispInv(c)'
    <3>1. disp'[c] = IF disp[c] = "none" THEN "loop" ELSE disp[c]
      BY <1>2 DEF Subscribe, CoreType
    <3>2. DispInv(c) /\ closePc[c] = "open" /\ UNCHANGED <<svals, got, cancelled, closePc>>
      BY <1>2 DEF Subscribe, Dispatching
    <3> QED BY <3>1, <3>2 DEF DispInv, AtHead
  <2> QED BY <2>1, <2>2 DEF Dispatching
<1>3. ASSUME NEW c \in Clients, NEW t \in Types, SubscriberClose(c, t) PROVE Dispatching'
  <2>1. ASSUME NEW d \in Clients, d # c PROVE DispInv(d)'
    BY <1>0, <1>3, <2>1 DEF SubscriberClose, CoreType
  <2>2. DispInv(c)'
    <3>1. /\ disp'[c] = disp[c] \/ (disp[c] = "chan" /\ disp'[c] = "orphan")
          /\ outputs'[c] \subseteq outputs[c]
      BY <1>3 DEF SubscriberClose, CoreType
    <3>2. DispInv(c) /\ UNCHANGED <<svals, got, cancelled, closePc>>
      BY <1>3 DEF SubscriberClose, Dispatching
    <3> QED BY <3>1, <3>2 DEF DispInv, AtHead
  <2> QED BY <2>1, <2>2 DEF Dispatching
<1>4. CASE PumpDeliver
  <2> SUFFICES ASSUME NEW d \in Clients PROVE DispInv(d)'
    BY DEF Dispatching
  <2>1. UNCHANGED <<disp, got, cancelled, outputs, closePc>>
    BY <1>4 DEF PumpDeliver
  <2>2. svals'[d] = svals[d] \/ (vals[1] \in Events /\ svals'[d] = Append(svals[d], vals[1]))
    BY <1>4, DeliverEffect
  <2>3. CASE svals'[d] = svals[d]
    BY <1>0, <2>1, <2>3
  <2>4. CASE vals[1] \in Events /\ svals'[d] = Append(svals[d], vals[1])
    <3>1. svals'[d] # <<>> /\ (svals[d] # <<>> => svals'[d][1] = svals[d][1])
      BY <2>4, ClientType, AppendFront
    <3> QED BY <2>1, <3>1 DEF Dispatching, DispInv, AtHead
  <2> QED BY <2>2, <2>3, <2>4
<1>5. ASSUME NEW c \in Clients, ClientSteps(c) PROVE Dispatching'
  <2>0. DispInv(c) /\ svals[c] \in Seq(Events) /\ got[c] \in Seq(Nat)
    BY ClientType DEF Dispatching
  <2>1. ASSUME NEW d \in Clients, d # c PROVE DispInv(d)'
    <3>1. UNCHANGED <<disp[d], svals[d], got[d], cancelled[d], outputs[d], closePc[d]>>
      BY <1>5, <2>1
      DEF ClientSteps, Lookup, ChanRecv, StartCallback, CallDone, DispatchStop, Closing,
          CloseSubscribers, ClosePublishers, StartClose, Goto, DropHead, Hand, CoreType
    <3> QED BY <1>0, <3>1
  <2> SUFFICES DispInv(c)'
    BY <2>1 DEF Dispatching
  <2>2. CASE Lookup(c)
    <3>1. svals[c] # <<>> /\ UNCHANGED <<got, cancelled, outputs, closePc>>
      BY <2>2 DEF Lookup
    <3>2. \/ disp'[c] = "loop"
          \/ disp'[c] \in {"start", "chan"} /\ UNCHANGED svals
      BY <2>2 DEF Lookup, Goto, CoreType
    <3>3. disp[c] = "loop"
      BY <2>2 DEF Lookup
    <3> QED BY <2>0, <3>1, <3>2, <3>3 DEF DispInv, AtHead
  <2>3. CASE ChanRecv(c) \/ CallDone(c)
    <3>1. disp'[c] = "loop" /\ UNCHANGED <<cancelled, outputs, closePc>>
      BY <2>3 DEF ChanRecv, CallDone, Goto, CoreType
    <3>2. disp[c] \in {"chan", "call"}
      BY <2>3 DEF ChanRecv, CallDone
    <3> QED BY <2>0, <3>1, <3>2 DEF DispInv, AtHead
  <2>4. CASE StartCallback(c)
    <3>1. disp[c] = "start" /\ UNCHANGED <<svals, cancelled, outputs, closePc>>
      BY <2>4 DEF StartCallback
    <3>2. disp'[c] = "call" /\ got'[c] = Append(got[c], Head(svals[c]).n)
      BY <2>4 DEF StartCallback, Goto, Hand, CoreType
    <3>3. svals[c] # <<>>
      BY <2>0, <3>1 DEF DispInv, AtHead
    <3>4. Head(svals[c]) = svals[c][1] /\ svals[c][1].n \in Nat
      BY <3>3, ClientType DEF Events
    <3>5. Holds(got'[c], svals[c][1].n)
      BY <2>0, <3>2, <3>4, AppendFront
    <3> QED BY <2>0, <3>1, <3>2, <3>3, <3>5 DEF DispInv, AtHead
  <2>5. CASE DispatchStop(c) \/ Closing(c)
    <3>1. /\ disp'[c] \in {"closing", "stopped"}
          /\ UNCHANGED <<svals, got, cancelled, outputs, closePc>>
      BY <2>5 DEF DispatchStop, Closing, Goto, CoreType
    <3>2. cancelled[c] /\ disp[c] \notin {"none", "stopped"}
      BY <2>0, <2>5 DEF DispatchStop, Closing, Accepting, DispInv
    <3> QED BY <2>0, <3>1, <3>2 DEF DispInv, AtHead
  <2>6. CASE CloseSubscribers(c)
    <3>1. disp[c] \in {"none", "stopped"} /\ UNCHANGED <<disp, svals, got, cancelled>>
          /\ outputs'[c] = {}
      BY <2>6 DEF CloseSubscribers, CoreType
    <3> QED BY <2>0, <3>1 DEF DispInv, AtHead
  <2>7. CASE ClosePublishers(c)
    <3>1. closePc[c] = "publishers" /\ UNCHANGED <<disp, svals, got, cancelled, outputs>>
      BY <2>7 DEF ClosePublishers
    <3> QED BY <2>0, <3>1 DEF DispInv
  <2>8. CASE StartClose(c) /\ UNCHANGED <<subVars, pumpVars, svals, disp, pubVars, log, got>>
    <3>1. cancelled'[c] = (disp[c] # "none") /\ closePc'[c] = "wait"
      BY <2>8 DEF StartClose, CoreType
    <3> QED BY <2>0, <2>8, <3>1 DEF DispInv
  <2> QED BY <1>5, <2>2, <2>3, <2>4, <2>5, <2>6, <2>7, <2>8 DEF ClientSteps
<1>6. CASE PumpRoute \/ PumpSkip \/ PumpDrop \/ PumpStop
  BY <1>1, <1>6 DEF PumpRoute, PumpSkip, PumpDrop, PumpStop
<1>7. ASSUME NEW c \in Clients, NEW t \in Types, PumpAccept(c, t) PROVE Dispatching'
  BY <1>1, <1>7 DEF PumpAccept
<1> QED BY <1>1, <1>2, <1>3, <1>4, <1>5, <1>6, <1>7, Steps DEF core, BusSteps, TypeSteps

-----------------------------------------------------------------------------
(* The timeline. *)

\* The client that is given an event is not given it again.
LEMMA DestsTail ==
  ASSUME CoreType, Distinct(dests), dests # <<>>
  PROVE  /\ Distinct(Tail(dests)) /\ Head(dests) = dests[1] /\ dests[1] \in Clients
         /\ Holds(dests, dests[1]) /\ ~Holds(Tail(dests), dests[1])
         /\ \A d : Holds(Tail(dests), d) => Holds(dests, d)
         /\ \A d : Holds(dests, d) /\ d # dests[1] => Holds(Tail(dests), d)
<1>1. dests \in Seq(Clients)
  BY DEF CoreType
<1>2. /\ Len(dests) \in Nat \ {0} /\ Len(Tail(dests)) = Len(dests) - 1
      /\ Head(dests) = dests[1] /\ dests[1] \in Clients
      /\ \A i \in 1..Len(dests) - 1 : Tail(dests)[i] = dests[i + 1]
  BY ONLY <1>1, dests # <<>>, TailProperties
<1>3. \A i \in 1..Len(Tail(dests)) :
        i + 1 \in 1..Len(dests) /\ Tail(dests)[i] = dests[i + 1] /\ i + 1 # 1
  BY <1>2
<1>4. 1 \in 1..Len(dests)
  BY <1>2
<1>5. Distinct(Tail(dests))
  BY <1>2, <1>3 DEF Distinct
<1>6. ~Holds(Tail(dests), dests[1])
  BY <1>3, <1>4 DEF Distinct, Holds
<1>7. \A d : Holds(Tail(dests), d) => Holds(dests, d)
  BY <1>3 DEF Holds
<1>8. ASSUME NEW d, Holds(dests, d), d # dests[1] PROVE Holds(Tail(dests), d)
  <2>1. PICK i \in 1..Len(dests) : dests[i] = d
    BY <1>8 DEF Holds
  <2>2. i - 1 \in 1..Len(Tail(dests)) /\ Tail(dests)[i - 1] = d
    BY <1>2, <1>8, <2>1
  <2> QED BY <2>2 DEF Holds
<1> QED BY <1>2, <1>4, <1>5, <1>6, <1>7, <1>8 DEF Holds

\* The queues stay in the order of the log, and the pump gives an event once.
LEMMA RisingStep ==
  ASSUME CoreType, PumpInv, Subscribed, Recorded, Dispatching, Order, [Next]_vars
  PROVE  /\ Rising(vals') /\ Distinct(dests')
         /\ \A c \in Clients : Rising(svals'[c])
<1> USE DEF pumpVars, dispVars, subVars, pubVars, closerVars, closeVars
<1> DEFINE G == /\ Rising(vals') /\ Distinct(dests')
                /\ \A c \in Clients : Rising(svals'[c])
<1>1. CASE UNCHANGED <<vals, dests, svals>>
  BY <1>1 DEF Order
<1>2. ASSUME NEW c \in Clients, NEW t \in Types, PumpAccept(c, t) PROVE G
  <2>1. PICK e \in Events : e.n = Len(log) + 1 /\ vals' = Append(vals, e)
    BY <1>2, AcceptEffect
  <2>2. vals \in Seq(Events) /\ Len(log) \in Nat
    BY DEF CoreType
  <2>3. Queued(vals, e.n)
    BY <2>1, <2>2 DEF Queued, Recorded, Logged
  <2>4. Rising(Append(vals, e))
    BY <2>2, <2>3, RisingAppend DEF Order
  <2> QED BY <1>2, <2>1, <2>4 DEF PumpAccept, Order
<1>3. CASE PumpRoute
  <2>1. vals \in Seq(Events) /\ vals # <<>>
    BY <1>3 DEF PumpRoute, PumpInv, CoreType
  <2>2. Head(vals) \in Events
    BY <2>1, TailProperties
  <2>3. Distinct(topics[Head(vals).t])
    BY <2>2 DEF Subscribed, Events
  <2> QED BY <1>3, <2>3 DEF PumpRoute, Order
<1>4. CASE PumpDeliver
  <2>1. /\ vals[1] \in Events /\ Len(vals) \in Nat \ {0} /\ dests[1] \in Clients
        /\ dests # <<>>
        /\ \A d \in Clients :
             svals'[d] = IF d = dests[1] THEN Append(svals[d], vals[1]) ELSE svals[d]
    BY <1>4, DeliverEffect
  <2>2. Distinct(Tail(dests)) /\ Holds(dests, dests[1])
    BY <2>1, DestsTail DEF Order
  <2>3. Queued(svals[dests[1]], vals[1].n)
    <3>1. Routed(dests[1]) /\ pump = "deliver"
      BY <1>4, <2>1 DEF Order, PumpDeliver
    <3>2. StillToRoute(dests[1], 1) /\ 1 \in 1..Len(vals)
      BY <2>1, <2>2, <3>1 DEF StillToRoute
    <3> QED BY <3>1, <3>2 DEF Routed, Before
  <2>4. svals[dests[1]] \in Seq(Events) /\ Rising(svals[dests[1]])
    BY <2>1, ClientType DEF Order
  <2>5. Rising(Append(svals[dests[1]], vals[1]))
    BY <2>1, <2>3, <2>4, RisingAppend
  <2> QED BY <1>4, <2>1, <2>2, <2>5 DEF PumpDeliver, Order
<1>5. CASE PumpSkip
  <2>1. Distinct(Tail(dests))
    BY <1>5, DestsTail DEF PumpSkip, Order
  <2> QED BY <1>5, <2>1 DEF PumpSkip, Order
<1>6. CASE PumpDrop
  <2>1. vals \in Seq(Events) /\ vals # <<>>
    BY <1>6 DEF PumpDrop, PumpInv, CoreType
  <2>2. Rising(Tail(vals))
    BY <2>1, QueueTail DEF Order
  <2> QED BY <1>6, <2>2 DEF PumpDrop, Order
<1>7. ASSUME NEW c \in Clients, svals[c] # <<>>, DropHead(c), UNCHANGED <<vals, dests>>
      PROVE  G
  <2>1. Rising(Tail(svals[c]))
    BY <1>7, ClientType, QueueTail DEF Order
  <2> QED BY <1>7, <2>1, DropHeadEffect DEF Order
<1>8. ASSUME NEW c \in Clients, ClientSteps(c) PROVE G
  <2>1. CASE Lookup(c) \/ ChanRecv(c) \/ CallDone(c)
    <3>1. svals[c] # <<>>
      BY <2>1 DEF Lookup, ChanRecv, CallDone, Dispatching, DispInv, AtHead
    <3>2. (DropHead(c) \/ UNCHANGED svals) /\ UNCHANGED <<vals, dests>>
      BY <2>1 DEF Lookup, ChanRecv, CallDone
    <3> QED BY <1>1, <1>7, <3>1, <3>2
  <2>2. CASE ~(Lookup(c) \/ ChanRecv(c) \/ CallDone(c))
    BY <1>1, <1>8, <2>2
    DEF ClientSteps, StartCallback, DispatchStop, Closing, CloseSubscribers, ClosePublishers
  <2> QED BY <2>1, <2>2
<1>9. CASE PumpStop
  BY <1>1, <1>9 DEF PumpStop
<1>10. ASSUME NEW c \in Clients, NEW t \in Types, Subscribe(c, t) \/ SubscriberClose(c, t)
       PROVE  G
  BY <1>1, <1>10 DEF Subscribe, SubscriberClose
<1> QED
  BY <1>1, <1>2, <1>3, <1>4, <1>5, <1>6, <1>8, <1>9, <1>10, Steps DEF core, BusSteps, TypeSteps

\* Handing over the head of the queue adds it to what c has been given.
LEMMA HandEffect ==
  ASSUME CoreType, Dispatching, NEW c \in Clients, disp[c] \in {"chan", "start"}, Hand(c)
  PROVE  /\ svals[c] # <<>> /\ Len(svals[c]) \in Nat \ {0} /\ svals[c][1] \in Events
         /\ svals[c][1].n \in Nat
         /\ got' = [got EXCEPT ![c] = Append(got[c], svals[c][1].n)]
         /\ \A d \in Clients :
              got'[d] = IF d = c THEN Append(got[c], svals[c][1].n) ELSE got[d]
         /\ Len(got'[c]) = Len(got[c]) + 1
         /\ \A i \in 1..Len(got'[c]) :
              \/ i \in 1..Len(got[c]) /\ got'[c][i] = got[c][i]
              \/ got'[c][i] = svals[c][1].n
<1>1. svals[c] # <<>>
  BY DEF Dispatching, DispInv, AtHead
<1>2. svals[c] \in Seq(Events) /\ got[c] \in Seq(Nat)
  BY ClientType
<1>3. Head(svals[c]) = svals[c][1] /\ svals[c][1] \in Events /\ Len(svals[c]) \in Nat \ {0}
  BY ONLY <1>1, <1>2, TailProperties
<1>4. svals[c][1].n \in Nat
  BY <1>3 DEF Events
<1>5. /\ Len(got[c]) \in Nat /\ Len(Append(got[c], svals[c][1].n)) = Len(got[c]) + 1
      /\ Append(got[c], svals[c][1].n)[Len(got[c]) + 1] = svals[c][1].n
      /\ \A i \in 1..Len(got[c]) : Append(got[c], svals[c][1].n)[i] = got[c][i]
  BY ONLY <1>2, <1>4, AppendFacts
<1>6. got' = [got EXCEPT ![c] = Append(got[c], svals[c][1].n)]
  BY <1>3 DEF Hand
<1>7. \A d \in Clients : got'[d] = IF d = c THEN Append(got[c], svals[c][1].n) ELSE got[d]
  BY <1>6 DEF CoreType
<1>8. \A i \in 1..Len(Append(got[c], svals[c][1].n)) :
        i \in 1..Len(got[c]) \/ i = Len(got[c]) + 1
  BY ONLY <1>5
<1>9. got'[c] = Append(got[c], svals[c][1].n)
  BY <1>7
<1> QED BY ONLY <1>1, <1>3, <1>4, <1>5, <1>6, <1>7, <1>8, <1>9

\* The steps that change what a client has been given.
LEMMA GotSteps ==
  ASSUME CoreType, [Next]_vars
  PROVE  UNCHANGED got \/ \E c \in Clients : ChanRecv(c) \/ StartCallback(c)
<1> USE DEF pumpVars, dispVars, subVars, pubVars, closerVars, closeVars
<1>1. CASE BusSteps
  BY <1>1 DEF BusSteps, PumpRoute, PumpDeliver, PumpSkip, PumpDrop, PumpStop
<1>2. ASSUME NEW c \in Clients, NEW t \in Types, TypeSteps(c, t) PROVE UNCHANGED got
  BY <1>2 DEF TypeSteps, Subscribe, SubscriberClose, PumpAccept
<1>3. ASSUME NEW c \in Clients, ClientSteps(c), ~ChanRecv(c), ~StartCallback(c)
      PROVE  UNCHANGED got
  BY <1>3
  DEF ClientSteps, Lookup, CallDone, DispatchStop, Closing, CloseSubscribers, ClosePublishers
<1> QED BY <1>1, <1>2, <1>3, Steps DEF core

\* The steps that change the log.
LEMMA LogSteps ==
  ASSUME CoreType, [Next]_vars
  PROVE  UNCHANGED log \/ \E c \in Clients, t \in Types : PumpAccept(c, t)
<1> USE DEF pumpVars, dispVars, subVars, pubVars, closerVars, closeVars
<1>1. CASE BusSteps
  BY <1>1 DEF BusSteps, PumpRoute, PumpDeliver, PumpSkip, PumpDrop, PumpStop
<1>2. ASSUME NEW c \in Clients, NEW t \in Types, Subscribe(c, t) \/ SubscriberClose(c, t)
      PROVE UNCHANGED log
  BY <1>2 DEF Subscribe, SubscriberClose
<1>3. ASSUME NEW c \in Clients, ClientSteps(c) PROVE UNCHANGED log
  BY <1>3
  DEF ClientSteps, Lookup, ChanRecv, StartCallback, CallDone, DispatchStop, Closing,
      CloseSubscribers, ClosePublishers
<1> QED BY <1>1, <1>2, <1>3, Steps DEF core, TypeSteps

\* A client is given events of the log.
LEMMA PastStep ==
  ASSUME CoreType, Dispatching, Recorded, Order, [Next]_vars, NEW d \in Clients
  PROVE  Past(d)'
<1> USE DEF pumpVars, dispVars, subVars, pubVars, closerVars, closeVars
<1>1. Past(d)
  BY DEF Order
<1>2. CASE UNCHANGED <<got, log>>
  BY <1>1, <1>2 DEF Past
<1>3. ASSUME NEW c \in Clients, NEW t \in Types, PumpAccept(c, t) PROVE Past(d)'
  <2>1. Len(log') = Len(log) + 1 /\ Len(log) \in Nat
    BY <1>3, AcceptEffect DEF CoreType
  <2>2. UNCHANGED got
    BY <1>3 DEF PumpAccept
  <2> QED BY <1>1, <2>1, <2>2 DEF Past
<1>4. ASSUME NEW c \in Clients, ChanRecv(c) \/ StartCallback(c) PROVE Past(d)'
  <2>1. Hand(c) /\ disp[c] \in {"chan", "start"} /\ UNCHANGED log
    BY <1>4 DEF ChanRecv, StartCallback
  <2>2. /\ Len(svals[c]) \in Nat \ {0}
        /\ \A e \in Clients : e # c => got'[e] = got[e]
        /\ \A i \in 1..Len(got'[c]) :
             \/ i \in 1..Len(got[c]) /\ got'[c][i] = got[c][i]
             \/ got'[c][i] = svals[c][1].n
    BY <2>1, HandEffect
  <2>3. svals[c][1].n \in 1..Len(log)
    BY <2>2 DEF Recorded, Logged
  <2> QED BY <1>1, <2>1, <2>2, <2>3 DEF Past
<1> QED BY <1>2, <1>3, <1>4, GotSteps, LogSteps

\* What the pump has still to give a client follows what it has given it.
LEMMA RoutedStep ==
  ASSUME CoreType, PumpInv, Recorded, Dispatching, Order, [Next]_vars, NEW d \in Clients
  PROVE  Routed(d)'
<1> USE DEF pumpVars, dispVars, subVars, pubVars, closerVars, closeVars
<1>0. /\ Routed(d) /\ Past(d) /\ Rising(vals) /\ Distinct(dests)
      /\ Logged(svals[d], log) /\ vals \in Seq(Events) /\ Len(vals) \in Nat
      /\ svals[d] \in Seq(Events) /\ got[d] \in Seq(Nat)
  BY ClientType DEF Order, Recorded, CoreType
<1>1. ASSUME UNCHANGED <<vals, svals[d], got[d]>>,
             \A k : StillToRoute(d, k)' => StillToRoute(d, k)
      PROVE  Routed(d)'
  BY <1>0, <1>1 DEF Routed, Before
<1>2. ASSUME UNCHANGED <<vals, pump, dests>>,
             \A n : Before(d, n) => Before(d, n)'
      PROVE  Routed(d)'
  BY <1>0, <1>2 DEF Routed, StillToRoute
<1>3. CASE UNCHANGED <<vals, pump, dests, svals, got>>
  BY <1>1, <1>3 DEF StillToRoute
<1>4. ASSUME NEW c \in Clients, NEW t \in Types, PumpAccept(c, t) PROVE Routed(d)'
  <2>1. PICK e \in Events : e.n = Len(log) + 1 /\ vals' = Append(vals, e)
    BY <1>4, AcceptEffect
  <2>2. Len(log) \in Nat /\ UNCHANGED <<dests, svals, got>>
    BY <1>4 DEF CoreType, PumpAccept
  <2>3. Before(d, e.n)
    BY <1>0, <2>1, <2>2 DEF Before, Given, Queued, Past, Logged
  <2>4. /\ Len(Append(vals, e)) = Len(vals) + 1 /\ Append(vals, e)[Len(vals) + 1] = e
        /\ \A i \in 1..Len(vals) : Append(vals, e)[i] = vals[i]
    BY ONLY <1>0, AppendFacts, e \in Events
  <2>5. Len(vals) > 0 => pump = "deliver" /\ UNCHANGED pump
    BY <1>0, <1>4 DEF PumpAccept, PumpInv
  <2>6. SUFFICES ASSUME NEW k \in 1..Len(vals'), StillToRoute(d, k)'
                 PROVE  Before(d, vals'[k].n)
    BY <2>2 DEF Routed, Before
  <2>7. CASE k = Len(vals) + 1
    BY <2>1, <2>3, <2>4, <2>7
  <2>8. CASE k \in 1..Len(vals)
    <3>1. StillToRoute(d, k)
      BY <1>0, <2>2, <2>5, <2>6, <2>8 DEF StillToRoute
    <3> QED BY <1>0, <2>1, <2>4, <2>8, <3>1 DEF Routed
  <2> QED BY <1>0, <2>1, <2>4, <2>7, <2>8
<1>5. CASE PumpRoute
  <2>1. UNCHANGED <<vals, svals, got>> /\ pump = "route"
    BY <1>5 DEF PumpRoute
  <2> QED BY <1>1, <2>1 DEF StillToRoute
<1>6. CASE PumpDeliver
  <2>1. /\ vals[1] \in Events /\ Len(vals) \in Nat \ {0} /\ dests[1] \in Clients
        /\ dests # <<>> /\ dests' = Tail(dests) /\ UNCHANGED <<vals, pump, got>>
        /\ svals'[d] = IF d = dests[1] THEN Append(svals[d], vals[1]) ELSE svals[d]
    BY <1>6, DeliverEffect DEF PumpDeliver
  <2>2. /\ ~Holds(Tail(dests), dests[1])
        /\ \A c : Holds(Tail(dests), c) => Holds(dests, c)
    BY <1>0, <2>1, DestsTail
  <2>3. CASE d # dests[1]
    BY <1>1, <2>1, <2>2, <2>3 DEF StillToRoute
  <2>4. CASE d = dests[1]
    <3>1. pump = "deliver"
      BY <1>6 DEF PumpDeliver
    <3>2. SUFFICES ASSUME NEW k \in 1..Len(vals), k > 1 PROVE Before(d, vals[k].n)'
      BY <2>1, <2>2, <2>4, <3>1 DEF Routed, StillToRoute
    <3>3. Before(d, vals[k].n)
      BY <1>0, <3>2 DEF Routed, StillToRoute
    <3>4. vals[1].n < vals[k].n
      BY <1>0, <2>1, <3>2 DEF Rising
    <3>5. /\ Len(Append(svals[d], vals[1])) = Len(svals[d]) + 1 /\ Len(svals[d]) \in Nat
          /\ Append(svals[d], vals[1])[Len(svals[d]) + 1] = vals[1]
          /\ \A i \in 1..Len(svals[d]) : Append(svals[d], vals[1])[i] = svals[d][i]
      BY ONLY <1>0, <2>1, AppendFacts
    <3>6. \A i \in 1..Len(svals'[d]) : i \in 1..Len(svals[d]) \/ i = Len(svals[d]) + 1
      BY <2>1, <2>4, <3>5
    <3>7. Queued(svals'[d], vals[k].n)
      BY <2>1, <2>4, <3>3, <3>4, <3>5, <3>6 DEF Queued, Before
    <3> QED BY <2>1, <3>3, <3>7 DEF Before
  <2> QED BY <2>3, <2>4
<1>7. CASE PumpSkip
  <2>1. dests # <<>> /\ dests' = Tail(dests) /\ UNCHANGED <<vals, pump, svals, got>>
    BY <1>7 DEF PumpSkip
  <2>2. \A c : Holds(Tail(dests), c) => Holds(dests, c)
    BY <1>0, <2>1, DestsTail
  <2> QED BY <1>1, <2>1, <2>2 DEF StillToRoute
<1>8. CASE PumpDrop
  <2>1. vals # <<>> /\ vals' = Tail(vals) /\ UNCHANGED <<svals, got>>
    BY <1>8 DEF PumpDrop, PumpInv
  <2>2. /\ Len(vals) \in Nat \ {0} /\ Len(Tail(vals)) = Len(vals) - 1
        /\ \A i \in 1..Len(vals) - 1 : Tail(vals)[i] = vals[i + 1]
    BY ONLY <1>0, <2>1, TailProperties
  <2>3. SUFFICES ASSUME NEW k \in 1..Len(vals) - 1 PROVE Before(d, vals[k + 1].n)
    BY <2>1, <2>2 DEF Routed, Before
  <2>4. k + 1 \in 1..Len(vals) /\ k + 1 > 1
    BY <2>2
  <2> QED BY <1>0, <2>4 DEF Routed, StillToRoute
<1>9. CASE PumpStop
  <2>1. UNCHANGED <<vals, svals, got>> /\ pump' = "stopped"
    BY <1>9 DEF PumpStop
  <2> QED BY <1>1, <2>1 DEF StillToRoute
<1>10. ASSUME NEW c \in Clients, ClientSteps(c) PROVE Routed(d)'
  <2>1. UNCHANGED <<vals, pump, dests>>
    BY <1>10
    DEF ClientSteps, Lookup, ChanRecv, StartCallback, CallDone, DispatchStop, Closing,
        CloseSubscribers, ClosePublishers
  <2>2. svals'[d] = svals[d] \/ (svals[d] # <<>> /\ svals'[d] = Tail(svals[d]))
    <3>1. CASE Lookup(c) \/ ChanRecv(c) \/ CallDone(c)
      <4>1. svals[c] # <<>>
        BY <3>1 DEF Lookup, ChanRecv, CallDone, Dispatching, DispInv, AtHead
      <4>2. DropHead(c) \/ UNCHANGED svals
        BY <3>1 DEF Lookup, ChanRecv, CallDone
      <4> QED BY <4>1, <4>2, DropHeadEffect
    <3>2. CASE ~(Lookup(c) \/ ChanRecv(c) \/ CallDone(c))
      BY <1>10, <3>2
      DEF ClientSteps, StartCallback, DispatchStop, Closing, CloseSubscribers, ClosePublishers
    <3> QED BY <3>1, <3>2
  <2>3. ASSUME NEW n, Before(d, n) PROVE Queued(svals'[d], n)
    BY <1>0, <2>2, <2>3, QueueTail DEF Before
  <2>4. ASSUME NEW n, Before(d, n) PROVE Given(got'[d], n)
    <3>1. CASE ChanRecv(c) \/ StartCallback(c)
      <4>1. Hand(c) /\ disp[c] \in {"chan", "start"}
        BY <3>1 DEF ChanRecv, StartCallback
      <4>2. /\ Len(svals[c]) \in Nat \ {0}
            /\ \A e \in Clients : e # c => got'[e] = got[e]
            /\ \A i \in 1..Len(got'[c]) :
                 \/ i \in 1..Len(got[c]) /\ got'[c][i] = got[c][i]
                 \/ got'[c][i] = svals[c][1].n
        BY <4>1, HandEffect
      <4>3. 1 \in 1..Len(svals[c])
        BY <4>2
      <4> QED BY <2>4, <4>2, <4>3 DEF Before, Given, Queued
    <3>2. CASE ~(ChanRecv(c) \/ StartCallback(c))
      <4>1. UNCHANGED got
        BY <1>10, <3>2
        DEF ClientSteps, Lookup, CallDone, DispatchStop, Closing, CloseSubscribers,
            ClosePublishers
      <4> QED BY <2>4, <4>1 DEF Before
    <3> QED BY <3>1, <3>2
  <2> QED BY <1>2, <2>1, <2>3, <2>4 DEF Before
<1>11. ASSUME NEW c \in Clients, NEW t \in Types, Subscribe(c, t) \/ SubscriberClose(c, t)
       PROVE  Routed(d)'
  BY <1>3, <1>11 DEF Subscribe, SubscriberClose
<1> QED
  BY <1>3, <1>4, <1>5, <1>6, <1>7, <1>8, <1>9, <1>10, <1>11, Steps
  DEF core, BusSteps, TypeSteps

\* What is in the queue of a client, and still to be handed over, follows what the
\* client has been given.
LEMMA HandedStep ==
  ASSUME CoreType, PumpInv, Dispatching, Order, [Next]_vars, NEW d \in Clients
  PROVE  Handed(d)'
<1> USE DEF pumpVars, dispVars, subVars, pubVars, closerVars, closeVars
<1>0. /\ Handed(d) /\ Routed(d) /\ Rising(svals[d]) /\ Distinct(dests)
      /\ svals[d] \in Seq(Events) /\ Len(svals[d]) \in Nat /\ got[d] \in Seq(Nat)
  BY ClientType DEF Order
<1>1. ASSUME UNCHANGED <<svals[d], got[d]>>,
             \A k : StillToHand(d, k)' => StillToHand(d, k)
      PROVE  Handed(d)'
  BY <1>0, <1>1 DEF Handed
<1>2. CASE UNCHANGED <<disp, svals, got>>
  BY <1>1, <1>2 DEF StillToHand
<1>3. ASSUME NEW c \in Clients, NEW t \in Types, Subscribe(c, t) \/ SubscriberClose(c, t)
      PROVE  Handed(d)'
  <2>1. \/ disp'[d] = disp[d]
        \/ disp[d] = "none" /\ disp'[d] = "loop"
        \/ disp[d] = "chan" /\ disp'[d] = "orphan"
    BY <1>3 DEF Subscribe, SubscriberClose, CoreType
  <2>2. UNCHANGED <<svals, got>>
    BY <1>3 DEF Subscribe, SubscriberClose
  <2> QED BY <1>1, <2>1, <2>2 DEF StillToHand
<1>4. CASE PumpDeliver
  <2>1. /\ vals[1] \in Events /\ Len(vals) \in Nat \ {0} /\ dests[1] \in Clients
        /\ dests # <<>> /\ UNCHANGED <<disp, got>> /\ pump = "deliver"
        /\ svals'[d] = IF d = dests[1] THEN Append(svals[d], vals[1]) ELSE svals[d]
    BY <1>4, DeliverEffect DEF PumpDeliver
  <2>2. CASE d # dests[1]
    BY <1>1, <2>1, <2>2 DEF StillToHand
  <2>3. CASE d = dests[1]
    <3>1. StillToRoute(d, 1) /\ 1 \in 1..Len(vals)
      BY <1>0, <2>1, <2>3, DestsTail DEF StillToRoute
    <3>2. Given(got[d], vals[1].n)
      BY <1>0, <3>1 DEF Routed, Before
    <3>3. /\ Len(Append(svals[d], vals[1])) = Len(svals[d]) + 1
          /\ Append(svals[d], vals[1])[Len(svals[d]) + 1] = vals[1]
          /\ \A i \in 1..Len(svals[d]) : Append(svals[d], vals[1])[i] = svals[d][i]
      BY ONLY <1>0, <2>1, AppendFacts
    <3>4. \A i \in 1..Len(svals'[d]) : i \in 1..Len(svals[d]) \/ i = Len(svals[d]) + 1
      BY <1>0, <2>1, <2>3, <3>3
    <3> QED BY <1>0, <2>1, <2>3, <3>2, <3>3, <3>4 DEF Handed, StillToHand
  <2> QED BY <2>2, <2>3
<1>5. ASSUME svals[d] # <<>>, svals'[d] = Tail(svals[d]),
             \A k \in 2..Len(svals[d]) : Given(got'[d], svals[d][k].n)
      PROVE  Handed(d)'
  <2>1. /\ Len(Tail(svals[d])) = Len(svals[d]) - 1
        /\ \A i \in 1..Len(svals[d]) - 1 : Tail(svals[d])[i] = svals[d][i + 1]
    BY ONLY <1>0, <1>5, TailProperties
  <2>2. \A i \in 1..Len(svals[d]) - 1 : i + 1 \in 2..Len(svals[d])
    BY <1>0
  <2> QED BY <1>5, <2>1, <2>2 DEF Handed
<1>6. \A k \in 2..Len(svals[d]) : k \in 1..Len(svals[d]) /\ k > 1
  BY <1>0
<1>7. ASSUME NEW c \in Clients, ClientSteps(c), d # c PROVE Handed(d)'
  <2>1. UNCHANGED <<disp[d], svals[d], got[d]>>
    BY <1>7
    DEF ClientSteps, Lookup, ChanRecv, StartCallback, CallDone, DispatchStop, Closing,
        CloseSubscribers, ClosePublishers, Goto, DropHead, Hand, CoreType
  <2> QED BY <1>1, <2>1 DEF StillToHand
<1>8. CASE Lookup(d)
  <2>1. svals[d] # <<>> /\ UNCHANGED got /\ disp[d] = "loop"
    BY <1>8 DEF Lookup
  <2>2. CASE DropHead(d)
    <3>1. \A k \in 2..Len(svals[d]) : Given(got'[d], svals[d][k].n)
      BY <1>0, <1>6, <2>1 DEF Handed, StillToHand
    <3> QED BY <1>5, <2>1, <2>2, <3>1, DropHeadEffect
  <2>3. CASE ~DropHead(d)
    <3>1. UNCHANGED svals
      BY <1>8, <2>3 DEF Lookup
    <3> QED BY <1>1, <2>1, <3>1 DEF StillToHand
  <2> QED BY <2>2, <2>3
<1>9. CASE ChanRecv(d) \/ StartCallback(d)
  <2>1. disp[d] \in {"chan", "start"} /\ Hand(d)
    BY <1>9 DEF ChanRecv, StartCallback
  <2>2. /\ svals[d] # <<>> /\ Len(svals[d]) \in Nat \ {0}
        /\ \A i \in 1..Len(got'[d]) :
             \/ i \in 1..Len(got[d]) /\ got'[d][i] = got[d][i]
             \/ got'[d][i] = svals[d][1].n
    BY <2>1, HandEffect
  <2>3. ASSUME NEW k \in 2..Len(svals[d]) PROVE Given(got'[d], svals[d][k].n)
    <3>1. Given(got[d], svals[d][k].n)
      BY <1>0, <1>6, <2>1 DEF Handed, StillToHand
    <3>2. svals[d][1].n < svals[d][k].n
      BY <1>0, <1>6, <2>2 DEF Rising
    <3> QED BY <2>2, <3>1, <3>2 DEF Given
  <2>4. CASE ChanRecv(d)
    <3>1. svals'[d] = Tail(svals[d])
      BY <2>4, DropHeadEffect DEF ChanRecv
    <3> QED BY <1>5, <2>2, <2>3, <3>1
  <2>5. CASE StartCallback(d)
    <3>1. disp'[d] = "call" /\ UNCHANGED svals
      BY <2>5 DEF StartCallback, Goto, CoreType
    <3>2. \A k \in 1..Len(svals[d]) : k > 1 => k \in 2..Len(svals[d])
      BY <1>0
    <3> QED BY <2>3, <3>1, <3>2 DEF Handed, StillToHand
  <2> QED BY <1>9, <2>4, <2>5
<1>10. CASE CallDone(d)
  <2>1. disp[d] = "call" /\ UNCHANGED got /\ DropHead(d)
    BY <1>10 DEF CallDone
  <2>2. svals[d] # <<>>
    BY <2>1 DEF Dispatching, DispInv, AtHead
  <2>3. \A k \in 2..Len(svals[d]) : Given(got'[d], svals[d][k].n)
    BY <1>0, <1>6, <2>1 DEF Handed, StillToHand
  <2> QED BY <1>5, <2>1, <2>2, <2>3, DropHeadEffect
<1>11. CASE DispatchStop(d) \/ Closing(d)
  <2>1. disp'[d] \in {"closing", "stopped"} /\ UNCHANGED <<svals, got>>
    BY <1>11 DEF DispatchStop, Closing, Goto, CoreType
  <2> QED BY <1>1, <2>1 DEF StillToHand
<1>12. ASSUME ClientSteps(d) PROVE Handed(d)'
  <2>1. CASE CloseSubscribers(d) \/ ClosePublishers(d)
    BY <1>2, <2>1 DEF CloseSubscribers, ClosePublishers
  <2>2. CASE UNCHANGED <<subVars, pumpVars, svals, disp, pubVars, log, got>>
    BY <1>2, <2>2
  <2> QED BY <1>8, <1>9, <1>10, <1>11, <1>12, <2>1, <2>2 DEF ClientSteps
<1>13. CASE PumpRoute \/ PumpSkip \/ PumpDrop \/ PumpStop
  BY <1>2, <1>13 DEF PumpRoute, PumpSkip, PumpDrop, PumpStop
<1>14. ASSUME NEW c \in Clients, NEW t \in Types, PumpAccept(c, t) PROVE Handed(d)'
  BY <1>2, <1>14 DEF PumpAccept
<1> QED
  BY <1>2, <1>3, <1>4, <1>7, <1>12, <1>13, <1>14, Steps DEF core, BusSteps, TypeSteps

\* Every step keeps the order.
LEMMA OrderStep ==
  ASSUME CoreType, PumpInv, Subscribed, Recorded, Dispatching, Order, [Next]_vars
  PROVE  Order'
BY RisingStep, PastStep, RoutedStep, HandedStep DEF Order

-----------------------------------------------------------------------------
(* Nothing is skipped. *)

\* Client d is owed event n: it was accepted while d was subscribed to its type.
Owed(d, n) ==
  /\ ~cancelled[d] /\ pump # "stopped"
  /\ \E t \in outputs[d] : n \in (since[d][t] + 1)..Len(log) /\ log[n] = t

\* The pump has event n for client d.
InPump(d, n) ==
  /\ vals # <<>>
  /\ \/ n \in Nums(Tail(vals))
     \/ n = Head(vals).n /\ (pump = "route" \/ Holds(dests, d))

\* The numbers in a queue that takes or gives up an event.
LEMMA NumsAppend ==
  ASSUME NEW q \in Seq(Events), NEW e \in Events
  PROVE  \A n : n \in Nums(Append(q, e)) <=> n \in Nums(q) \/ n = e.n
<1>1. /\ Append(q, e) \in Seq(Events) /\ Len(q) \in Nat
      /\ Len(Append(q, e)) = Len(q) + 1 /\ Append(q, e)[Len(q) + 1] = e
      /\ \A i \in 1..Len(q) : Append(q, e)[i] = q[i]
  BY AppendFacts
<1>2. DOMAIN q = 1..Len(q) /\ DOMAIN Append(q, e) = 1..Len(q) + 1
  BY <1>1
<1>3. \A i \in 1..Len(q) + 1 : i \in 1..Len(q) \/ i = Len(q) + 1
  BY <1>1
<1>4. 1..Len(q) \subseteq 1..Len(q) + 1 /\ Len(q) + 1 \in 1..Len(q) + 1
  BY <1>1
<1> QED BY <1>1, <1>2, <1>3, <1>4 DEF Nums

\* The head of a queue, and the rest.
LEMMA NumsTail ==
  ASSUME NEW q \in Seq(Events), q # <<>>
  PROVE  \A n : n \in Nums(q) <=> n = q[1].n \/ n \in Nums(Tail(q))
<1>1. /\ Tail(q) \in Seq(Events) /\ Len(q) \in Nat \ {0} /\ Len(Tail(q)) = Len(q) - 1
      /\ \A i \in 1..Len(q) - 1 : Tail(q)[i] = q[i + 1]
  BY TailProperties
<1>2. DOMAIN q = 1..Len(q) /\ DOMAIN Tail(q) = 1..Len(q) - 1
  BY <1>1
<1>3. \A i \in 1..Len(q) : i = 1 \/ (i - 1 \in 1..Len(q) - 1 /\ Tail(q)[i - 1] = q[i])
  BY <1>1
<1>4. 1 \in 1..Len(q) /\ \A i \in 1..Len(q) - 1 : i + 1 \in 1..Len(q)
  BY <1>1
<1>5. ASSUME NEW n, n \in Nums(q) PROVE n = q[1].n \/ n \in Nums(Tail(q))
  <2>1. PICK i \in 1..Len(q) : n = q[i].n
    BY ONLY <1>2, <1>5 DEF Nums
  <2> QED BY ONLY <1>2, <1>3, <2>1 DEF Nums
<1>6. q[1].n \in Nums(q)
  BY ONLY <1>2, <1>4 DEF Nums
<1>7. ASSUME NEW n, n \in Nums(Tail(q)) PROVE n \in Nums(q)
  <2>1. PICK i \in 1..Len(q) - 1 : n = Tail(q)[i].n
    BY ONLY <1>2, <1>7 DEF Nums
  <2>2. n = q[i + 1].n /\ i + 1 \in 1..Len(q)
    BY ONLY <1>1, <1>4, <2>1
  <2> QED BY ONLY <1>2, <2>2 DEF Nums
<1> QED BY <1>5, <1>6, <1>7

\* An event that the pump accepts while it delivers waits behind the head.
LEMMA TailAppend ==
  ASSUME NEW q \in Seq(Events), NEW e \in Events, q # <<>>
  PROVE  /\ Append(q, e) # <<>> /\ Head(Append(q, e)) = Head(q)
         /\ Tail(Append(q, e)) = Append(Tail(q), e)
OBVIOUS

\* OnItsWay in terms of the definitions above.
LEMMA WayForm ==
  ASSUME CoreType, NEW d \in Clients, NEW n
  PROVE  OnItsWay(d, n) <=> Holds(got[d], n) \/ n \in Nums(svals[d]) \/ InPump(d, n)
<1>1. DOMAIN got[d] = 1..Len(got[d]) /\ DOMAIN dests = 1..Len(dests)
  BY DEF CoreType
<1> QED BY <1>1 DEF OnItsWay, InPump, Holds

\* NothingSkipped in terms of what is owed.
LEMMA SkippedForm ==
  NothingSkipped <=> \A d \in Clients : \A n : Owed(d, n) => OnItsWay(d, n)
BY DEF NothingSkipped, Owed

\* Only an event that is accepted becomes owed.
LEMMA OwedStep ==
  ASSUME CoreType, PumpInv, Dispatching, [Next]_vars, NEW d \in Clients, NEW n, Owed(d, n)'
  PROVE  Owed(d, n) \/ (n = Len(log) + 1 /\ \E c \in Clients, t \in Types : PumpAccept(c, t))
<1> USE DEF pumpVars, dispVars, subVars, pubVars, closerVars, closeVars
<1>1. ASSUME UNCHANGED <<cancelled, pump, outputs, since, log>> PROVE Owed(d, n)
  BY <1>1 DEF Owed
<1>2. ASSUME UNCHANGED <<cancelled, outputs, since, log>>, pump # "stopped" PROVE Owed(d, n)
  BY <1>2 DEF Owed
<1>3. CASE BusSteps
  <2>1. UNCHANGED <<cancelled, outputs, since, log>>
    BY <1>3 DEF BusSteps, PumpRoute, PumpDeliver, PumpSkip, PumpDrop, PumpStop
  <2>2. pump # "stopped"
    BY <1>3 DEF BusSteps, PumpRoute, PumpDeliver, PumpSkip, PumpDrop, PumpStop
  <2> QED BY <1>2, <2>1, <2>2
<1>4. ASSUME NEW c \in Clients, NEW t \in Types, PumpAccept(c, t)
      PROVE  Owed(d, n) \/ n = Len(log) + 1
  <2>1. /\ Len(log') = Len(log) + 1 /\ \A m \in 1..Len(log) : log'[m] = log[m]
        /\ UNCHANGED <<cancelled, outputs, since>> /\ pump # "stopped" /\ Len(log) \in Nat
    BY <1>4, AcceptEffect DEF PumpAccept, CoreType
  <2>2. PICK u \in outputs[d] : n \in (since[d][u] + 1)..Len(log') /\ log'[n] = u
    BY <2>1 DEF Owed
  <2>3. since[d][u] \in Nat
    BY ClientType DEF CoreType
  <2>4. n \in (since[d][u] + 1)..Len(log) \/ n = Len(log) + 1
    BY <2>1, <2>2, <2>3
  <2>5. n \in (since[d][u] + 1)..Len(log) => n \in 1..Len(log)
    BY <2>1, <2>3
  <2> QED BY <2>1, <2>2, <2>4, <2>5 DEF Owed
<1>5. ASSUME NEW c \in Clients, NEW t \in Types, Subscribe(c, t) PROVE Owed(d, n)
  <2>1. UNCHANGED <<cancelled, pump, log>> /\ Len(log) \in Nat
    BY <1>5 DEF Subscribe, CoreType
  <2>2. PICK u \in outputs'[d] : n \in (since'[d][u] + 1)..Len(log) /\ log[n] = u
    BY <2>1 DEF Owed
  <2>3. u \in outputs[d] \/ (d = c /\ u = t)
    BY <1>5 DEF Subscribe, CoreType
  <2>4. CASE d = c /\ u = t
    <3>1. since'[d][u] = Len(log)
      BY <1>5, <2>4 DEF Subscribe, CoreType
    <3> QED BY <2>1, <2>2, <3>1
  <2>5. CASE u \in outputs[d] /\ ~(d = c /\ u = t)
    <3>1. since'[d][u] = since[d][u]
      BY <1>5, <2>5 DEF Subscribe, CoreType
    <3> QED BY <2>1, <2>2, <2>5, <3>1 DEF Owed
  <2> QED BY <2>3, <2>4, <2>5
<1>6. ASSUME outputs'[d] \subseteq outputs[d], UNCHANGED <<cancelled[d], pump, since, log>>
      PROVE  Owed(d, n)
  BY <1>6 DEF Owed
<1>7. ASSUME NEW c \in Clients, NEW t \in Types, SubscriberClose(c, t) PROVE Owed(d, n)
  BY <1>6, <1>7 DEF SubscriberClose, CoreType
<1>8. ASSUME NEW c \in Clients, CloseSubscribers(c) PROVE Owed(d, n)
  BY <1>6, <1>8 DEF CloseSubscribers, CoreType
<1>9. ASSUME NEW c \in Clients, StartClose(c), UNCHANGED <<outputs, pump, since, log>>
      PROVE Owed(d, n)
  <2>1. CASE d # c
    BY <1>6, <1>9, <2>1 DEF StartClose, CoreType
  <2>2. CASE d = c
    <3>1. disp[c] # "none"
      BY <1>9, <2>2 DEF Owed, Dispatching, DispInv
    <3>2. cancelled'[c]
      BY <1>9, <3>1 DEF StartClose, CoreType
    <3> QED BY <2>2, <3>2 DEF Owed
  <2> QED BY <2>1, <2>2
<1>10. ASSUME NEW c \in Clients, ClientSteps(c) PROVE Owed(d, n)
  <2>1. CASE CloseSubscribers(c)
    BY <1>8, <2>1
  <2>2. CASE StartClose(c) /\ UNCHANGED <<subVars, pumpVars, svals, disp, pubVars, log, got>>
    BY <1>9, <2>2
  <2>3. CASE \/ Lookup(c) \/ ChanRecv(c) \/ StartCallback(c) \/ CallDone(c) \/ DispatchStop(c)
             \/ Closing(c) \/ ClosePublishers(c)
    BY <1>1, <2>3
    DEF Lookup, ChanRecv, StartCallback, CallDone, DispatchStop, Closing, ClosePublishers
  <2> QED BY <1>10, <2>1, <2>2, <2>3 DEF ClientSteps
<1> QED BY <1>1, <1>3, <1>4, <1>5, <1>7, <1>10, Steps DEF core, TypeSteps

\* What a client has been given stays given.
LEMMA GotKept ==
  ASSUME CoreType, Dispatching, [Next]_vars, NEW d \in Clients, NEW n, Holds(got[d], n)
  PROVE  Holds(got'[d], n)
<1>1. ASSUME NEW c \in Clients, ChanRecv(c) \/ StartCallback(c) PROVE Holds(got'[d], n)
  <2>1. Hand(c) /\ disp[c] \in {"chan", "start"}
    BY <1>1 DEF ChanRecv, StartCallback
  <2>2. /\ svals[c][1].n \in Nat
        /\ got'[d] = IF d = c THEN Append(got[c], svals[c][1].n) ELSE got[d]
    BY <2>1, HandEffect
  <2>3. got[d] \in Seq(Nat)
    BY ClientType
  <2> QED BY <2>2, <2>3, AppendFront
<1> QED BY <1>1, GotSteps

\* What is owed to a client and in its queue is handed over before it is dropped.
LEMMA QueueKept ==
  ASSUME CoreType, PumpInv, Recorded, Dispatching, [Next]_vars,
         NEW d \in Clients, NEW n, Owed(d, n), n \in Nums(svals[d])
  PROVE  n \in Nums(svals'[d]) \/ Holds(got'[d], n)
<1> USE DEF pumpVars, dispVars, subVars, pubVars, closerVars, closeVars
<1> DEFINE G == n \in Nums(svals'[d]) \/ Holds(got'[d], n)
<1>0. svals[d] \in Seq(Events) /\ got[d] \in Seq(Nat)
  BY ClientType
<1>1. ASSUME UNCHANGED svals[d] PROVE G
  BY <1>1
<1>2. ASSUME svals[d] # <<>>, svals'[d] = Tail(svals[d]), n # svals[d][1].n PROVE G
  BY <1>0, <1>2, NumsTail
<1>3. CASE PumpDeliver
  <2>1. svals'[d] = svals[d] \/ (vals[1] \in Events /\ svals'[d] = Append(svals[d], vals[1]))
    BY <1>3, DeliverEffect
  <2> QED BY <1>0, <2>1, NumsAppend
<1>4. CASE Lookup(d) /\ HeadType(d) \notin outputs[d]
  <2>1. svals[d] # <<>> /\ svals'[d] = Tail(svals[d])
    BY <1>4, DropHeadEffect DEF Lookup
  <2>2. svals[d][1].t \notin outputs[d]
    BY <1>4, <2>1, ClientType DEF HeadType
  <2>3. log[svals[d][1].n] = svals[d][1].t
    <3>1. 1 \in 1..Len(svals[d])
      BY <1>0, <2>1
    <3> QED BY <3>1 DEF Recorded, Logged
  <2>4. n # svals[d][1].n
    BY <2>2, <2>3 DEF Owed
  <2> QED BY <1>2, <2>1, <2>4
<1>5. CASE ChanRecv(d)
  <2>1. Hand(d) /\ disp[d] = "chan" /\ svals'[d] = Tail(svals[d])
    BY <1>5, DropHeadEffect DEF ChanRecv
  <2>2. /\ svals[d] # <<>> /\ svals[d][1].n \in Nat
        /\ got'[d] = Append(got[d], svals[d][1].n)
    BY <2>1, HandEffect
  <2>3. Holds(got'[d], svals[d][1].n)
    BY <1>0, <2>2, AppendFront
  <2> QED BY <1>2, <2>1, <2>2, <2>3
<1>6. CASE CallDone(d)
  <2>1. disp[d] = "call" /\ svals'[d] = Tail(svals[d]) /\ UNCHANGED got
    BY <1>6, DropHeadEffect DEF CallDone
  <2>2. svals[d] # <<>> /\ Holds(got[d], svals[d][1].n)
    BY <2>1 DEF Dispatching, DispInv, AtHead
  <2> QED BY <1>2, <2>1, <2>2
<1>7. ASSUME NEW c \in Clients, ClientSteps(c),
             ~(c = d /\ (\/ Lookup(d) /\ HeadType(d) \notin outputs[d]
                         \/ ChanRecv(d) \/ CallDone(d)))
      PROVE  G
  <2>1. UNCHANGED svals[d]
    BY <1>7
    DEF ClientSteps, Lookup, ChanRecv, StartCallback, CallDone, DispatchStop, Closing,
        CloseSubscribers, ClosePublishers, DropHead, CoreType
  <2> QED BY <1>1, <2>1
<1>8. CASE PumpRoute \/ PumpSkip \/ PumpDrop \/ PumpStop
  BY <1>1, <1>8 DEF PumpRoute, PumpSkip, PumpDrop, PumpStop
<1>9. ASSUME NEW c \in Clients, NEW t \in Types, TypeSteps(c, t) PROVE G
  BY <1>1, <1>9 DEF TypeSteps, Subscribe, SubscriberClose, PumpAccept
<1> QED BY <1>1, <1>3, <1>4, <1>5, <1>6, <1>7, <1>8, <1>9, Steps DEF core, BusSteps

\* What is owed to a client and in the pump goes to its queue before it is dropped.
LEMMA PumpKept ==
  ASSUME CoreType, PumpInv, Subscribed, Recorded, Dispatching, Order, [Next]_vars,
         NEW d \in Clients, NEW n, Owed(d, n), InPump(d, n)
  PROVE  InPump(d, n)' \/ n \in Nums(svals'[d]) \/ pump' = "stopped"
<1> USE DEF pumpVars, dispVars, subVars, pubVars, closerVars, closeVars
<1> DEFINE G == InPump(d, n)' \/ n \in Nums(svals'[d]) \/ pump' = "stopped"
<1>0. vals \in Seq(Events) /\ vals # <<>> /\ svals[d] \in Seq(Events)
  BY ClientType DEF CoreType, InPump
<1>1. ASSUME UNCHANGED <<vals, pump, dests>> PROVE G
  BY <1>1 DEF InPump
<1>2. /\ Head(vals) = vals[1] /\ vals[1] \in Events /\ Len(vals) \in Nat \ {0}
      /\ Tail(vals) \in Seq(Events)
  BY ONLY <1>0, TailProperties
<1>3. ASSUME NEW c \in Clients, NEW t \in Types, PumpAccept(c, t) PROVE G
  <2>1. PICK e \in Events : vals' = Append(vals, e)
    BY <1>3, AcceptEffect
  <2>2. /\ vals' # <<>> /\ Head(vals') = Head(vals)
        /\ Tail(vals') = Append(Tail(vals), e)
    BY <1>0, <2>1, TailAppend
  <2>3. n \in Nums(Tail(vals)) => n \in Nums(Tail(vals'))
    BY <1>2, <2>2, NumsAppend
  <2>4. UNCHANGED <<pump, dests>>
    BY <1>0, <1>3 DEF PumpAccept, PumpInv
  <2> QED BY <2>2, <2>3, <2>4 DEF InPump
<1>4. CASE PumpRoute
  <2>1. UNCHANGED vals /\ dests' = topics[vals[1].t]
    BY <1>2, <1>4 DEF PumpRoute
  <2>2. CASE n \in Nums(Tail(vals))
    BY <1>0, <2>1, <2>2 DEF InPump
  <2>3. CASE n = vals[1].n
    <3>1. log[n] = vals[1].t
      <4>1. 1 \in 1..Len(vals)
        BY <1>2
      <4> QED BY <2>3, <4>1 DEF Recorded, Logged
    <3>2. vals[1].t \in outputs[d] /\ vals[1].t \in Types
      BY <1>2, <3>1 DEF Owed, Events
    <3>3. Holds(dests', d)
      BY <2>1, <3>2 DEF Subscribed
    <3> QED BY <1>0, <1>2, <2>1, <2>3, <3>3 DEF InPump
  <2> QED BY <1>2, <2>2, <2>3 DEF InPump
<1>5. CASE PumpDeliver
  <2>1. /\ dests # <<>> /\ dests' = Tail(dests) /\ UNCHANGED <<vals, pump>>
        /\ svals'[d] = IF d = dests[1] THEN Append(svals[d], vals[1]) ELSE svals[d]
    BY <1>5, DeliverEffect DEF PumpDeliver
  <2>2. CASE n = vals[1].n /\ d = dests[1]
    BY <1>0, <1>2, <2>1, <2>2, NumsAppend
  <2>3. CASE ~(n = vals[1].n /\ d = dests[1])
    <3>1. Holds(dests, d) /\ d # dests[1] => Holds(dests', d)
      BY <2>1, DestsTail DEF Order
    <3> QED BY <1>2, <2>1, <2>3, <3>1 DEF InPump
  <2> QED BY <2>2, <2>3
<1>6. CASE PumpSkip
  <2>1. dests # <<>> /\ dests' = Tail(dests) /\ UNCHANGED <<vals, pump>>
        /\ disp[Head(dests)] = "stopped"
    BY <1>6 DEF PumpSkip
  <2>2. /\ Holds(dests, d) /\ d # dests[1] => Holds(dests', d)
        /\ Head(dests) = dests[1]
    BY <2>1, DestsTail DEF Order
  <2>3. d # dests[1]
    BY <2>1, <2>2 DEF Owed, Dispatching, DispInv
  <2> QED BY <2>1, <2>2, <2>3 DEF InPump
<1>7. CASE PumpDrop
  <2>1. /\ vals' = Tail(vals) /\ pump = "deliver" /\ dests = <<>>
        /\ Tail(vals) # <<>> => pump' = "route"
    BY <1>7 DEF PumpDrop
  <2>2. n \in Nums(Tail(vals))
    BY <2>1 DEF InPump, Holds
  <2>3. Tail(vals) # <<>>
    BY <2>2 DEF Nums
  <2>4. n = Tail(vals)[1].n \/ n \in Nums(Tail(Tail(vals)))
    BY <1>2, <2>2, <2>3, NumsTail
  <2>5. Head(Tail(vals)) = Tail(vals)[1]
    BY <1>2, <2>3, TailProperties
  <2> QED BY <2>1, <2>3, <2>4, <2>5 DEF InPump
<1>8. CASE PumpStop
  BY <1>8 DEF PumpStop
<1>9. ASSUME NEW c \in Clients, NEW t \in Types, Subscribe(c, t) \/ SubscriberClose(c, t)
      PROVE  G
  BY <1>1, <1>9 DEF Subscribe, SubscriberClose
<1>10. ASSUME NEW c \in Clients, ClientSteps(c) PROVE G
  BY <1>1, <1>10
  DEF ClientSteps, Lookup, ChanRecv, StartCallback, CallDone, DispatchStop, Closing,
      CloseSubscribers, ClosePublishers
<1> QED
  BY <1>1, <1>3, <1>4, <1>5, <1>6, <1>7, <1>8, <1>9, <1>10, Steps
  DEF core, BusSteps, TypeSteps

\* Every step keeps on its way what is owed.
LEMMA SkippedStep ==
  ASSUME CoreType, CoreType', PumpInv, Subscribed, Recorded, Dispatching, Order,
         NothingSkipped, [Next]_vars
  PROVE  NothingSkipped'
<1> SUFFICES ASSUME NEW d \in Clients, NEW n, Owed(d, n)' PROVE OnItsWay(d, n)'
  BY DEF NothingSkipped, Owed
<1>1. SUFFICES Holds(got'[d], n) \/ n \in Nums(svals'[d]) \/ InPump(d, n)'
  <2>1. DOMAIN got'[d] = 1..Len(got'[d]) /\ DOMAIN dests' = 1..Len(dests')
    BY DEF CoreType
  <2> QED BY <2>1 DEF OnItsWay, InPump, Holds
<1>2. CASE Owed(d, n)
  <2>1. Holds(got[d], n) \/ n \in Nums(svals[d]) \/ InPump(d, n)
    BY <1>2, SkippedForm, WayForm
  <2>2. pump' # "stopped"
    BY DEF Owed
  <2> QED BY <1>2, <2>1, <2>2, GotKept, QueueKept, PumpKept
<1>3. ASSUME n = Len(log) + 1, NEW c \in Clients, NEW t \in Types, PumpAccept(c, t)
      PROVE  InPump(d, n)'
  <2>1. PICK e \in Events : e.n = n /\ vals' = Append(vals, e)
    BY <1>3, AcceptEffect
  <2>2. vals \in Seq(Events)
    BY DEF CoreType
  <2>3. CASE vals = <<>>
    <3>1. Append(vals, e) # <<>> /\ Head(Append(vals, e)) = e
      BY <2>3
    <3>2. pump' = "route"
      BY <1>3, <2>3 DEF PumpAccept, PumpInv
    <3> QED BY <2>1, <3>1, <3>2 DEF InPump
  <2>4. CASE vals # <<>>
    <3>1. vals' # <<>> /\ Tail(vals') = Append(Tail(vals), e) /\ Tail(vals) \in Seq(Events)
      BY <2>1, <2>2, <2>4, TailAppend, TailProperties
    <3>2. n \in Nums(Append(Tail(vals), e))
      BY <2>1, <3>1, NumsAppend
    <3> QED BY <3>1, <3>2 DEF InPump
  <2> QED BY <2>3, <2>4
<1> QED BY <1>2, <1>3, OwedStep

-----------------------------------------------------------------------------
(* Theorems. *)

\* The invariant is inductive.
LEMMA Inductive == IInv /\ [Next]_vars => IInv'
<1> SUFFICES ASSUME IInv, [Next]_vars PROVE IInv'
  OBVIOUS
<1>1. /\ AsideType /\ CoreType /\ PumpInv /\ Subscribed /\ Recorded /\ Dispatching /\ Order
      /\ NothingSkipped
  BY TypeHalves DEF IInv
<1>2. AsideType' /\ CoreType' /\ PumpInv'
  BY <1>1, AsideStep, CoreStep
<1>3. TypeOK'
  BY <1>2 DEF TypeOK, AsideType, CoreType, Label
<1>4. Subscribed' /\ Recorded' /\ Dispatching' /\ Order' /\ NothingSkipped'
  BY <1>1, <1>2, SubscribedStep, RecordedStep, DispatchingStep, OrderStep, SkippedStep
<1> QED BY <1>2, <1>3, <1>4 DEF IInv

\* It holds of a new bus.
LEMMA Initial == Init => IInv
<1> SUFFICES ASSUME Init PROVE IInv
  OBVIOUS
<1>1. TypeOK
  <2>1. /\ topics \in [Types -> Seq(Clients)] /\ vals \in Seq(Events) /\ dests \in Seq(Clients)
        /\ svals \in [Clients -> Seq(Events)] /\ log \in Seq(Types)
        /\ got \in [Clients -> Seq(Nat)] /\ Len(vals) <= Capacity
    BY CapacityAssumption DEF Init
  <2>2. /\ cancelled \in [Clients -> BOOLEAN] /\ sending \in [Clients -> BOOLEAN]
        /\ pubStopped \in [Clients -> BOOLEAN] /\ routerDone \in BOOLEAN
    BY Zenon DEF Init
  <2>3. since \in [Clients -> [Types -> Nat]]
    BY DEF Init
  <2> QED BY <2>1, <2>2, <2>3 DEF Init, TypeOK
<1>2. PumpInv /\ Recorded /\ Subscribed /\ Dispatching
  BY DEF Init, PumpInv, Recorded, Logged, Subscribed, Distinct, Holds, Dispatching, DispInv,
         AtHead
<1>3. Order
  BY DEF Init, Order, Rising, Distinct, Past, Routed, Handed
<1>4. NothingSkipped
  BY DEF Init, NothingSkipped
<1> QED BY <1>1, <1>2, <1>3, <1>4 DEF IInv

\* IInv holds of every behaviour of the bus.
LEMMA Invariant == Spec => []IInv
BY Initial, Inductive, PTL DEF Spec

\* Whatever the clients publish, subscribe to and close, the pump's queue keeps its
\* bound, and no event that was accepted while a client was subscribed to its type is
\* lost on its way through the pump and the dispatcher (Bus.pump, subscribeState.pump).
THEOREM QueuesSoundHolds == Spec => []QueuesSound
<1>1. IInv => QueuesSound
  BY DEF IInv, QueuesSound
<1> QED BY <1>1, Invariant, PTL

\* Every step of the bus is one of the timeline, or is not seen on it.
LEMMA TimelineStep ==
  ASSUME IInv, [Next]_vars
  PROVE  [Line!Next]_(Line!vars)
<1>1. CoreType /\ PumpInv /\ Recorded /\ Dispatching /\ Order
  BY TypeHalves DEF IInv
<1>2. ASSUME NEW c \in Clients, NEW t \in Types, PumpAccept(c, t) PROVE Line!Publish
  BY <1>1, <1>2, AcceptEffect DEF Line!Publish, PumpAccept
<1>3. ASSUME NEW c \in Clients, ChanRecv(c) \/ StartCallback(c) PROVE Line!Deliver(c)
  <2>1. Hand(c) /\ disp[c] \in {"chan", "start"} /\ UNCHANGED log
    BY <1>3 DEF ChanRecv, StartCallback
  <2>2. /\ Len(svals[c]) \in Nat \ {0}
        /\ got' = [got EXCEPT ![c] = Append(got[c], svals[c][1].n)]
    BY <1>1, <2>1, HandEffect
  <2>3. 1 \in 1..Len(svals[c])
    BY <2>2
  <2>4. svals[c][1].n \in 1..Len(log)
    BY <1>1, <2>3 DEF Recorded, Logged
  <2>5. Given(got[c], svals[c][1].n)
    BY <1>1, <2>1, <2>3 DEF Order, Handed, StillToHand
  <2>6. \A i \in DOMAIN got[c] : got[c][i] < svals[c][1].n
    BY <1>1, <2>5, ClientType DEF Given
  <2> QED BY <2>1, <2>2, <2>4, <2>6 DEF Line!Deliver
<1>4. CASE UNCHANGED <<got, log>>
  BY <1>4 DEF Line!vars
<1> QED BY <1>1, <1>2, <1>3, <1>4, GotSteps, LogSteps DEF Line!Next

\* doc.go: there is one timeline of all events, on which the subscribers of a client only
\* move forward; the bus implements Timeline.
THEOREM TimelineImplemented == Spec => ImplementsTimeline
<1>1. Init => Line!Init
  BY DEF Init, Line!Init
<1>2. IInv /\ [Next]_vars => [Line!Next]_(Line!vars)
  BY TimelineStep
<1> QED BY <1>1, <1>2, Invariant, PTL DEF Spec, ImplementsTimeline, Line!Spec

\* Once Client.Close has returned, no subscriber of the client is given an event.
THEOREM QuietAfterCloseHolds == Spec => QuietAfterClose
<1>1. ASSUME IInv, [Next]_vars
      PROVE  [\A c \in Clients : closePc[c] = "closed" => got'[c] = got[c]]_vars
  <2>1. CoreType /\ Dispatching
    BY <1>1, TypeHalves DEF IInv
  <2>2. ASSUME NEW c \in Clients, ChanRecv(c) \/ StartCallback(c), NEW d \in Clients,
               closePc[d] = "closed"
        PROVE  got'[d] = got[d]
    <3>1. d # c
      BY <2>1, <2>2 DEF ChanRecv, StartCallback, Dispatching, DispInv
    <3> QED BY <2>1, <2>2, <3>1 DEF ChanRecv, StartCallback, Hand, CoreType
  <2> QED BY <1>1, <2>1, <2>2, GotSteps
<1> QED BY <1>1, Invariant, PTL DEF Spec, QuietAfterClose

=============================================================================
