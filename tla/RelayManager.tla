---------------------------- MODULE RelayManager ----------------------------
(***************************************************************************)
(* wgengine/magicsock/relaymanager.go: relayManager, which allocates UDP   *)
(* relay server endpoints, handshakes with them and probes them.           *)
(*                                                                         *)
(* One goroutine, runLoop, owns the maps.  It takes events from callers    *)
(* and from its work goroutines over unbuffered channels, stops when there *)
(* is no work left, and is started again by whoever waits to give it an    *)
(* event.  A handler that cancels a work waits for its done event, so what *)
(* the loop still has to do for the event in hand is a stack, agenda.  A   *)
(* server endpoint whose rival was waited for is looked at again, when the *)
(* rival is gone; stopWork does not look again.                            *)
(*                                                                         *)
(* A work is named by its generation, which is also its place in hWork or  *)
(* aWork.  The nested maps of the code are flat: an inner map is deleted   *)
(* when it becomes empty.                                                  *)
(***************************************************************************)
EXTENDS Naturals, Sequences, FiniteSets, Functions

CONSTANTS
  Endpoints,     \* the endpoints (peers) paths are looked for
  Servers,       \* node keys of peer relay servers
  Regions,       \* DERP home regions of the servers
  DiscoKeys,     \* disco keys of the peers, NoDisco if one has none
  ServerDiscos,  \* disco keys of servers, ZeroDisco being the zero key
  VNIs, LamportIDs, AddrPorts,
  Best,          \* the relay paths that an endpoint trusts as its lastBest, or None
  NoDisco, ZeroDisco, None,
  LimitPings,    \* limitPings
  MaxCalls       \* MaxCalls[s]: a bound on the calls of each sort

ASSUME LimitAssumption == LimitPings \in Nat \ {0}
ASSUME BestAssumption == Best \subseteq (ServerDiscos \X VNIs) \cup {None}
ASSUME LamportAssumption == LamportIDs \subseteq Nat
Sorts == {"work", "msg", "config"}
ASSUME ServersAssumption == IsFiniteSet(Servers)
ASSUME BoundsAssumption == MaxCalls \in [Sorts -> Nat]

Candidates == Servers \X Regions       \* candidatePeerRelay
NodeKey(cand) == cand[1]
ServerEndpoints == [disco : ServerDiscos \cup {ZeroDisco}, vni : VNIs, lamport : LamportIDs]
SDV(se) == <<se.disco, se.vni>>        \* serverDiscoVNI

VARIABLES
  servers,      \* serversByNodeKey
  hasServers,   \* hasPeerRelayServers
  disco,        \* disco[ep]: the disco key of an endpoint
  allocByRelay, \* allocWorkByCandidatePeerRelayByEndpoint
  allocByKeys,  \* allocWorkByDiscoKeysByServerNodeKey
  hsByDisco,    \* handshakeWorkByServerDiscoByEndpoint
  hsBySDV,      \* handshakeWorkByServerDiscoVNI
  awaitingPong, \* handshakeWorkAwaitingPong
  apvToWork,    \* addrPortVNIToHandshakeWork
  aWork,        \* the allocation works started, by allocGen
  aState,       \* aState[g]: where the goroutine of aWork[g] is, what it was given
  hWork,        \* the handshake works started, by handshakeGen
  hState,       \* hState[g]: where the goroutine of hWork[g] is, and its locals
  doneCh,       \* the works that have an event in their doneCh
  canceled,     \* the works whose context is canceled
  ready,        \* ready[g]: calls of udpRelayEndpointReady for hWork[g]
  discoInfo,    \* discoInfoByServerDisco: the works that refer to each
  loop,         \* "running", or "stopped" with a token in runLoopStoppedCh
  agenda,       \* what runLoop has to do for the event in hand
  event,        \* that event: a call of stopWork, or Other
  calls,        \* calls[s]: the callers that wait in relayManagerInputEvent
  made          \* made[s]: how many calls of each sort there were

Other == [op |-> "other"]
StopCalls == [op : {"stopWork"}, ep : Endpoints]
ASSUME NoneAssumption == None \notin {Other} \cup StopCalls
allocMaps == <<allocByRelay, allocByKeys>>
hsMaps == <<hsByDisco, hsBySDV, awaitingPong, apvToWork>>
config == <<servers, hasServers, disco>>
works == <<aWork, hWork, ready>>
routines == <<aState, hState, doneCh, discoInfo>>
env == <<calls, made>>
vars == <<config, allocMaps, hsMaps, works, routines, canceled, loop, agenda, event, env>>

NoMap == [x \in {} |-> None]
Without(f, x) == Restrict(f, DOMAIN f \ {x})
With(f, x, v) == [y \in DOMAIN f \cup {x} |-> IF y = x THEN v ELSE f[y]]
WithAll(f, g) == [y \in DOMAIN f \cup DOMAIN g |-> IF y \in DOMAIN g THEN g[y] ELSE f[y]]

\* The zero value after init().
Init ==
  /\ servers = NoMap /\ hasServers = FALSE
  /\ disco \in [Endpoints -> DiscoKeys \cup {NoDisco}]
  /\ allocByRelay = NoMap /\ allocByKeys = NoMap
  /\ hsByDisco = NoMap /\ hsBySDV = NoMap /\ awaitingPong = NoMap /\ apvToWork = NoMap
  /\ aWork = <<>> /\ hWork = <<>> /\ aState = <<>> /\ hState = <<>> /\ ready = <<>>
  /\ doneCh = {} /\ canceled = {}
  /\ discoInfo = [d \in ServerDiscos |-> {}]
  /\ loop = "stopped" /\ agenda = <<>> /\ event = None
  /\ calls = [s \in Sorts |-> 0] /\ made = [s \in Sorts |-> 0]

-----------------------------------------------------------------------------
(* Callers: each waits in relayManagerInputEvent until the loop takes its    *)
(* event.  Nothing depends on the event before that, so it is chosen then;   *)
(* and one caller of a sort waits at a time, since any that wait behind it   *)
(* can as well come later.                                                   *)

AllocMessages ==
  [type : {"allocResp"}, server : Servers, keys : DiscoKeys, gen : DOMAIN aWork,
   se : ServerEndpoints]

HandshakeMessages ==
  [type : {"challenge"}, disco : ServerDiscos, vni : VNIs, from : AddrPorts, valid : BOOLEAN]
    \cup [type : {"ping"}, vni : VNIs, from : AddrPorts]
    \cup [type : {"pong"}, vni : VNIs, from : AddrPorts, known : BOOLEAN]

Messages == AllocMessages \cup HandshakeMessages

WorkCalls ==
  [op : {"startDiscovery"}, ep : Endpoints, best : Best]
    \cup StopCalls
    \cup [op : {"newServerEndpoint"}, ep : Endpoints, best : Best, se : ServerEndpoints,
          allocated : {FALSE}]

ConfigCalls ==
  [op : {"servers"}, set : {S \in SUBSET Candidates :
                              \A a, b \in S : NodeKey(a) = NodeKey(b) => a = b}]
    \cup [op : {"upsert"}, cand : Candidates]
    \cup [op : {"remove"}, server : Servers]
    \cup [op : {"derpHome"}, cand : Candidates]
    \cup [op : {"getServers"}]

\* startUDPRelayPathDiscoveryFor, stopWork and handleCallMeMaybeVia; handleRxDiscoMsg,
\* on whose messages the network decides; the calls of Conn that set the servers.
Call(sort) ==
  /\ made[sort] < MaxCalls[sort] /\ made' = [made EXCEPT ![sort] = @ + 1]
  /\ calls[sort] = 0 /\ calls' = [calls EXCEPT ![sort] = @ + 1]
  /\ UNCHANGED <<config, allocMaps, hsMaps, works, routines, canceled, loop, agenda, event>>

\* updateDiscoKey: a peer's disco key becomes known, changes or is forgotten.  The
\* caller goes on to stopWork, which is a call like any other: it may come at once
\* or after other callers.
DiscoChanges(ep) ==
  /\ made["config"] < MaxCalls["config"] /\ made' = [made EXCEPT !["config"] = @ + 1]
  /\ \E k \in (DiscoKeys \cup {NoDisco}) \ {disco[ep]} : disco' = [disco EXCEPT ![ep] = k]
  /\ UNCHANGED <<servers, hasServers, allocMaps, hsMaps, works, routines, canceled, loop, agenda,
                 event, calls>>

-----------------------------------------------------------------------------
(* relayManagerInputEvent and the frame of runLoop.                          *)

Alloc(g) == <<"alloc", g>>
Handshake(g) == <<"handshake", g>>
Works == {Alloc(g) : g \in DOMAIN aWork} \cup {Handshake(g) : g \in DOMAIN hWork}
PC(w) == IF w[1] = "alloc" THEN aState[w[2]].pc ELSE hState[w[2]].pc

\* A blocked writer takes the token and starts the loop.
StartLoop ==
  /\ loop = "stopped" /\ loop' = "running"
  /\ (\E sort \in Sorts : calls[sort] > 0) \/ \E w \in Works : PC(w) = "offer"
  /\ UNCHANGED <<config, allocMaps, hsMaps, works, routines, canceled, agenda, event, env>>

hasActiveWork == DOMAIN allocByRelay # {} \/ DOMAIN hsByDisco # {}

hasActiveWorkFor(ep) ==
  \/ \E k \in DOMAIN allocByRelay : k[1] = ep
  \/ \E k \in DOMAIN hsByDisco : k[1] = ep

Idle == loop = "running" /\ event = None

\* The loop takes event c of a caller.
Take(sort, c) ==
  /\ Idle /\ calls[sort] > 0
  /\ calls' = [calls EXCEPT ![sort] = @ - 1]
  /\ event' = IF c.op = "stopWork" THEN c ELSE Other

\* The handler has returned: stop if nothing is left, otherwise select again.
EndEvent ==
  /\ loop = "running" /\ event # None /\ agenda = <<>>
  /\ event' = None
  /\ loop' = IF hasActiveWork THEN "running" ELSE "stopped"
  /\ UNCHANGED <<config, allocMaps, hsMaps, works, routines, canceled, agenda, env>>

Task(op) == loop = "running" /\ agenda # <<>> /\ Head(agenda).op = op
Then(tasks) == agenda' = tasks \o Tail(agenda)

-----------------------------------------------------------------------------
(* Configuration events.                                                     *)

\* handleServersUpdateRunLoop
NewServers(c) == [n \in {NodeKey(v) : v \in c.set} |-> (CHOOSE v \in c.set : NodeKey(v) = n)[2]]

\* handleServersUpdateRunLoop, handleServerUpsertRunLoop, handleServerRemoveRunLoop,
\* handleDERPHomeChangeRunLoop and handleGetServersRunLoop, which answers its caller.
Configure(c) ==
  /\ Take("config", c)
  /\ \/ c.op = "servers" /\ servers' = NewServers(c)
     \/ c.op = "upsert" /\ servers' = With(servers, NodeKey(c.cand), c.cand[2])
     \/ c.op = "remove" /\ servers' = Without(servers, c.server)
     \/ /\ c.op = "derpHome"
        /\ servers' = IF NodeKey(c.cand) \in DOMAIN servers
                        THEN With(servers, NodeKey(c.cand), c.cand[2]) ELSE servers
     \/ c.op = "getServers" /\ servers' = servers
  /\ hasServers' = (DOMAIN servers' # {})
  /\ UNCHANGED <<disco, allocMaps, hsMaps, works, routines, canceled, loop, agenda, made>>

-----------------------------------------------------------------------------
(* Done events.  One is left in the work's doneCh and offered to the loop as *)
(* well: the second copy must find nothing to do.                            *)

\* Mutant of Current: whatever work the map holds is taken for the one that is done.
CurrentAny(g) == <<hWork[g].ep, hWork[g].se.disco>> \in DOMAIN hsByDisco

Current(g) ==
  LET k == <<hWork[g].ep, hWork[g].se.disco>> IN k \in DOMAIN hsByDisco /\ hsByDisco[k] = g

CurrentAlloc(g) ==
  LET k == <<aWork[g].ep, aWork[g].cand>> IN k \in DOMAIN allocByRelay /\ allocByRelay[k] = g

\* Mutant of HandshakeDone: the route of the pongs stays.
HandshakeDoneKeepsRoute(g) ==
  IF ~Current(g)
    THEN UNCHANGED <<hsMaps, ready>>
    ELSE /\ hsByDisco' = Without(hsByDisco, <<hWork[g].ep, hWork[g].se.disco>>)
         /\ hsBySDV' = Without(hsBySDV, SDV(hWork[g].se))
         /\ awaitingPong' = Without(awaitingPong, g)
         /\ UNCHANGED apvToWork
         /\ ready' = [ready EXCEPT ![g] = IF hState[g].pong THEN @ + 1 ELSE @]

\* handleHandshakeWorkDoneRunLoop for the event of work g: it leaves every map, and
\* a path that answered is reported to the endpoint, from a goroutine.
HandshakeDone(g) ==
  IF ~Current(g)
    THEN UNCHANGED <<hsMaps, ready>>
    ELSE /\ hsByDisco' = Without(hsByDisco, <<hWork[g].ep, hWork[g].se.disco>>)
         /\ hsBySDV' = Without(hsBySDV, SDV(hWork[g].se))
         /\ awaitingPong' = Without(awaitingPong, g)
         /\ apvToWork' = IF g \in DOMAIN awaitingPong
                           THEN Without(apvToWork, awaitingPong[g]) ELSE apvToWork
         /\ ready' = [ready EXCEPT ![g] = IF hState[g].pong THEN @ + 1 ELSE @]

\* handleAllocWorkDoneRunLoop, with rest to be done after it: an endpoint that was
\* allocated is handled like one the peer has sent.
AllocDone(g, rest) ==
  LET w == aWork[g]
      se == aState[g].se
  IN IF ~CurrentAlloc(g)
       THEN UNCHANGED allocMaps /\ agenda' = rest
       ELSE /\ allocByRelay' = Without(allocByRelay, <<w.ep, w.cand>>)
            /\ allocByKeys' = Without(allocByKeys, <<NodeKey(w.cand), w.keys>>)
            /\ agenda' = IF se = None \/ se.disco = ZeroDisco THEN rest
                         ELSE <<[op |-> "newServerEndpoint", ep |-> w.ep, best |-> w.best,
                                 se |-> se, allocated |-> TRUE]>> \o rest

\* The loop takes the event a work offers.
TakeAllocDone(g) ==
  /\ Idle /\ aState[g].pc = "offer"
  /\ aState' = [aState EXCEPT ![g].pc = "gone"]
  /\ event' = Other
  /\ AllocDone(g, <<>>)
  /\ UNCHANGED <<config, hsMaps, works, hState, doneCh, discoInfo, canceled, loop, env>>

TakeHandshakeDone(g) ==
  /\ Idle /\ hState[g].pc = "offer"
  /\ hState' = [hState EXCEPT ![g].pc = "gone"]
  /\ event' = Other
  /\ HandshakeDone(g)
  /\ UNCHANGED <<config, allocMaps, aWork, hWork, aState, doneCh, discoInfo, canceled, loop,
                 agenda, env>>

\* done := <-work.doneCh, after the work was canceled.
AwaitAlloc ==
  /\ Task("awaitAlloc")
  /\ LET g == Head(agenda).gen IN
       /\ Alloc(g) \in doneCh /\ doneCh' = doneCh \ {Alloc(g)}
       /\ AllocDone(g, Tail(agenda))
  /\ UNCHANGED <<config, hsMaps, works, aState, hState, discoInfo, canceled, loop, event, env>>

AwaitHandshake ==
  /\ Task("awaitHandshake")
  /\ LET g == Head(agenda).gen IN
       /\ Handshake(g) \in doneCh /\ doneCh' = doneCh \ {Handshake(g)}
       /\ HandshakeDone(g)
  /\ Then(<<>>)
  /\ UNCHANGED <<config, allocMaps, aWork, hWork, aState, hState, discoInfo, canceled, loop,
                 event, env>>

-----------------------------------------------------------------------------
(* startUDPRelayPathDiscoveryFor and allocateAllServersRunLoop.              *)

\* The servers an allocation is asked of: not one that has work for these keys,
\* which may be another peer's.
Asked(ep) == {<<n, servers[n]>> : n \in {n \in DOMAIN servers :
                                           <<n, disco[ep]>> \notin DOMAIN allocByKeys}}

StartDiscovery(c) ==
  /\ c.op = "startDiscovery" /\ Take("work", c)
  /\ LET asked == IF hasActiveWorkFor(c.ep) \/ disco[c.ep] = NoDisco THEN {} ELSE Asked(c.ep)
         n == Cardinality(asked)
     IN \E order \in Bijection(1 .. n, asked) :
          LET gen(cand) == Len(aWork) + (CHOOSE i \in 1 .. n : order[i] = cand)
              byRelay == [k \in {c.ep} \X asked |-> gen(k[2])]
              byKeys == [k \in {<<NodeKey(v), disco[c.ep]>> : v \in asked} |->
                           gen(<<k[1], servers[k[1]]>>)]
          IN /\ aWork' = aWork \o [i \in 1 .. n |-> [ep |-> c.ep, best |-> c.best,
                                                    keys |-> disco[c.ep], cand |-> order[i]]]
             /\ aState' = aState \o [i \in 1 .. n |-> [pc |-> "wait", se |-> None]]
             /\ allocByRelay' = WithAll(allocByRelay, byRelay)
             /\ allocByKeys' = WithAll(allocByKeys, byKeys)
  /\ UNCHANGED <<config, hsMaps, hWork, ready, hState, doneCh, discoInfo, canceled, loop, agenda,
                 made>>

-----------------------------------------------------------------------------
(* stopWork: one pass over the allocations, one of which may yet lead to a   *)
(* handshake, then one lookup of the handshakes and one pass over these.     *)

AllocsOf(ep) == {allocByRelay[k] : k \in {k \in DOMAIN allocByRelay : k[1] = ep}}
HandshakesOf(ep) == {hsByDisco[k] : k \in {k \in DOMAIN hsByDisco : k[1] = ep}}
Tracked == {Alloc(g) : g \in Range(allocByRelay)} \cup {Handshake(g) : g \in Range(hsByDisco)}

Pass(kind, ep) == [op |-> "stopPass", kind |-> kind, ep |-> ep]
Await(w) == [op |-> IF w[1] = "alloc" THEN "awaitAlloc" ELSE "awaitHandshake", gen |-> w[2]]

\* Mutant of StopWork: the handshakes are stopped before the allocations.
StopWorkHandshakesFirst(c) ==
  /\ c.op = "stopWork" /\ Take("work", c)
  /\ agenda' = <<Pass("handshake", c.ep), Pass("alloc", c.ep)>>
  /\ UNCHANGED <<config, allocMaps, hsMaps, works, routines, canceled, loop, made>>

\* stopWorkRunLoop: its two loops, in order.
StopWork(c) ==
  /\ c.op = "stopWork" /\ Take("work", c)
  /\ agenda' = <<Pass("alloc", c.ep), Pass("handshake", c.ep)>>
  /\ UNCHANGED <<config, allocMaps, hsMaps, works, routines, canceled, loop, made>>

\* A loop begins: the endpoint's entry is looked up, once.
StopPass ==
  /\ Task("stopPass")
  /\ LET ep == Head(agenda).ep IN
       Then(<<[op |-> "stopEach",
               left |-> IF Head(agenda).kind = "alloc" THEN {Alloc(g) : g \in AllocsOf(ep)}
                        ELSE {Handshake(g) : g \in HandshakesOf(ep)}]>>)
  /\ UNCHANGED <<config, allocMaps, hsMaps, works, routines, canceled, loop, event, env>>

\* One round of it: a work that is left is canceled and waited for.  The range is over
\* the live map, so an entry that was deleted meanwhile is not visited.
StopEach ==
  /\ Task("stopEach")
  /\ LET left == Head(agenda).left \cap Tracked IN
       \/ left = {} /\ Then(<<>>) /\ UNCHANGED canceled
       \/ \E w \in left :
            /\ canceled' = canceled \cup {w}
            /\ Then(<<Await(w), [op |-> "stopEach", left |-> left \ {w}]>>)
  /\ UNCHANGED <<config, allocMaps, hsMaps, works, routines, loop, event, env>>

-----------------------------------------------------------------------------
(* handleNewServerEndpointRunLoop.                                           *)

\* The peer's callMeMaybeVia, which is handled by a task of its own.
Accept(c) ==
  /\ c.op = "newServerEndpoint" /\ Take("work", c)
  /\ agenda' = <<c>>
  /\ UNCHANGED <<config, allocMaps, hsMaps, works, routines, canceled, loop, made>>

\* The works the new endpoint e is compared with, in the code's order.
Rivals(e) ==
  IF SDV(e.se) \in DOMAIN hsBySDV THEN {hsBySDV[SDV(e.se)]}
  ELSE IF <<e.ep, e.se.disco>> \in DOMAIN hsByDisco THEN {hsByDisco[<<e.ep, e.se.disco>>]}
  ELSE {}

\* An older rival is canceled and waited for, and e is looked at again.
ReplaceOlder(e) ==
  \E g \in Rivals(e) :
    /\ hWork[g].se.lamport < e.se.lamport
    /\ canceled' = canceled \cup {Handshake(g)}
    /\ agenda' = <<Await(Handshake(g))>> \o agenda
    /\ UNCHANGED <<hsMaps, hWork, hState, ready>>

\* A zero key, a rival that is as new, a path that is in use and trusted: no handshake.
Discard(e) ==
  /\ \/ e.se.disco = ZeroDisco
     \/ \E g \in Rivals(e) : hWork[g].se.lamport >= e.se.lamport
     \/ Rivals(e) = {} /\ e.best = SDV(e.se)
  /\ Then(<<>>)
  /\ UNCHANGED <<hsMaps, hWork, hState, ready, canceled>>

StartHandshake(e) ==
  /\ e.se.disco # ZeroDisco /\ Rivals(e) = {} /\ e.best # SDV(e.se)
  /\ LET g == Len(hWork) + 1 IN
       /\ hsByDisco' = With(hsByDisco, <<e.ep, e.se.disco>>, g)
       /\ hsBySDV' = With(hsBySDV, SDV(e.se), g)
  /\ hWork' = Append(hWork, [ep |-> e.ep, se |-> e.se])
  /\ hState' = Append(hState, [pc |-> "begin", answered |-> FALSE, pings |-> 0, pong |-> FALSE])
  /\ ready' = Append(ready, 0)
  /\ Then(<<>>)
  /\ UNCHANGED <<awaitingPong, apvToWork, canceled>>

NewServerEndpoint ==
  /\ Task("newServerEndpoint")
  /\ LET e == Head(agenda) IN ReplaceOlder(e) \/ Discard(e) \/ StartHandshake(e)
  /\ UNCHANGED <<config, allocMaps, aWork, aState, doneCh, discoInfo, loop, event, env>>

-----------------------------------------------------------------------------
(* handleRxDiscoMsgRunLoop.                                                  *)

\* The work a message is for, if there is one.
Target(m) ==
  CASE m.type = "allocResp" ->
         IF <<m.server, m.keys>> \in DOMAIN allocByKeys
           THEN {Alloc(allocByKeys[<<m.server, m.keys>>])} ELSE {}
    [] m.type = "challenge" ->
         IF <<m.disco, m.vni>> \in DOMAIN hsBySDV
           THEN {Handshake(hsBySDV[<<m.disco, m.vni>>])} ELSE {}
    [] OTHER ->
         IF <<m.from, m.vni>> \in DOMAIN apvToWork
           THEN {Handshake(apvToWork[<<m.from, m.vni>>])} ELSE {}

\* Only the first challenge counts, and one address leads to one work.
Passes(m, w) ==
  m.type = "challenge" => w[2] \notin DOMAIN awaitingPong /\ <<m.from, m.vni>> \notin DOMAIN apvToWork

\* A message that reaches a work is given to it; a challenge decides where the
\* work's pings and pongs come from.  (Every ping is answered from a goroutine.)
RxDiscoMsg(m) ==
  /\ Take("msg", [op |-> "rxDiscoMsg"])
  /\ LET to == {w \in Target(m) : Passes(m, w)}
     IN /\ agenda' = IF to = {} THEN <<>>
                     ELSE <<[op |-> "give", work |-> CHOOSE w \in to : TRUE, msg |-> m]>>
        /\ IF m.type = "challenge" /\ to # {}
             THEN LET g == (CHOOSE w \in to : TRUE)[2] IN
                    /\ awaitingPong' = With(awaitingPong, g, <<m.from, m.vni>>)
                    /\ apvToWork' = With(apvToWork, <<m.from, m.vni>>, g)
             ELSE UNCHANGED <<awaitingPong, apvToWork>>
  /\ UNCHANGED <<config, allocMaps, hsByDisco, hsBySDV, works, routines, canceled, loop, made>>

\* allocateServerEndpoint takes the response to its own request.
AllocHears(g, m) ==
  aState' = IF m.gen = g /\ m.keys = aWork[g].keys
              THEN [aState EXCEPT ![g] = [pc |-> "return", se |-> m.se]] ELSE aState

\* handshakeServerEndpoint answers a valid challenge and pings; a ping makes it ping
\* again; a pong for one of its pings ends it.
HandshakeHears(g, m) ==
  LET s == hState[g]
      ping == [s EXCEPT !.answered = TRUE, !.pings = IF @ = LimitPings THEN @ ELSE @ + 1]
  IN hState' = [hState EXCEPT ![g] =
       IF \/ m.type = "challenge" /\ m.valid /\ ~s.answered
          \/ m.type = "ping" /\ s.answered
         THEN ping
       ELSE IF m.type = "pong" /\ m.known /\ s.pings > 0
         THEN [s EXCEPT !.pc = "return", !.pong = TRUE]
       ELSE s]

\* Mutant of Give: the loop insists on delivering the message.
GiveOnly ==
  /\ Task("give")
  /\ LET w == Head(agenda).work IN
       \/ /\ w[1] = "alloc" /\ PC(w) = "wait"
          /\ AllocHears(w[2], Head(agenda).msg) /\ UNCHANGED hState
       \/ /\ w[1] = "handshake" /\ PC(w) = "wait"
          /\ HandshakeHears(w[2], Head(agenda).msg) /\ UNCHANGED aState
  /\ Then(<<>>)
  /\ UNCHANGED <<config, allocMaps, hsMaps, works, doneCh, discoInfo, canceled, loop, event, env>>

\* The select of the loop: the work takes the message, or has ended.
Give ==
  /\ Task("give")
  /\ LET w == Head(agenda).work
         g == w[2]
         m == Head(agenda).msg
     IN \/ /\ w[1] = "alloc" /\ PC(w) = "wait"
           /\ AllocHears(g, m) /\ Then(<<>>)
           /\ UNCHANGED <<allocMaps, hsMaps, ready, hState, doneCh>>
        \/ /\ w[1] = "handshake" /\ PC(w) = "wait"
           /\ HandshakeHears(g, m) /\ Then(<<>>)
           /\ UNCHANGED <<allocMaps, hsMaps, ready, aState, doneCh>>
        \/ /\ w[1] = "alloc" /\ w \in doneCh /\ doneCh' = doneCh \ {w}
           /\ AllocDone(g, Tail(agenda))
           /\ UNCHANGED <<hsMaps, ready, aState, hState>>
        \/ /\ w[1] = "handshake" /\ w \in doneCh /\ doneCh' = doneCh \ {w}
           /\ HandshakeDone(g) /\ Then(<<>>)
           /\ UNCHANGED <<allocMaps, aState, hState>>
  /\ UNCHANGED <<config, aWork, hWork, discoInfo, canceled, loop, event, env>>

-----------------------------------------------------------------------------
(* The goroutines: allocateServerEndpoint and handshakeServerEndpoint.       *)

\* ensureDiscoInfoFor, then the binds, unless the peer has no disco key or the
\* endpoint no address.
HandshakeBegins(g) ==
  /\ hState[g].pc = "begin"
  /\ discoInfo' = [discoInfo EXCEPT ![hWork[g].se.disco] = @ \cup {g}]
  /\ \/ disco[hWork[g].ep] # NoDisco /\ hState' = [hState EXCEPT ![g].pc = "wait"]
     \/ hState' = [hState EXCEPT ![g].pc = "return"]
  /\ UNCHANGED <<config, allocMaps, hsMaps, works, aState, doneCh, canceled, loop, agenda, event,
                 env>>

\* It returns with a pong, when it is canceled or when its timer fires:
\* derefDiscoInfoFor, and an event in doneCh.
HandshakeReturns(g) ==
  /\ hState[g].pc \in {"wait", "return"}
  /\ hState' = [hState EXCEPT ![g] = [@ EXCEPT !.pc = "offer", !.answered = FALSE, !.pings = 0]]
  /\ discoInfo' = [discoInfo EXCEPT ![hWork[g].se.disco] = @ \ {g}]
  /\ doneCh' = doneCh \cup {Handshake(g)}
  /\ UNCHANGED <<config, allocMaps, hsMaps, works, aState, canceled, loop, agenda, event, env>>

AllocReturns(g) ==
  /\ aState[g].pc \in {"wait", "return"}
  /\ aState' = [aState EXCEPT ![g].pc = "offer"]
  /\ doneCh' = doneCh \cup {Alloc(g)}
  /\ UNCHANGED <<config, allocMaps, hsMaps, works, hState, discoInfo, canceled, loop, agenda,
                 event, env>>

\* relayManagerInputEvent gives up offering once the context is canceled.
OfferCanceled(w) ==
  /\ PC(w) = "offer" /\ w \in canceled
  /\ IF w[1] = "alloc"
       THEN aState' = [aState EXCEPT ![w[2]].pc = "gone"] /\ UNCHANGED hState
       ELSE hState' = [hState EXCEPT ![w[2]].pc = "gone"] /\ UNCHANGED aState
  /\ UNCHANGED <<config, allocMaps, hsMaps, works, doneCh, discoInfo, canceled, loop, agenda,
                 event, env>>

-----------------------------------------------------------------------------
CallNext == (\E sort \in Sorts : Call(sort)) \/ (\E ep \in Endpoints : DiscoChanges(ep))

LoopNext ==
  \/ StartLoop \/ EndEvent
  \/ \E c \in ConfigCalls : Configure(c)
  \/ \E c \in WorkCalls : StartDiscovery(c) \/ StopWork(c) \/ Accept(c)
  \/ \E m \in Messages : RxDiscoMsg(m)
  \/ \E g \in DOMAIN aWork : TakeAllocDone(g)
  \/ \E g \in DOMAIN hWork : TakeHandshakeDone(g)
  \/ AwaitAlloc \/ AwaitHandshake \/ StopPass \/ StopEach \/ NewServerEndpoint \/ Give

WorkNext ==
  \/ \E g \in DOMAIN hWork : HandshakeBegins(g) \/ HandshakeReturns(g)
  \/ \E g \in DOMAIN aWork : AllocReturns(g)
  \/ \E w \in Works : OfferCanceled(w)

Next == CallNext \/ LoopNext \/ WorkNext

Spec == Init /\ [][Next]_vars

\* The goroutines are scheduled, every work has a timer, and the loop takes what is
\* offered to it.
FairSpec == Spec /\ WF_vars(LoopNext) /\ WF_vars(WorkNext)

-----------------------------------------------------------------------------
(* Properties.                                                               *)

\* What may be on the agenda.
Tasks ==
  [op : {"stopPass"}, kind : {"alloc", "handshake"}, ep : Endpoints]
    \cup [op : {"stopEach"}, left : SUBSET Works]
    \cup [op : {"newServerEndpoint"}, ep : Endpoints, best : Best, se : ServerEndpoints,
          allocated : BOOLEAN]
    \cup [op : {"awaitAlloc"}, gen : DOMAIN aWork]
    \cup [op : {"awaitHandshake"}, gen : DOMAIN hWork]
    \cup [op : {"give"}, work : {Alloc(g) : g \in DOMAIN aWork}, msg : AllocMessages]
    \cup [op : {"give"}, work : {Handshake(g) : g \in DOMAIN hWork}, msg : HandshakeMessages]

\* The state of relayManager and of its goroutines has the shape the code gives it;
\* a handshake never has more pings than limitPings.
TypeOK ==
  /\ DOMAIN servers \subseteq Servers /\ Range(servers) \subseteq Regions
  /\ hasServers \in BOOLEAN
  /\ disco \in [Endpoints -> DiscoKeys \cup {NoDisco}]
  /\ DOMAIN allocByRelay \subseteq Endpoints \X Candidates /\ Range(allocByRelay) \subseteq DOMAIN aWork
  /\ DOMAIN allocByKeys \subseteq Servers \X DiscoKeys /\ Range(allocByKeys) \subseteq DOMAIN aWork
  /\ DOMAIN hsByDisco \subseteq Endpoints \X ServerDiscos /\ Range(hsByDisco) \subseteq DOMAIN hWork
  /\ DOMAIN hsBySDV \subseteq ServerDiscos \X VNIs /\ Range(hsBySDV) \subseteq DOMAIN hWork
  /\ DOMAIN awaitingPong \subseteq DOMAIN hWork /\ Range(awaitingPong) \subseteq AddrPorts \X VNIs
  /\ DOMAIN apvToWork \subseteq AddrPorts \X VNIs /\ Range(apvToWork) \subseteq DOMAIN hWork
  /\ aWork \in Seq([ep : Endpoints, best : Best, keys : DiscoKeys, cand : Candidates])
  /\ aState \in Seq([pc : {"wait", "return", "offer", "gone"}, se : ServerEndpoints \cup {None}])
  /\ hWork \in Seq([ep : Endpoints, se : ServerEndpoints])
  /\ hState \in Seq([pc : {"begin", "wait", "return", "offer", "gone"}, answered : BOOLEAN,
                     pings : 0 .. LimitPings, pong : BOOLEAN])
  /\ ready \in Seq(Nat)
  /\ Len(aState) = Len(aWork) /\ Len(hState) = Len(hWork) /\ Len(ready) = Len(hWork)
  /\ doneCh \subseteq Works /\ canceled \subseteq Works
  /\ discoInfo \in [ServerDiscos -> SUBSET DOMAIN hWork]
  /\ loop \in {"running", "stopped"}
  /\ agenda \in Seq(Tasks)
  /\ event \in {None, Other} \cup StopCalls

\* The two maps are the two directions of one relation.
Inverses(f, g) ==
  /\ \A x \in DOMAIN f : f[x] \in DOMAIN g /\ g[f[x]] = x
  /\ \A y \in DOMAIN g : g[y] \in DOMAIN f /\ f[g[y]] = y

\* A handshake is in the map of its server and VNI; an allocation is in the map of its
\* relay and disco keys.
BySDV(g) == SDV(hWork[g].se) \in DOMAIN hsBySDV /\ hsBySDV[SDV(hWork[g].se)] = g
ByKeys(g) ==
  LET k == <<NodeKey(aWork[g].cand), aWork[g].keys>>
  IN k \in DOMAIN allocByKeys /\ allocByKeys[k] = g

\* The maps of the loop are one table: a handshake is found under its endpoint and
\* server exactly when it is found under its server and VNI, no two works share a
\* route for pongs, only a tracked work has one, and an allocation is found under its
\* endpoint and relay exactly when it is found under its relay and disco keys.
IndexesAgree ==
  /\ \A k \in DOMAIN hsByDisco :
       LET g == hsByDisco[k] IN k = <<hWork[g].ep, hWork[g].se.disco>> /\ BySDV(g)
  /\ \A k \in DOMAIN hsBySDV : LET g == hsBySDV[k] IN k = SDV(hWork[g].se) /\ Current(g)
  /\ DOMAIN awaitingPong \subseteq Range(hsBySDV)
  /\ Inverses(awaitingPong, apvToWork)
  /\ \A k \in DOMAIN allocByRelay :
       LET g == allocByRelay[k] IN k = <<aWork[g].ep, aWork[g].cand>> /\ ByKeys(g)
  /\ \A k \in DOMAIN allocByKeys :
       LET g == allocByKeys[k] IN k = <<NodeKey(aWork[g].cand), aWork[g].keys>> /\ CurrentAlloc(g)

\* A work the maps hold still owes the loop its event, or has it in doneCh: the loop,
\* which cancels a work and then waits, never waits for what was already taken.
TrackedAnswers == \A w \in Tracked : PC(w) \in {"begin", "wait", "return"} \/ w \in doneCh

\* A goroutine that works and was not canceled is in the maps: none is lost sight of,
\* whatever replaced it, and stopWork reaches it.
NoneLost == \A w \in Works : PC(w) \in {"begin", "wait", "return"} => w \in Tracked

\* The loop stops only with every map empty, although it looks at two of them: what
\* the next loop finds is what init() left.
StoppedIsClean ==
  loop = "stopped" =>
    \A f \in {allocByRelay, allocByKeys, hsByDisco, hsBySDV, awaitingPong, apvToWork} :
      DOMAIN f = {}

\* A path is reported to its endpoint once, although the done event of a handshake
\* reaches the loop by two channels, and only if a pong arrived on it.
ReadyOnce == \A g \in DOMAIN hWork : ready[g] <= 1 /\ (ready[g] = 1 => hState[g].pong)

\* When the loop has handled stopWork(ep) nothing works for ep, although it passes over
\* each map only once and an allocation that had succeeded starts a handshake, or
\* replaces one, while it is being stopped.
StopClears ==
  [][event # None /\ event.op = "stopWork" /\ event' = None =>
       AllocsOf(event.ep) = {} /\ HandshakesOf(event.ep) = {}]_vars

\* A caller of relayManager gets rid of its event, also while it holds ep.mu.
CallsReturn == []<>(\A sort \in Sorts : calls[sort] = 0)

\* Without new calls every work ends, is forgotten and leaves no disco info behind.
Quiesces ==
  <>[](/\ Tracked = {} /\ agenda = <<>>
       /\ \A w \in Works : PC(w) = "gone"
       /\ \A d \in ServerDiscos : discoInfo[d] = {})

\* Once an endpoint's work is stopped, because its disco key changed, no path found
\* for the old key is reported to it.
StopSilences ==
  [][event # None /\ event.op = "stopWork" =>
       \A g \in DOMAIN hWork : hWork[g].ep = event.ep => ready'[g] = ready[g]]_vars

\* The tables of the loop are typed and agree with each other.
TablesSound == TypeOK /\ IndexesAgree /\ StoppedIsClean

\* Every work is accounted for: tracked exactly while it owes the loop an event, and
\* its path reported at most once.
WorkAccounted == TrackedAnswers /\ NoneLost /\ ReadyOnce

\* Neither the callers nor the loop nor a work hangs.
NothingHangs == CallsReturn /\ Quiesces
=============================================================================
