----------------------------- MODULE DerpWriter -----------------------------
(***************************************************************************)
(* derp/derpserver: the write side of one client connection (sclient).     *)
(*                                                                         *)
(* A writer goroutine exists only while there is something to write.       *)
(* Producers (goroutines of other clients, the reader, the keepalive       *)
(* timer) publish work and then add its kind to the packed word            *)
(* writerState, which also holds the writer's phase; a producer that finds *)
(* the writer parked starts one.  A compare-and-swap loop is one action,   *)
(* at the moment of its last, successful attempt.                          *)
(*                                                                         *)
(* The goroutine of accept is the writer until it first parks; then it is  *)
(* the reader, and tears the connection down (stopWriter).                 *)
(***************************************************************************)
EXTENDS Naturals

CONSTANTS
  Spawned,   \* identities for the writer goroutines that are started
  Senders,   \* goroutines that publish packets and notices
  Depth,     \* perClientSendQueueDepth
  MaxNotices \* bound on the peer gone and the mesh notices that wait

ASSUME DepthAssumption == Depth \in Nat \ {0}
ASSUME NoticesAssumption == MaxNotices \in Nat

Accept == "accept"
ASSUME SpawnedAssumption == Accept \notin Spawned

Writers == Spawned \cup {Accept}
Queues == {"send", "disco"}            \* pendSendQueue, pendDiscoQueue
Control == {"peerGone", "mesh", "pong", "keepAlive"}
Kinds == Queues \cup Control           \* the bits of writerPending

VARIABLES
  phase,      \* writerState.phase()
  pending,    \* writerState.pending()
  wpc,        \* wpc[w]: where writer goroutine w is in runWriter
  work,       \* work[w]: pend of its pass, carry between two passes
  budget,     \* budget[w]: packets the pass may still write
  queued,     \* queued[k]: the number of packets in a pktQueue
  qClosed,    \* pktQueue.closed
  peerGone,   \* len(peerGonePending)
  mesh,       \* len(peerStateChange)
  pong,       \* sclient.pong holds a reply that has not been written
  spc,        \* spc[s]: the kind of work s has published and not announced
  timer,      \* the keepalive timer
  reader,     \* where the goroutine of accept and run is
  exited,     \* writerExited has been closed
  connClosed  \* nc has been closed

writerVars == <<wpc, work, budget>>
workVars == <<queued, qClosed, peerGone, mesh, pong>>
vars == <<phase, pending, writerVars, workVars, spc, timer, reader, exited, connClosed>>

\* accept: the writer is running, the client registered, ServerInfo not yet sent.
Init ==
  /\ phase = "running" /\ pending = {}
  /\ wpc = [w \in Writers |-> "idle"]
  /\ work = [w \in Writers |-> {}]
  /\ budget = [w \in Writers |-> 0]
  /\ queued = [k \in Queues |-> 0] /\ qClosed = [k \in Queues |-> FALSE]
  /\ peerGone = 0 /\ mesh = 0 /\ pong = FALSE
  /\ spc = [s \in Senders |-> "idle"]
  /\ timer = "off" /\ reader = "accept" /\ exited = FALSE /\ connClosed = FALSE

-----------------------------------------------------------------------------
(* claimWriter and wakeWriter. *)

\* A parked writer is started with the caller's work, a running one is told of
\* it, and one that is closing or stopped is left alone.
Claim(k) ==
  \/ /\ phase = "parked"
     /\ phase' = "running" /\ pending' = {k}
     /\ \E w \in Spawned : wpc[w] = "idle" /\ wpc' = [wpc EXCEPT ![w] = "loop"]
  \/ /\ phase = "running"
     /\ pending' = pending \cup {k}
     /\ UNCHANGED <<phase, wpc>>
  \/ phase \in {"closing", "stopped"} /\ UNCHANGED <<phase, pending, wpc>>

-----------------------------------------------------------------------------
(* Producers. *)

\* enqueue of sendPkt: a full queue loses its head, and only the packet that makes
\* the queue non-empty is announced.
Enqueue(s, k) ==
  /\ spc[s] = "idle" /\ ~qClosed[k]
  /\ queued' = [queued EXCEPT ![k] = IF @ = Depth THEN @ ELSE @ + 1]
  /\ spc' = [spc EXCEPT ![s] = IF queued[k] = 0 THEN k ELSE "idle"]
  /\ UNCHANGED <<phase, pending, writerVars, qClosed, peerGone, mesh, pong, timer, reader,
                 exited, connClosed>>

RequestPeerGoneWrite(s) ==
  /\ spc[s] = "idle" /\ peerGone < MaxNotices
  /\ peerGone' = peerGone + 1
  /\ spc' = [spc EXCEPT ![s] = "peerGone"]
  /\ UNCHANGED <<phase, pending, writerVars, queued, qClosed, mesh, pong, timer, reader,
                 exited, connClosed>>

\* broadcastPeerStateChangeLocked appends to peerStateChange.
RequestMeshUpdate(s) ==
  /\ spc[s] = "idle" /\ mesh < MaxNotices
  /\ mesh' = mesh + 1
  /\ spc' = [spc EXCEPT ![s] = "mesh"]
  /\ UNCHANGED <<phase, pending, writerVars, queued, qClosed, peerGone, pong, timer, reader,
                 exited, connClosed>>

Wake(s) ==
  /\ spc[s] # "idle"
  /\ Claim(spc[s])
  /\ spc' = [spc EXCEPT ![s] = "idle"]
  /\ UNCHANGED <<work, budget, workVars, timer, reader, exited, connClosed>>

\* The timer starts a goroutine for onKeepAliveTimer ...
TimerFires ==
  /\ timer = "armed" /\ timer' = "firing"
  /\ UNCHANGED <<phase, pending, writerVars, workVars, spc, reader, exited, connClosed>>

\* ... which runs a parked writer itself.
OnKeepAliveTimer ==
  /\ timer = "firing" /\ timer' = "off"
  /\ Claim("keepAlive")
  /\ UNCHANGED <<work, budget, workVars, spc, reader, exited, connClosed>>

-----------------------------------------------------------------------------
(* The writer goroutine w: runWriter. *)

Goto(w, label) == wpc' = [wpc EXCEPT ![w] = label]

\* writerClosing: exitWriterForStop, of which the close of writerExited is a step
\* of its own.  Any other phase is a panic.
HandOff(w) ==
  \/ phase = "closing" /\ phase' = "stopped" /\ pending' = {} /\ Goto(w, "exiting")
  \/ phase \in {"parked", "stopped"} /\ Goto(w, "panic") /\ UNCHANGED <<phase, pending>>

TakePending(w) ==
  /\ wpc[w] = "loop"
  /\ \/ /\ phase = "running"
        /\ pending' = {} /\ UNCHANGED phase
        /\ work' = [work EXCEPT ![w] = @ \cup pending]
        /\ \/ /\ work[w] \cup pending = {}
              /\ Goto(w, "flush") /\ UNCHANGED budget
           \/ /\ work[w] \cup pending # {}
              /\ Goto(w, "write") /\ budget' = [budget EXCEPT ![w] = Depth]
     \/ HandOff(w) /\ UNCHANGED <<work, budget>>
  /\ UNCHANGED <<workVars, spc, timer, reader, exited, connClosed>>

\* The outcome of a write, after which rest is left to do.
Done(w, rest) == work' = [work EXCEPT ![w] = rest] /\ UNCHANGED wpc
Failed(w) == work' = [work EXCEPT ![w] = {}] /\ Goto(w, "failed")
Written(w, rest) == Done(w, rest) \/ Failed(w)

WritePeerGone(w) ==
  /\ wpc[w] = "write" /\ "peerGone" \in work[w]
  /\ peerGone' = 0
  /\ Written(w, work[w] \ {"peerGone"})
  /\ UNCHANGED <<phase, pending, budget, queued, qClosed, mesh, pong, spc, timer, reader,
                 exited, connClosed>>

\* sendMeshUpdates takes batches until there is none.  A producer holds Server.mu
\* from its append to its wake.
WriteMesh(w) ==
  /\ wpc[w] = "write" /\ "mesh" \in work[w] /\ "peerGone" \notin work[w]
  /\ \A s \in Senders : spc[s] # "mesh"
  /\ \/ mesh = 0 /\ Done(w, work[w] \ {"mesh"}) /\ UNCHANGED mesh
     \/ mesh > 0 /\ mesh' = 0 /\ Written(w, work[w])
  /\ UNCHANGED <<phase, pending, budget, queued, qClosed, peerGone, pong, spc, timer, reader,
                 exited, connClosed>>

WritePong(w) ==
  /\ wpc[w] = "write" /\ "pong" \in work[w] /\ work[w] \cap {"peerGone", "mesh"} = {}
  /\ pong' = FALSE
  /\ Written(w, work[w] \ {"pong"})
  /\ UNCHANGED <<phase, pending, budget, queued, qClosed, peerGone, mesh, spc, timer, reader,
                 exited, connClosed>>

\* The timer is set again when the frame has been written.
WriteKeepAlive(w) ==
  /\ wpc[w] = "write" /\ work[w] \cap Control = {"keepAlive"}
  /\ \/ Done(w, work[w] \ {"keepAlive"}) /\ timer' = "armed"
     \/ Failed(w) /\ UNCHANGED timer
  /\ UNCHANGED <<phase, pending, budget, workVars, spc, reader, exited, connClosed>>

\* Mutant of Dequeue: a pass has no budget.
DequeueUnlimited(w, k) ==
  /\ wpc[w] = "write" /\ work[w] \cap Control = {} /\ k \in work[w]
  /\ \/ queued[k] = 0 /\ Done(w, work[w] \ {k}) /\ UNCHANGED queued
     \/ /\ queued[k] > 0
        /\ queued' = [queued EXCEPT ![k] = @ - 1]
        /\ Written(w, IF queued[k] > 1 THEN work[w] ELSE work[w] \ {k})
  /\ UNCHANGED <<phase, pending, budget, qClosed, peerGone, mesh, pong, spc, timer, reader,
                 exited, connClosed>>

\* One turn of the loop over the queues, which takes them in random order.
Dequeue(w, k) ==
  /\ wpc[w] = "write" /\ work[w] \cap Control = {} /\ k \in work[w] /\ budget[w] > 0
  /\ budget' = [budget EXCEPT ![w] = @ - 1]
  /\ \/ queued[k] = 0 /\ Done(w, work[w] \ {k}) /\ UNCHANGED queued
     \/ /\ queued[k] > 0
        /\ queued' = [queued EXCEPT ![k] = @ - 1]
        /\ Written(w, IF queued[k] > 1 THEN work[w] ELSE work[w] \ {k})
  /\ UNCHANGED <<phase, pending, qClosed, peerGone, mesh, pong, spc, timer, reader, exited,
                 connClosed>>

\* Mutant of EndPass: the carry is dropped.
EndPassNoCarry(w) ==
  /\ wpc[w] = "write" /\ work[w] \cap Control = {}
  /\ work[w] = {} \/ budget[w] = 0
  /\ Goto(w, "loop") /\ budget' = [budget EXCEPT ![w] = 0]
  /\ work' = [work EXCEPT ![w] = {}]
  /\ UNCHANGED <<phase, pending, workVars, spc, timer, reader, exited, connClosed>>

\* What is left of work is the carry.
EndPass(w) ==
  /\ wpc[w] = "write" /\ work[w] \cap Control = {}
  /\ work[w] = {} \/ budget[w] = 0
  /\ Goto(w, "loop") /\ budget' = [budget EXCEPT ![w] = 0]
  /\ UNCHANGED <<phase, pending, work, workVars, spc, timer, reader, exited, connClosed>>

Flush(w) ==
  /\ wpc[w] = "flush"
  /\ \E label \in {"park", "failed"} : Goto(w, label)
  /\ UNCHANGED <<phase, pending, work, budget, workVars, spc, timer, reader, exited,
                 connClosed>>

TryParkWriter(w) ==
  /\ wpc[w] = "park"
  /\ \/ phase = "running" /\ pending # {} /\ Goto(w, "loop") /\ UNCHANGED <<phase, pending>>
     \/ phase = "running" /\ pending = {} /\ phase' = "parked" /\ Goto(w, "idle")
        /\ UNCHANGED pending
     \/ HandOff(w)
  /\ UNCHANGED <<work, budget, workVars, spc, timer, reader, exited, connClosed>>

\* stopWriterOnError closes the connection before it changes the phase.
CloseOnError(w) ==
  /\ wpc[w] = "failed"
  /\ connClosed' = TRUE /\ Goto(w, "stopping")
  /\ UNCHANGED <<phase, pending, work, budget, workVars, spc, timer, reader, exited>>

StopOnError(w) ==
  /\ wpc[w] = "stopping"
  /\ \/ phase = "running" /\ phase' = "stopped" /\ pending' = {} /\ Goto(w, "idle")
     \/ HandOff(w)
  /\ UNCHANGED <<work, budget, workVars, spc, timer, reader, exited, connClosed>>

\* Mutant of ExitWriterForStop: writerExited is not closed.
ExitWriterSilently(w) ==
  /\ wpc[w] = "exiting"
  /\ Goto(w, "idle")
  /\ UNCHANGED <<phase, pending, work, budget, workVars, spc, timer, reader, exited,
                 connClosed>>

ExitWriterForStop(w) ==
  /\ wpc[w] = "exiting"
  /\ exited' = TRUE /\ Goto(w, "idle")
  /\ UNCHANGED <<phase, pending, work, budget, workVars, spc, timer, reader, connClosed>>

-----------------------------------------------------------------------------
(* The goroutine of accept and run. *)

\* sendServerInfo, after which accept runs the writer.
SendServerInfo ==
  /\ reader = "accept"
  /\ \/ reader' = "writing" /\ Goto(Accept, "loop") /\ UNCHANGED <<phase, pending>>
     \/ reader' = "refused" /\ phase' = "stopped" /\ pending' = {} /\ UNCHANGED wpc
  /\ UNCHANGED <<work, budget, workVars, spc, timer, exited, connClosed>>

\* run starts the timer.
Run ==
  /\ reader = "writing" /\ wpc[Accept] = "idle"
  /\ reader' = "read" /\ timer' = "armed"
  /\ UNCHANGED <<phase, pending, writerVars, workVars, spc, exited, connClosed>>

\* A ping while a pong is pending is dropped.
QueuePong ==
  /\ reader = "read" /\ ~connClosed /\ "pong" \notin pending
  /\ pong' = TRUE /\ reader' = "pong"
  /\ UNCHANGED <<phase, pending, writerVars, queued, qClosed, peerGone, mesh, spc, timer,
                 exited, connClosed>>

WakeForPong ==
  /\ reader = "pong" /\ reader' = "read"
  /\ Claim("pong")
  /\ UNCHANGED <<work, budget, workVars, spc, timer, exited, connClosed>>

\* A read fails, and stopWriter closes the connection.
ReadError ==
  /\ reader = "read"
  /\ reader' = "stop" /\ connClosed' = TRUE
  /\ UNCHANGED <<phase, pending, writerVars, workVars, spc, timer, exited>>

\* Mutant of StopWriter: it does not wait for the writer.
StopWriterNoWait ==
  /\ reader = "stop" /\ reader' = "release" /\ pending' = {}
  /\ phase' = IF phase = "running" THEN "closing" ELSE "stopped"
  /\ UNCHANGED <<writerVars, workVars, spc, timer, exited, connClosed>>

StopWriter ==
  /\ reader = "stop"
  /\ \/ phase \in {"parked", "stopped"} /\ phase' = "stopped" /\ reader' = "release"
        /\ pending' = {}
     \/ phase = "running" /\ phase' = "closing" /\ reader' = "wait" /\ pending' = {}
     \/ phase = "closing" /\ reader' = "panic" /\ UNCHANGED <<phase, pending>>
  /\ UNCHANGED <<writerVars, workVars, spc, timer, exited, connClosed>>

WriterExited ==
  /\ reader = "wait" /\ exited
  /\ reader' = "release"
  /\ UNCHANGED <<phase, pending, writerVars, workVars, spc, timer, exited, connClosed>>

\* keepAliveTimer.Stop does not stop a goroutine that has been started.
StopTimer ==
  /\ reader = "release" /\ reader' = "close"
  /\ timer' = IF timer = "armed" THEN "off" ELSE timer
  /\ UNCHANGED <<phase, pending, writerVars, workVars, spc, exited, connClosed>>

\* pktQueue.close; the watches and the client are unregistered by DerpClients.
CloseQueue(k) ==
  /\ reader = "close" /\ ~qClosed[k]
  /\ k = "disco" => qClosed["send"]
  /\ qClosed' = [qClosed EXCEPT ![k] = TRUE]
  /\ queued' = [queued EXCEPT ![k] = 0]
  /\ reader' = IF k = "disco" THEN "gone" ELSE reader
  /\ UNCHANGED <<phase, pending, writerVars, peerGone, mesh, pong, spc, timer, exited,
                 connClosed>>

-----------------------------------------------------------------------------

Producer(s) ==
  \/ \E k \in Queues : Enqueue(s, k)
  \/ RequestPeerGoneWrite(s) \/ RequestMeshUpdate(s)

Write(w) ==
  \/ WritePeerGone(w) \/ WriteMesh(w) \/ WritePong(w) \/ WriteKeepAlive(w)
  \/ \E k \in Queues : Dequeue(w, k)

Writer(w) ==
  \/ TakePending(w) \/ Write(w) \/ EndPass(w) \/ Flush(w) \/ TryParkWriter(w)
  \/ CloseOnError(w) \/ StopOnError(w) \/ ExitWriterForStop(w)

Teardown == StopWriter \/ WriterExited \/ StopTimer \/ \E k \in Queues : CloseQueue(k)

Reader == SendServerInfo \/ Run \/ QueuePong \/ WakeForPong \/ ReadError \/ Teardown

Ended == reader \in {"gone", "refused"} /\ UNCHANGED vars

Next ==
  \/ \E s \in Senders : Producer(s) \/ Wake(s)
  \/ TimerFires \/ OnKeepAliveTimer
  \/ \E w \in Writers : Writer(w)
  \/ Reader \/ Ended

Spec == Init /\ [][Next]_vars

\* Goroutines that can go on do; a read of a closed connection fails; and the
\* random order of the queues gives each its turn.  Nobody has to publish.
FairSpec ==
  /\ Spec
  /\ WF_vars(\E w \in Writers : Writer(w))
  /\ \A k \in Queues : SF_vars(\E w \in Writers : Dequeue(w, k))
  /\ \A s \in Senders : WF_vars(Wake(s))
  /\ WF_vars(OnKeepAliveTimer)
  /\ WF_vars(SendServerInfo \/ Run \/ WakeForPong \/ Teardown)
  /\ WF_vars(connClosed /\ ReadError)

-----------------------------------------------------------------------------
(* Properties. *)

\* The type of every variable, the depth of the queues included.
TypeOK ==
  /\ phase \in {"parked", "running", "closing", "stopped"} /\ pending \subseteq Kinds
  /\ wpc \in [Writers -> {"idle", "loop", "write", "flush", "park", "failed", "stopping",
                          "exiting", "panic"}]
  /\ work \in [Writers -> SUBSET Kinds] /\ budget \in [Writers -> 0..Depth]
  /\ queued \in [Queues -> 0..Depth] /\ qClosed \in [Queues -> BOOLEAN]
  /\ peerGone \in 0..MaxNotices /\ mesh \in 0..MaxNotices /\ pong \in BOOLEAN
  /\ spc \in [Senders -> Kinds \cup {"idle"}]
  /\ timer \in {"off", "armed", "firing"}
  /\ reader \in {"accept", "refused", "writing", "read", "pong", "stop", "wait", "release",
                 "close", "gone", "panic"}
  /\ exited \in BOOLEAN /\ connClosed \in BOOLEAN

\* bw, sawSrc and the timer are used without a lock: two goroutines are never in
\* runWriter, and none is there when the connection is torn down.
OneWriter ==
  /\ \A v, w \in Writers : wpc[v] # "idle" /\ wpc[w] # "idle" => v = w
  /\ reader \in {"refused", "release", "close", "gone"} => \A w \in Writers : wpc[w] = "idle"

\* The panics "unexpected writer state" are not reached.
NoPanic == reader # "panic" /\ \A w \in Writers : wpc[w] # "panic"

\* Somebody knows of the work of kind k: the word, the pass, or who published it.
Known(k) ==
  \/ k \in pending
  \/ \E w \in Writers : k \in work[w]
  \/ \E s \in Senders : spc[s] = k

InService ==
  phase \in {"parked", "running"} /\ \A w \in Writers : wpc[w] \notin {"failed", "stopping"}

\* A queue announces only its first packet and the writer clears the word before
\* it looks: still no work is there that nobody will look for.
NoWorkLost ==
  InService =>
    /\ \A k \in Queues : queued[k] > 0 => Known(k)
    /\ peerGone > 0 => Known("peerGone")
    /\ mesh > 0 => Known("mesh")
    /\ pong => Known("pong") \/ reader = "pong"

\* A connection in service always has its next keepalive under way, and one that
\* has been torn down none.
KeepAliveKept ==
  /\ InService /\ reader \in {"read", "pong"} => timer # "off" \/ Known("keepAlive")
  /\ reader \in {"close", "gone"} => timer # "armed"

\* "a packet enqueued after the drain here would otherwise surface in some other
\* client's queue": the queues of a client that is gone stay empty.
GoneIsEmpty == reader = "gone" => \A k \in Queues : queued[k] = 0

\* The goroutines of a connection hand the writer's state over soundly.
WriterSound == TypeOK /\ OneWriter /\ NoPanic

\* What is published for a connection in service is looked for, and nothing is kept
\* for one that is gone.
WorkKept == NoWorkLost /\ KeepAliveKept /\ GoneIsEmpty

\* Unlike the queues, the loop of sendMeshUpdates has no budget.
MeshQuiet == <>[](\A s \in Senders : spc[s] # "mesh")

\* When the connection is closed, by the reader or by a failed write, stopWriter
\* gets to its end, however many packets the senders send.
StopReturns == MeshQuiet => (connClosed ~> reader = "gone")

\* A notice is written even if senders never let the queues run dry.
NoticesWritten ==
  MeshQuiet => /\ peerGone > 0 ~> peerGone = 0 \/ phase = "stopped"
               /\ pong ~> ~pong \/ phase = "stopped"

\* A queue is served again and again as long as it has packets.
QueuesServed ==
  MeshQuiet => \A k \in Queues :
    \/ []<><<\E w \in Writers : Dequeue(w, k)>>_vars
    \/ []<>(queued[k] = 0)
    \/ <>(phase = "stopped")

\* No kind of work starves another.
PendingServed == NoticesWritten /\ QueuesServed
=============================================================================
