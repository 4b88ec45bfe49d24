# TLA+ models of the Tailscale core

This directory holds TLA+ models of parts of this repository (a fork of
Tailscale, see `FORK.md`), the TLC configurations that check them on small
instances, and TLAPS proofs for every size. `PROJECT.json` is the index: which
definition models which lines, what each run checks, and for each property a
plausible bug that the property catches.

## 1. The system

A Tailscale node is one process, `tailscaled`. Its parts, with the state each
keeps and what it exchanges with the others:

| Part | State | Interacts by | Hard because | Correct if |
|---|---|---|---|---|
| control client `controlclient.Auto` | login goal, logged in, paused, contexts, update generation, last status | methods called by LocalBackend; three goroutines; HTTP to the control server; statuses to the observer | three routines and any number of callers share one mutex that is released around every request | no lost wakeup, late answers harmless, server informed, observer current, shutdown ends |
| `controlclient.Direct`, `mapSession` | node keys, hostinfo, endpoints; peers, last netmap | called by Auto; calls back with netmaps and deltas | deltas, patches and full maps must agree | state after deltas = state after full map |
| `util/execqueue` | queue, in-flight flag, done waiter | used by Auto, LocalBackend, ExtensionHost, wgengine, appc | a goroutine that ends while somebody adds or waits | in order, one at a time, waiters wake, nothing after close |
| `util/eventbus` | the pump's queue, a queue and a dispatcher per client, topics | typed publish/subscribe in the whole process | events in two queues while clients subscribe, close and publish from callbacks | one timeline, nothing skipped, nothing after Close, no call hangs |
| `LocalBackend` | prefs, netmap, ipn state, profiles | everything | one mutex, callbacks from every other part | state follows prefs, netmap and login |
| `ExtensionHost` | extensions, hooks, work queue | LocalBackend, extensions | init and shutdown order | no callback after shutdown |
| tailnet lock (`tka`) | chain of AUMs, active chain | LocalBackend, control server | forks, sync of two nodes, compaction | all nodes resolve forks alike |
| audit log (`ipn/auditlog`) | pending logs in a file, one Logger per control client | LocalBackend audits actions, the control client is the transport and starts and stops Loggers | a worker, a final flush, retries, failed saves, crashes; Loggers share the store | nothing lost, nothing repeated, limits kept, stop returns |
| magicsock | endpoints, paths, DERP connections, peer map | wgengine, disco messages, DERP | UDP: loss, order, NAT rebinding, timeouts | a working path is found and a dead one left |
| relay manager | six maps of allocation and handshake works | magicsock calls it; relays and peers send disco messages | a loop that stops and starts, and waits for goroutines that report to it twice | maps agree, one live handshake per relay endpoint, stopWork stops, nothing hangs |
| UDP relay server | allocations | relay managers of two peers | expiry, two clients | allocations expire |
| DERP server | client sets, duplicates, forwarders, watchers; per connection two queues and a packed state word | TCP clients, mesh peers | duplicate keys, disconnects racing sends; a writer that comes and goes without a lock | one active client, peers told; one writer, no work forgotten, teardown ends |
| wgengine, router, DNS | device configuration | LocalBackend | drives external devices | configuration follows netmap |
| logtail, filch | on-disk ring | everything | crash between rotations | nothing lost or repeated beyond the promise |
| Taildrop, exit node health, Android DNS, TailDNS installer and updater, conn25, health, route manager, DNS caches, port mapper, consensus pool, state stores, CLI and integrations | their own | LocalBackend, LocalAPI, platform | see the notes in `PROJECT.json` | |

The hazards, each with its line and the properties that watch it, are listed in
`PROJECT.json` under "hazards"; they are those of the parts modelled so far.

## 2. What is modelled

### ExecQueue (`util/execqueue/execqueue.go`)

`ExecQueue.tla` has one action per critical section of `q.mu`. A queued function
is a job; the goroutine of `run` is identified with the job it is at ("exec"
while the function runs, "ran" between its return and the next lock). Callers
are goroutines that each call one of `RunSync`, `Wait`, `Shutdown`,
`ShutdownAndWait`, or `Shutdown` followed by `Wait` as
`ExtensionHost.shutdownWorkQueue` does; functions handed to `Add` come from
anywhere. `q.ctx` is "nil" until `initCtxLocked`, "live", and "done" once
cancelled. `chan[c]` is the caller's view of the `doneWaiter` channel it took:
"on" while it is open, "fired" once closed. `before` is a history variable.

`SerialQueue.tla` is what the queue promises: accepted jobs run one at a time,
in order, and none is started once it is closed. `ExecQueue` implements it under
the mapping "queued is pending, ran and over are finished, dropped is refused".

### ControlAuto (`control/controlclient/auto.go`)

One action is one critical section of `c.mu`, one operation on a channel or an
atomic, or one answer of the server. `pc` holds where each goroutine is: the
three routines, the callers of setters, one Logout and one Shutdown at a time.

* Contexts. `Auto` replaces its contexts when it cancels them, so all that
  matters is whether the one a routine *holds* is cancelled: `ctxDone[r]`.
  `Cancel(rs)` marks those that hold one; a routine that reads a context from a
  closed client gets a cancelled one (`TakeCtx`).
* Goals. `LoginGoal` pointers are compared by identity; a goal is the number of
  the Login call plus whether an auth URL is known.
* Server information. Hostinfo, net info, endpoints, TKA head, disco key and IP
  forwarding are one version number `info`; the setters differ only in the field
  they change. `SendUpdate` reads `info` when the request is made; a failed
  request may or may not have reached the server.
* Netmaps are versions; `served` is the last one the server sent. A map response
  is handled as a delta or as a full netmap. One push stands for
  `UpdateNetmapDelta`, `UpdatePacketFilter` and `UpdateUserProfiles`, which are
  the same code. The observer applies the delta or declines; a delta applied to
  a netmap it was not made for yields `Torn`.
* Statuses carry what `canSkipStatus` looks at; two statuses that are equal in
  all of that stand for the same pointer, since skipping one for an equal one
  makes no difference to any property.
* `observerQueue` is an ExecQueue; here it is its abstraction, a serial queue
  whose waiting functions are thrown away by Shutdown.
* In mapRoutine the critical section that clears `inMapPoll` for a client that is
  not logged in is merged with the preceding one: `inMapPoll` is already false
  there, because every poll ends by clearing it.

Left out in ControlAuto: `urlToVisit`, `expiry`, health reports, logging, metrics, the knob
`DisableSkipStatusQueue` (skipping is on), the sleeps of backoff and
`waitRetryAfter` (they take no step: any delay is possible between two steps),
`shutdownFn`, and pass-through and test-only methods.

### AuditLog (`ipn/auditlog/auditlog.go`, `extension.go`, `ipn/store/stores.go`)

One profile, its file, and the Loggers the extension creates for it, one for each
control client. A log is its timestamp; a saved list, always sorted and without
duplicates, is a function from logs to their Retries or `Absent`.

* The store. `cache` is what FileStore holds in memory, `disk` the file. A save
  that equals the cache does nothing; any other changes the cache first and then
  replaces the whole file, or fails to. A crash makes the next process read `disk`.
* Locks. A Logger's `mu` is held from the load to the save of a critical section
  (`Locked`), and that is two actions, because another Logger has another `mu`.
  `LocalBackend.mu` is held when an action is audited, when a control client is
  created and when the profile changes (`BackendFree`); it is not held when the
  old control client is shut down.
* The goroutine that flushes for a Logger is its worker and, after `done` is
  closed, the caller of `FlushAndStop`; `phase` tells which. `pc` goes from
  "select" through "load", "send", "markSave", "append", "appendSave" back, or to
  "returned". Where there is nothing to put back, the lock that `flush` takes
  before it returns is merged into the preceding action.
* The transport takes a log, refuses it for good, refuses it with a retryable
  error, or fails because a context is done (`Cut`), its own timeouts included.
* `flush` never returns an error that wraps `context.Canceled`, so the branch of
  `flushWorker` for it has no action.
* A profile that is not persisted has no ID: its Logger refuses logs and its
  flushes fail, until `SetProfileID`.
* A Logger may start while others are at work. `Start` shuts the old control client
  down first (`local.go:3220`), but two Starts at the same time do not wait for each
  other's (the TODO at `local.go:3213`), and a change of profile shuts it down in the
  background (`local.go:8738`). `overlaps` counts how often it happened. Two Loggers
  work on one file with a lock each, so a save can drop what the other has stored since
  it was loaded; `overwritten` remembers those logs, and `mine[l]` the logs Logger l was
  left when it started or has accepted. The properties say what remains true then, and
  which of them hold only as long as `overlaps = 0`.
* `fails` counts retryable errors and `cuts` the attempts that a context ended. The code
  has no counter for the second. `MaxCuts` is where `cuts` stops counting (0 in the
  runs, which do not look at it); `fails` stops one above what `RetriesBounded` allows.

Left out: the in-memory fallback store, load errors of a corrupted file, the
length of the backoff, and other profiles, whose lists have other keys.

### EventBus (`util/eventbus/`)

One goroutine runs `Bus.pump`; each client that subscribes has a dispatcher
(`subscribeState.pump`), and each call of a callback a goroutine. Channels are
unbuffered, so a send and its receive are one action.

* An event is its number in the order in which the pump accepted it, and its type.
  Publishers of a client are closed together and stand for one.
* `vals`, `pump` and `dests` are the pump's queue, place and remaining receivers;
  `svals[c]`, `disp[c]` and `cb[c]` are those of the dispatcher of c. "chan" and
  "call" are the selects of `dispatchTyped` and `dispatchFunc`, "closing" the wait of
  `dispatchFunc` for its callback, which gives up after five slow-subscriber timeouts.
* The owner of a closed Subscriber does not receive from it any more: the dispatcher
  that was offering it an event is an "orphan" until the client is closed.
* `Client.Close` is the part under `mu` with `Stop`, the wait for the dispatcher, and
  the publishers; `Bus.Close` stops the pump and then closes client after client.
* `log`, `got` and `since` are history variables.

`Timeline.tla` is what `doc.go` promises: one timeline of published events, and a view
per client that only moves forward. `EventBus` implements it with the length of `log`
as the timeline and `got` as the views.

Left out: the debugger (its snapshots and hooks only read), slow-subscriber logs, the
Monitor helpers, and a Subscribe that races with Close, which panics by design.

### DerpWriter (`derp/derpserver/derpserver.go`, the write side of `sclient`)

A writer goroutine exists only while there is something to write. Producers publish
work, then set its bit in the word `writerState`, which also holds the phase. A
compare-and-swap loop is one action, at its successful attempt.

* `phase` and `pending` are the word. `wpc[w]` is where writer goroutine w is: the model
  does not assume what `OneWriter` says, and the goroutine of accept and a started one
  could be writing together. `Spawned` names the goroutines that are started; a name is
  used again when its goroutine has ended. (With two names the safety properties hold
  just as well, 437 480 states.)
* `work[w]` is the set a pass has taken, then the carry; `budget` what it may write.
* Queues are counted, and a full one drops its oldest packet. Notices are counted up to
  `MaxNotices`.
* Producers are two steps, publish and wake. `broadcastPeerStateChangeLocked` holds
  `Server.mu` over both, which `sendMeshUpdates` has to take.
* The goroutine of `accept` first writes ServerInfo, is the first writer, then the
  reader; when a read fails it becomes the teardown (`stopWriter`).
* A write may fail at any time.

### DerpClients (`derp/derpserver/derpserver.go`, the server's tables)

All of it is guarded by `Server.mu`, so a method is an action; `noteClientActivity`
looks at two flags before it takes the lock, and that is a step of its own.

* A connection is registered once. `dup[k]`, `last[k]` and `history[k]` are the
  `dupClientSet`; both policies are checked (disableFighters is set only by tests).
* `fwds[k]` are the forwarders of a key with their numbers in a `multiForwarder`, which
  are bytes (`IdxMod`); a single forwarder is not in a multiForwarder and has no number.
* `view[w]` is what a watcher makes of the changes it is sent; `sawSrc`, `goneWatch` and
  `told` are the peer-gone watches and who was told.
* A handler whose frame closes another connection (`ClosePeer`) needs no action: a
  connection may end at any time. A connection whose ServerInfo cannot be written is
  unregistered without `stopWriter`; it has no watches, and its queue is not drained.

Left out: verifyClient, rate limits, frame bytes, NotePreferred, counters.

### RelayManager (`wgengine/magicsock/relaymanager.go`)

One goroutine, `runLoop`, owns the maps. It takes events from callers and from its work
goroutines over unbuffered channels, ends when no work is left, and is started again by
whoever has an event to give.

* The nested maps are flat functions (an inner map is deleted when it is empty). A work
  is its generation, which is its place in `aWork` or `hWork`.
* A handler that cancels a work waits for its done event in the middle of what it does.
  What is left to do is the stack `agenda`. A new server endpoint that had to wait for
  an older one is looked at again from the start, where it no longer finds the work it
  waited for; the code, which goes on from there, finds the same, because only the loop
  changes the maps. stopWork is two passes in the code's order: `StopPass` looks the
  endpoint up once, `StopEach` cancels and waits for one work after the other, skipping
  those deleted meanwhile as a Go range does, and neither looks whether any are left.
* A done event is put in the work's `doneCh` and offered to the loop as well.
* Messages are chosen by the network: any type, for any address, any number of times
  up to the bound, valid or not.
* `Best` are the trusted relay paths an endpoint may have had when it called.

Left out: what is sent, since sends start goroutines that touch no state (requests and
their retry, binds, answers, pongs, CallMeMaybeVia); the mutexes of endpoint and Conn,
which callers hold and the loop never takes; the wrap of the generation counters.

## 3. Properties, runs and bounds

| Run | Instance | Checks |
|---|---|---|
| execqueue | 2 functions, 2 callers | `TypeOK`, `OneGoroutine`, `WaitMeansDrained`, `ShutdownAndWaitMeansQuiet`, `RunSyncRan`, `ImplementsSerialQueue`, `QueuedRuns`, `BlockedReturns` |
| auto_routines | 2 Logins, 1 Logout, 1 change, pauses, no observer | `NoLostWakeup`, `OnlyWhileLoggedIn`, `ServerInformed`, `LoginWanted` |
| auto_status | 1 Login, 2 map responses, 2 persist values, observer | `ObserverCurrent`, `NetmapsInOrder` |
| auto_shutdown | 1 Login, 1 map response, pauses, observer | `ShutdownCompletes` |
| auto_live | 2 Logins, 1 change, pauses, no observer | `EventuallyInformed`, `LoginResolves` |
| auditlog_safety | 2 Loggers, limit 1, 2 logs, and one overlap, crash or failed save, symmetry of Loggers | `TypeOK`, `OnlyOverwrittenLost`, `FlushScheduled` |
| auditlog_live | 2 Loggers without overlap, limit 2, 2 logs, one crash or failed save | `NoResend`, `RetriesBounded`, `AcceptedResolves`, `StopReturns` |
| eventbus | 2 clients (a channel and a callback; a channel), 2 events, capacity 1, 1 Close besides Bus.Close | `QueuesSound`, `ImplementsTimeline`, `QuietAfterClose` |
| eventbus_live | 1 subscribing and 2 publishing clients, 2 events, capacity 1, 1 Close besides Bus.Close | `BusCallsReturn`, `EventuallyDelivered` |
| derp_writer | 1 connection, 1 producer, queues of 2, 1 notice of each kind | `WriterSound`, `WorkKept`, `StopReturns`, `PendingServed` |
| derp_clients | 3 connections of a key, 1 watching mesh peer, 2 forwarders, both policies, symmetry | `RegistrySound`, `GaugesExact`, `PeersAware` |
| relay_manager | 2 endpoints, 1 server, 2 VNIs, 2 Lamport IDs, 2 calls, 2 messages, 1 configuration event | `TablesSound`, `WorkAccounted`, `StopClears`, `NothingHangs` |

Why the bounds are enough: with two callers and two added functions one caller can
shut the queue down while the other waits, and functions are running and queued;
the safety properties are proved for any number (section 4). Two
Logins and a Logout give every order of an answer, the call that overtakes it and
the call that overtakes that; the routines loop, so one change is enough for it to
fall between any two of their steps. Two map responses give a delta whose base
status was skipped or is still queued. Where the observer is absent (`HasObserver
= FALSE`) sendStatus has no effect in the code either, and the run is about the
routines alone. `MaxQueue` bounds how many failure reports wait in the observer's
queue: a routine whose request fails is delayed until there is room; 0 means that
failures are not reported. The safety properties of the routines do not rest on
any of these bounds, see section 4.

For the audit log, two logs are the fewest of which one can be enqueued, sent or
cut while the other is in another list, and two Loggers can take over from each other,
in the same process or the next, or work at the same time. With limit 2 a log can be
put back once and given up the next time; with limit 1 it is put back only when it is
cut, which is enough for the two lists of overlapping Loggers to differ. A run has one
fault, an overlap, a crash or a failed save (`MaxFaults`); the theorems of section 4
have any number of each, in any combination. `RetriesBounded` allows one more error for
each crash and each failed save, the only ways for one Logger to forget a count.

For the event bus, capacity 1 makes the pump's queue full after one event, and two
events are the fewest that can be in two queues, be reordered or wait behind each other;
a Close and Bus.Close can fall anywhere between. For a DERP connection a queue of 2 can
be empty, full and in between; producers, the timer and the reader act for ever, so the
run has no bound on their number. Three connections of one key are the fewest for which
a set with duplicates stays one when it shrinks. For the relay manager two calls and two
messages let an endpoint be replaced by a newer one, stopped or discovered again while
the first work is anywhere between its start and its second done event; with one server
disco key the second guard of `Passes` (an address that is already another work's) needs
a work with the same VNI, which its predecessor's removal excludes, so it does not fire.

Several properties are conjunctions of named parts that one instance checks together:
`QueuesSound` (types, `NothingSkipped`), `BusCallsReturn` (`PublishReturns`,
`BusCloseReturns`), `WriterSound` (types, `OneWriter`, `NoPanic`), `WorkKept`
(`NoWorkLost`, `KeepAliveKept`, `GoneIsEmpty`), `PendingServed` (`NoticesWritten`,
`QueuesServed`), `RegistrySound` (types, `SetsExact`, `HistorySound`, `DisabledSilent`,
`MeshConsistent`), `PeersAware` (`WatchersAware`, `DepartureWatched`), `TablesSound`
(types, `IndexesAgree`, `StoppedIsClean`), `WorkAccounted` (`TrackedAnswers`, `NoneLost`,
`ReadyOnce`) and `NothingHangs` (`CallsReturn`, `Quiesces`).

Symmetry is used in auditlog_safety and derp_clients only, where no liveness is checked.
In ExecQueue, ControlAuto, EventBus, DerpWriter and DerpClients a last disjunct lets the final states
stutter, and any other state without a successor is an error. The runs of AuditLog and RelayManager
do not check for deadlock: when all Loggers have returned and no log is left to
enqueue, or all calls have been made and all works ended, the system stops; that it does
not stop earlier is what `StopReturns`, `AcceptedResolves` and `NothingHangs` say.

Fairness. `FairSpec` of ExecQueue: weak fairness of every goroutine of `run` (a
queued function returns) and of every caller that can go on; nobody has to call a
method and the caller's context never has to expire. `FairSpec` of ControlAuto:
weak fairness of the routines, of the observer queue (the observer returns) and of
calls under way, and an answer to a request whose context is cancelled, which is
what net/http guarantees. The server itself need not answer. `FairServerSpec` adds
that the server answers, and that requests which are retried for ever do not fail
for ever (strong fairness of success). `FairSpec` of AuditLog: weak fairness of
the flushing goroutine, of the timer and of an Enqueue under way; strong fairness
of the `ctx.Done` case of the worker's select, which Go chooses at random among
the ready ones; and a transport that does not time out for ever. Nobody has to
enqueue, stop or start anything. `FairSpec` of EventBus: weak fairness of the pump, of
each dispatcher, of closers and of a Publish that has been stopped; nobody has to receive
or to return from a callback (`EventuallyDelivered` supposes it, in its antecedent).
`FairSpec` of DerpWriter: weak fairness of the writer, of announced wakes, of the
teardown and of a read on a closed connection; strong fairness of a turn of each queue,
because `writePending` draws the queue at random. Its liveness properties suppose that
mesh changes do not come for ever (`MeshQuiet`): unlike the queues, `sendMeshUpdates`
has no budget. `FairSpec` of RelayManager: weak fairness of the loop and of the works,
each of which has a timer.

## 4. Proofs

Every safety property of section 3, invariant or step property, and both refinements
are proved by `tlapm` for every value of the constants: any goroutines, clients, keys,
messages and queue depths, and any number of calls.

`ExecQueueProofs.tla`, all safety properties of the component:

* `TypeCorrect`; `OneGoroutineHolds`. The inductive invariant is `Core`: types,
  `OneGoroutine`, `QueueInv` (the queue holds exactly the jobs in state "queued",
  each once) and `SyncNew` (RunSync's functions are new until it adds them).
  Without `QueueInv` the job that `run` takes from the queue could be running.
* `RefinesSerialQueue`: every step maps to a step of SerialQueue or a stutter.
* `ShutdownAndWaitHolds`, `WaitHolds`: from `ReturnInv`, which says what a closed
  `doneWaiter` channel means to the one who waits on it.
* `RunSyncHolds`: from `SyncInv`, which keeps RunSync's function ahead of the one
  that closes its channel.

`ControlAutoProofs.tla`:

* `TypeCorrect`; `NoLostWakeupHolds` and `OnlyWhileLoggedInHolds`, both inductive
  relative to the types; `LoginWantedHolds` (a step property) from `GoalWanted`;
  `ServerInformedHolds` from `GenInv` and `InfoInv`, which say that what the last
  generation stands for is known to the server, is being sent, or is about to be
  replaced by a newer generation.
* `ObserverCurrentHolds` and `NetmapsInOrderHolds`, from `ObserverInv`, which is
  inductive relative to the types and `OnlyWhileLoggedIn`. `ObserverCurrent` speaks of
  an empty queue, so the invariant has to say what a queue that is not empty will leave
  behind: `Settled(p, n, b)` says that the observer will have netmap b after the first n
  items, because the last of them that brings a netmap is a status with b which
  `canSkipStatus` will not drop. On a live poll that holds of the last netmap served, or
  of the one before it with a delta behind it, or mapRoutine has still to send it
  (`CatchesUp`). `DraftInv` says that netmaps come from mapRoutine alone, one at a time,
  `PollInv` what `inMapPoll` means, and `OrderInv` that netmaps wait in order, none older
  than what the observer has; the second theorem needs only these three.

`AuditLogProofs.tla`, for every set of Loggers and logs, every limit (0 included), and
any number of overlaps, crashes and failed saves; no theorem supposes that Loggers do
not overlap:

* `TypeCorrect`.
* `OnlyOverwrittenLostHolds`. The property is not inductive: a save could write a list
  with a log missing, or be skipped as equal to the cache. `DurableInv` adds that the
  log is in the cache too (`Durable`), that one being enqueued is not stored yet
  (`Fresh`), so that its save is not skipped, and that what a flush removes is resolved
  (`CompleteResolved`). For the second half, that nothing is overwritten while
  `overlaps = 0`, `AloneInv` adds what holds until then: one Logger at a time is at
  work (`Solo`), and so the critical section in progress has seen the present cache
  (`Seen`).
* `FlushScheduledHolds`: `InHand` says that a flush has in hand every log its Logger is
  to see through (`Duty`), except those for which a token has been left. It needs
  `DurableInv` only: what another Logger does to such a log is to resolve it, to
  overwrite it, or to leave it in the store.
* `NoResendHolds`: while `overlaps = 0` and before a crash, the resolved logs still in
  the cache are those the flush in progress is about to remove (`ToBeRemoved`).
* `RetriesBoundedHolds`. That Retries does not run ahead of the errors (`Behind`) holds
  with overlaps too. For the bound the errors are compared with what the cache, the file
  and the lists of a flush say of them (`Budget`). A stored count is right up to
  what crashes and failed saves have made the store forget, or it is one behind and the
  flush in progress still holds the log, removed or with another count (`Owed`), so that
  its save is not skipped as equal to the cache. The bound alone would let a flush start
  from any count. With overlaps it does not hold: two Loggers undo each other's counts.

`DerpWriterProofs.tla`, for any number of writer goroutines and senders, queues of any
depth and any number of waiting notices:

* `WriterIsSound`: types, one writer, no panic. `HandOver` relates the phase in the word
  to where the writer and the reader are: a writer at work finds the phase running or
  closing, closing means that the reader waits, and a reader that did not have to wait
  found nobody. `OneWriter` alone would let a producer start a second writer.
* `WorkIsKept`: no work that nobody knows of, the next keepalive under way, nothing kept
  for a connection that is gone. The invariant adds `Quiet` (a parked word is clear, so
  that the claim of a parked writer overwrites nothing) and states all kinds of work
  alike (`AllKnown`).

`EventBusProofs.tla`, for any clients, event types and capacity of the pump's queue:

* `QueuesSoundHolds`. That no dispatcher skips an event it was subscribed to rests on
  what the topics and queues hold (`Subscribed`, `Recorded`) and on what the label of a
  dispatcher says of its queue (`Dispatching`).
* `TimelineImplemented`: every step maps to a step of Timeline or a stutter. That no
  client's view goes back rests on `Order`: what a client has been given, what is in its
  queue and what the pump still has for it follow each other, and the pump has a client
  at most once among the receivers of an event.
* `QuietAfterCloseHolds`, from `Dispatching`.

`DerpClientsProofs.tla`, for any finite sets of keys and connections, any forwarders,
both policies and any range of the forwarders' numbers:

* `RegistrySoundHolds`. The invariant speaks of one key at a time (`Sets`) and without
  cardinalities. That the connection which takes over when the active one leaves is one
  of the set rests on a fact about `sendHistory` the code does not state: at most one
  connection of a set is missing from it (`HistoryInv`). That the stale check of
  `noteClientActivity` does no harm rests on `Life`: only a registered connection that is
  up can be in it.
* `GaugesExactHolds`: the gauges are the cardinalities of what the tables hold, and
  therefore never negative.
* `PeersAwareHolds`: `Unaware` adds that a mesh peer has been told nothing before it
  watches, so that what `addWatcher` sends it is all it knows.

`RelayManagerProofs.tla`, for any endpoints, finite set of servers, VNIs, addresses and
messages, and any limit of pings:

* `TablesSoundHolds` and `WorkAccountedHolds`. The types are inductive by themselves. The
  rest is stated for one work at a time: the maps of a kind of work are two indexes of one
  table (`HsIndexes`, `AllocIndexes`), a work is in it exactly as long as it has not
  returned or its event is still in `doneCh` (`HsAccounted`, `AllocAccounted`), and a path
  that has been reported belongs to a work that has left the table, so that the second copy
  of its event does nothing. That a stopped loop leaves six empty maps, although it looks
  at two, follows from the indexes and `LoopInv`. The
  steps of the model are first sorted by what they do to the handshakes, to the
  allocations and to the loop (`HsKinds`, `AllocKinds`, `LoopKinds`); the indexes are
  then preserved by two lemmas on any table with two keys.
* `StopClearsHolds`, from `LoopInv`, whose part `Stopping` follows the two passes. While
  allocations are passed over, each one left for the endpoint is in the rest of the pass
  or is the one waited for, and the pass over the handshakes is still to come; when that
  looks the endpoint up, no allocation is left and nothing on the agenda can start a
  handshake; from then on each handshake left is in the rest of that pass or is waited
  for. The lemmas `StopPassAdvances`, `StopEachAdvances` and `OtherAdvances` are the
  three kinds of steps. With the passes in the other order the property fails.

`QueueLemmas.tla` has the facts about sequences that four of these modules use. The
proofs use the library's theorems on sequences, finite sets and well-founded relations.

The assumptions on the constants, all of them evaluated by TLC in the runs:

* ExecQueue and ControlAuto: `JobsDistinct`, `CallersDistinct`, `Bounds` (the names of jobs
  and goroutines do not collide, and the bounds are numbers).
* AuditLog: `LogsAreTimes`, `LimitIsNat`, `CutsIsNat` (logs are positive numbers, the
  limit and the bound of a count are natural numbers).
* EventBus: `TypesAssumption`, `ClientsAssumption`, `CapacityAssumption`, `NoneIsNoClient`
  (callbacks are for event types, clients want and publish types, the pump's queue has
  room for one event).
* DerpWriter: `DepthAssumption`, `NoticesAssumption`, `SpawnedAssumption` (a queue has room
  for a packet, and no goroutine that is started is the one of accept).
* DerpClients: `ConnsAssumption`, `FiniteAssumption`, `RemoteAssumption`, `NoneIsNothing`,
  `PoliciesAssumption`, `IdxModAssumption` (a connection has one key, there are finitely
  many, the policy is one of two, and there is a number for a forwarder).
* RelayManager: `LimitAssumption`, `BestAssumption`, `LamportAssumption`,
  `ServersAssumption`, `NoneAssumption`, `BoundsAssumption` (limitPings is positive, a best path is
  one or none, Lamport IDs are numbers, a server set is finite).

Only model-checked: the liveness properties, twelve of the runs' properties, because
fairness and ENABLED are beyond the prover (`QueuedRuns`, `BlockedReturns`,
`ShutdownCompletes`, `EventuallyInformed`, `LoginResolves`, `AcceptedResolves`,
`StopReturns` of AuditLog and of DerpWriter, `BusCallsReturn`, `EventuallyDelivered`,
`PendingServed`, `NothingHangs`).

## 5. Where the code and its comments disagree

Each of these has a configuration that is not one of the runs of section 3: TLC reports
the property named as violated, and the trace shows how. `tlc -config X.cfg M` runs it.

| Configuration | Module | Property |
|---|---|---|
| `ExecQueueRunSync.cfg` | MCExecQueue | `RunSyncReturns` |
| `ExecQueueShutdownWait.cfg` | MCExecQueue | `ShutdownWaitsForOperation` |
| `ControlAutoMisled.cfg` | MCControlAuto | `ObserverNotMisled` |
| `AuditLogOverlap.cfg` | MCAuditLog | `NothingLost` |
| `AuditLogRefused.cfg` | MCAuditLog | `RefusedNotSent` |
| `AuditLogAttempts.cfg` | MCAuditLog | `AttemptsWithinLimit` |
| `EventBusOthers.cfg` | MCEventBus | `OthersDelivered` |
| `DerpClientsIsDup.cfg` | MCDerpClients | `IsDupExact` |
| `RelayManagerStop.cfg` | MCRelayManager | `StopSilences` |

* ExecQueueRunSync: a queue shut down before its first use has no context to cancel.
  RunSync then makes one that nobody cancels and waits for a function that was dropped,
  for ever if its own context does not expire. `execqueue.go:40`: "It returns an error
  if the queue is closed before f is run or ctx expires."
* ExecQueueShutdownWait: `ExtensionHost.shutdown` means to "wait for the currently
  executing operation (if any) to finish" (`extension_host.go:571`), but Wait on a closed
  queue returns at once. (`Auto.Shutdown` ends with the same pair of calls.)
  `ShutdownAndWait` does what the comment says.
* ControlAutoMisled: sendStatus takes its snapshot, stores it and enqueues it in three
  steps, so that a status from before a Logout can be delivered after Logout's own and
  leave the observer with LoggedIn = true. `status.go:26`: "LoggedIn, if true, indicates
  that serveRegister has completed and no other login change is in progress."
* AuditLogOverlap: "Logs are stored to disk and retried until they are successfully
  sent, or until they permanently fail" (`auditlog.go:92`). When two Loggers of a profile
  are at work (two Starts at the same time, `local.go:3213`, or a profile left and chosen
  again while its old client shuts down, `local.go:8738`), the old Logger's flush loads
  the list, the new Logger saves a log it has just accepted, and the old Logger saves its
  own version: the accepted log is gone from the file and from memory. What is left of
  the promise is `OnlyOverwrittenLost`.
* AuditLogRefused: when the file cannot be written, Enqueue returns an error and the
  action is denied, but the log stays in FileStore's cache and the next flush reports an
  action that was not performed (`extension_host.go:509`: "must not be performed").
* AuditLogAttempts: RetryLimit is "the maximum number of attempts the logger will make to
  send a log before giving up" (`auditlog.go:61`, and again at 98). An attempt that ends
  with `context.Canceled` or `DeadlineExceeded` (`auditlog.go:285`) puts the log back with
  its Retries unchanged, so a log whose attempts time out is tried without end.
  `RetriesBounded`, which the runs check, is about the errors that the code does count.
* EventBusOthers: a Subscriber is closed while the dispatcher offers it an event.
  `dispatchTyped` does not look at the subscriber's stop flag, and nobody receives any
  more, so the client's other subscribers get nothing until the client is closed.
  `subscribe.go:299` says of Close only that "the caller no longer wishes to receive
  this event type"; a caller that goes on receiving until the channel is quiet avoids it.
* DerpClientsIsDup: `derpserver.go:2081` says of isDup "whether more than 1 sclient for
  key is connected". registerClient sets it for the new and the active connection: where
  the active one is nil (fighters have been disabled) it is not set for the new one.
* RelayManagerStop: stopWork waits for the done event of a handshake, and if the pong had
  just arrived, handleHandshakeWorkDoneRunLoop still reports the path to the endpoint,
  although `endpoint.go:2297` says that the caller "discards in-flight disco/relay state
  that was established against the peer's current disco identity".

Others are reachable in the models, or follow from reading, and have no configuration:

* ControlAuto. SetPaused(true) just after a routine has passed waitUnpause cancels the
  old context; the routine takes the new one and makes its request, although `paused` is
  commented "whether we should stop making HTTP requests". A Login made while Logout
  waits for the server, and completed before Logout goes on, is undone without ever
  having been reported to the observer.
* AuditLog. The comment "a.transport is nil if the logger is stopped" in `enqueue` is not
  what the code does (nothing resets it), without consequence: the token is left in a
  channel nobody reads, and the log waits in the file for the next Logger.
* EventBus. `doc.go` says "a slow subscriber will eventually cause backpressure and block
  publication"; dispatcher queues have been unbounded since, and only the pump's is not.
  A SubscriberFunc's callback may still be started after its Close. A callback that is
  blocked in Publish when the bus is closed is released only when the dispatcher gives up
  on it and the client's publishers are closed. A second Client.Close that overlaps the
  first returns at once, before the first has waited for the subscribers; what
  `QuietAfterClose` promises is promised to the first.
* DERP. `last` of a dupClientSet is commented "or nil if the most recent one has since
  disconnected and nobody else has sent data since" (`derpserver.go:334`); removeClient falls
  back on the end of sendHistory, which is not empty as long as there are duplicates, and
  `RegistrySound` says that `last` is never nil. A packet that is written after its source has left registers a watch for a
  departure that has already been told; `PeersAware` permits it. The third part of ConsistencyCheck counts connections against keys and fails
  while a key has duplicates. addWatcher does not mention a key whose duplicates are all
  disabled. `sawSrc` is not cleared when a peer goes, so that its second departure is not
  reported. The numbers of a multiForwarder are bytes and may wrap.
* RelayManager. A goroutine whose context is canceled while it offers its event may take
  the token, start the loop and then give up: the loop stays without work until the next
  event. A challenge that fails validation still decides where pings and pongs of the
  work come from.

## 6. Not modelled

`PROJECT.json` lists every part with the reason. In short: byte-level protocols (disco,
DERP frames, Noise, port mapping), cryptography, platform integrations and user
interfaces are left to their tests. The models cover the concurrent cores; most of the
repository's lines are I/O, platform code, generated views and tests of no state machine.

## 7. Plan

In this order; each module with its MC instance, mutants and, where marked (P), proofs.

1. Safety facts behind the liveness properties that a theorem can state, such as a
   bound on the steps a stopping call still has to wait for.
2. `MapSession`: merging of map responses as operators, against a reference that
   rebuilds the netmap; composed with ControlAuto's observer.
3. `BackendState`: LocalBackend's state machine over the statuses of ControlAuto.
4. The UDP relay server's allocations, composed with `RelayManager`.
5. `Filch`, `InstallTransaction`: crash at every step.
6. `TKA`: fork resolution and sync.
