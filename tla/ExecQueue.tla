----------------------------- MODULE ExecQueue -----------------------------
(***************************************************************************)
(* util/execqueue.ExecQueue and its callers.  Every critical section of    *)
(* q.mu is one atomic action; the execution of a queued function, which    *)
(* happens without the mutex, is an interval between two actions.          *)
(*                                                                         *)
(* A goroutine running q.run is identified with the job it is at: job j is *)
(* in state "exec" while q.run executes j, and in state "ran" between the  *)
(* return of j and the next q.mu.Lock.                                     *)
(***************************************************************************)
EXTENDS Sequences, FiniteSets

CONSTANTS
  Funcs,   \* functions handed to Add
  Callers  \* goroutines that call RunSync, Wait, Shutdown, ShutdownAndWait,
           \* or Shutdown followed by Wait (ExtensionHost.shutdownWorkQueue)

\* RunSync(f) adds two functions: f, and one that closes its channel.
SyncF(c) == <<c, "f">>
SyncDone(c) == <<c, "close">>

Jobs == Funcs \cup (Callers \X {"f", "close"})

ASSUME JobsDistinct == Funcs \cap (Callers \X {"f", "close"}) = {}

VARIABLES
  jobs,       \* jobs[j]: the progress of job j
  queue,      \* q.queue
  inFlight,   \* q.inFlight
  closed,     \* q.closed
  ctx,        \* q.ctx: "nil" until initCtxLocked, then "live", "done" once cancelled
  doneWaiter, \* q.doneWaiter # nil
  chan,       \* chan[c]: the caller's view of the doneWaiter channel it took
  op,         \* op[c]: the method the caller is in, or has returned from
  pc,         \* pc[c]: where in it
  result,     \* result[c]: what the method returned
  before      \* history: the jobs accepted and unfinished when Wait was called

callerVars == <<op, pc, result, before>>
vars == <<jobs, queue, inFlight, closed, ctx, doneWaiter, chan,
          op, pc, result, before>>

JobStates == {"new", "queued", "exec", "ran", "over", "dropped"}
Ops == {"none", "RunSync", "Wait", "Shutdown", "ShutdownAndWait", "ShutdownThenWait"}
Labels == {"idle", "add", "addClose", "wait", "select", "returned"}
Results == {"none", "nil", "shutdown", "ctx"}

Unfinished == {j \in Jobs : jobs[j] \in {"queued", "exec"}}
Finished(j) == jobs[j] \in {"ran", "over"}

Init ==
  /\ jobs = [j \in Jobs |-> "new"]
  /\ queue = <<>>
  /\ inFlight = FALSE
  /\ closed = FALSE
  /\ ctx = "nil"
  /\ doneWaiter = FALSE
  /\ chan = [c \in Callers |-> "none"]
  /\ op = [c \in Callers |-> "none"]
  /\ pc = [c \in Callers |-> "idle"]
  /\ result = [c \in Callers |-> "none"]
  /\ before = [c \in Callers |-> {}]

-----------------------------------------------------------------------------
(* Pieces of the critical sections.                                        *)

InitCtx == ctx' = IF ctx = "nil" THEN "live" ELSE ctx

\* Faulty: calls a nil cancel.
CloseAndCancelNil ==
  /\ closed' = TRUE
  /\ ctx' = IF ctx = "nil" THEN "panic" ELSE "done"

\* closed = true, and cancel() if there is something to cancel.
CloseAndCancel ==
  /\ closed' = TRUE
  /\ ctx' = IF ctx = "nil" THEN "nil" ELSE "done"

\* Faulty: q.inFlight is never set.
AddLockedForgetsInFlight(j) ==
  IF closed
    THEN jobs' = [jobs EXCEPT ![j] = "dropped"] /\ UNCHANGED <<queue, inFlight, ctx>>
    ELSE /\ InitCtx
         /\ jobs' = [jobs EXCEPT ![j] = "exec"]
         /\ UNCHANGED <<queue, inFlight>>

\* Add: dropped when closed, appended when a goroutine is at work, and
\* otherwise given to a new goroutine.
AddLocked(j) ==
  \/ /\ closed
     /\ jobs' = [jobs EXCEPT ![j] = "dropped"]
     /\ UNCHANGED <<queue, inFlight, ctx>>
  \/ /\ ~closed /\ inFlight
     /\ InitCtx
     /\ jobs' = [jobs EXCEPT ![j] = "queued"]
     /\ queue' = Append(queue, j)
     /\ UNCHANGED inFlight
  \/ /\ ~closed /\ ~inFlight
     /\ InitCtx
     /\ jobs' = [jobs EXCEPT ![j] = "exec"]
     /\ inFlight' = TRUE
     /\ UNCHANGED queue

\* waitCh: the doneWaiter channel, made if a goroutine is at work and there
\* is none yet; nil ("none") when the queue is idle.
TakeDoneWaiter(c) ==
  /\ chan' = [chan EXCEPT ![c] = IF inFlight \/ doneWaiter THEN "on" ELSE "none"]
  /\ doneWaiter' = (doneWaiter \/ inFlight)

Goto(c, label) == pc' = [pc EXCEPT ![c] = label]

Return(c, r) ==
  /\ Goto(c, "returned")
  /\ result' = [result EXCEPT ![c] = r]

Begin(c, m) == pc[c] = "idle" /\ op' = [op EXCEPT ![c] = m]

-----------------------------------------------------------------------------
(* The methods.                                                            *)

Add(f) ==
  /\ jobs[f] = "new"
  /\ AddLocked(f)
  /\ UNCHANGED <<closed, doneWaiter, chan, op, pc, result, before>>

RunSyncInit(c) ==
  /\ Begin(c, "RunSync")
  /\ InitCtx
  /\ Goto(c, "add")
  /\ UNCHANGED <<jobs, queue, inFlight, closed, doneWaiter, chan, result, before>>

\* Faulty: the two functions are added in the wrong order.
RunSyncAddSwapped(c) ==
  /\ pc[c] = "add"
  /\ AddLocked(SyncDone(c))
  /\ Goto(c, "addClose")
  /\ UNCHANGED <<closed, doneWaiter, chan, op, result, before>>

RunSyncAdd(c) ==
  /\ pc[c] = "add"
  /\ AddLocked(SyncF(c))
  /\ Goto(c, "addClose")
  /\ UNCHANGED <<closed, doneWaiter, chan, op, result, before>>

RunSyncAddClose(c) ==
  /\ pc[c] = "addClose"
  /\ AddLocked(SyncDone(c))
  /\ Goto(c, "select")
  /\ UNCHANGED <<closed, doneWaiter, chan, op, result, before>>

Shutdown(c) ==
  /\ Begin(c, "Shutdown")
  /\ CloseAndCancel
  /\ Return(c, "nil")
  /\ UNCHANGED <<jobs, queue, inFlight, doneWaiter, chan, before>>

\* Faulty: waits only if somebody else has already made the channel.
ShutdownAndWaitNoMake(c) ==
  /\ Begin(c, "ShutdownAndWait")
  /\ CloseAndCancel
  /\ chan' = [chan EXCEPT ![c] = IF doneWaiter THEN "on" ELSE "none"]
  /\ IF doneWaiter
       THEN Goto(c, "select") /\ UNCHANGED result
       ELSE Return(c, "nil")
  /\ UNCHANGED <<jobs, queue, inFlight, doneWaiter, before>>

ShutdownAndWait(c) ==
  /\ Begin(c, "ShutdownAndWait")
  /\ CloseAndCancel
  /\ TakeDoneWaiter(c)
  /\ IF inFlight \/ doneWaiter
       THEN Goto(c, "select") /\ UNCHANGED result
       ELSE Return(c, "nil")
  /\ UNCHANGED <<jobs, queue, inFlight, before>>

WaitLocked(c) ==
  /\ InitCtx
  /\ TakeDoneWaiter(c)
  /\ before' = [before EXCEPT ![c] = Unfinished]
  /\ CASE closed -> Return(c, "shutdown")
       [] ~closed /\ ~inFlight /\ ~doneWaiter -> Return(c, "nil")
       [] OTHER -> Goto(c, "select") /\ UNCHANGED result
  /\ UNCHANGED <<jobs, queue, inFlight, closed>>

Wait(c) ==
  /\ Begin(c, "Wait")
  /\ WaitLocked(c)

\* ExtensionHost.shutdownWorkQueue: workQueue.Shutdown(), then workQueue.Wait(ctx).
ShutdownWorkQueue(c) ==
  /\ Begin(c, "ShutdownThenWait")
  /\ CloseAndCancel
  /\ Goto(c, "wait")
  /\ UNCHANGED <<jobs, queue, inFlight, doneWaiter, chan, result, before>>

ShutdownWorkQueueWait(c) ==
  /\ pc[c] = "wait"
  /\ WaitLocked(c)
  /\ UNCHANGED op

\* The select of a blocked method: one action per ready case.
SelectDone(c) ==
  /\ pc[c] = "select"
  /\ IF op[c] = "RunSync" THEN Finished(SyncDone(c)) ELSE chan[c] = "fired"
  /\ Return(c, "nil")
  /\ UNCHANGED <<jobs, queue, inFlight, closed, ctx, doneWaiter, chan, op, before>>

SelectShutdown(c) ==
  /\ pc[c] = "select"
  /\ op[c] # "ShutdownAndWait"
  /\ ctx = "done"
  /\ Return(c, "shutdown")
  /\ UNCHANGED <<jobs, queue, inFlight, closed, ctx, doneWaiter, chan, op, before>>

\* The context the caller passed may expire at any time, or never.
SelectCtx(c) ==
  /\ pc[c] = "select"
  /\ Return(c, "ctx")
  /\ UNCHANGED <<jobs, queue, inFlight, closed, ctx, doneWaiter, chan, op, before>>

-----------------------------------------------------------------------------
(* The goroutine of q.run.                                                 *)

JobReturns(j) ==
  /\ jobs[j] = "exec"
  /\ jobs' = [jobs EXCEPT ![j] = "ran"]
  /\ UNCHANGED <<queue, inFlight, closed, ctx, doneWaiter, chan, callerVars>>

\* Faulty: the loop does not look at q.closed.
RunNextIgnoresClosed(j) ==
  /\ jobs[j] = "ran"
  /\ queue # <<>>
  /\ jobs' = [jobs EXCEPT ![j] = "over", ![Head(queue)] = "exec"]
  /\ queue' = Tail(queue)
  /\ UNCHANGED <<inFlight, closed, ctx, doneWaiter, chan, callerVars>>

\* Faulty: doneWaiter is closed after every function.
RunNextSignals(j) ==
  /\ jobs[j] = "ran"
  /\ queue # <<>> /\ ~closed
  /\ jobs' = [jobs EXCEPT ![j] = "over", ![Head(queue)] = "exec"]
  /\ queue' = Tail(queue)
  /\ doneWaiter' = FALSE
  /\ chan' = [c \in Callers |-> IF chan[c] = "on" THEN "fired" ELSE chan[c]]
  /\ UNCHANGED <<inFlight, closed, ctx, callerVars>>

RunNext(j) ==
  /\ jobs[j] = "ran"
  /\ queue # <<>> /\ ~closed
  /\ jobs' = [jobs EXCEPT ![j] = "over", ![Head(queue)] = "exec"]
  /\ queue' = Tail(queue)
  /\ UNCHANGED <<inFlight, closed, ctx, doneWaiter, chan, callerVars>>

Stop(j, fire) ==
  /\ jobs[j] = "ran"
  /\ jobs' = [i \in Jobs |-> CASE i = j -> "over"
                               [] i # j /\ jobs[i] = "queued" -> "dropped"
                               [] OTHER -> jobs[i]]
  /\ inFlight' = FALSE
  /\ queue' = <<>>
  /\ doneWaiter' = FALSE
  /\ chan' = [c \in Callers |-> IF chan[c] = "on" THEN fire ELSE chan[c]]
  /\ UNCHANGED <<closed, ctx, callerVars>>

\* Faulty: an if in the place of the for.
RunStopEarly(j) == Stop(j, "fired")

\* Faulty: doneWaiter is cleared, not closed.
RunStopSilent(j) == (queue = <<>> \/ closed) /\ Stop(j, "none")

RunStop(j) == (queue = <<>> \/ closed) /\ Stop(j, "fired")

-----------------------------------------------------------------------------
Call(c) ==
  \/ RunSyncInit(c) \/ Shutdown(c) \/ ShutdownAndWait(c)
  \/ Wait(c) \/ ShutdownWorkQueue(c)

Continue(c) ==
  \/ RunSyncAdd(c) \/ RunSyncAddClose(c) \/ ShutdownWorkQueueWait(c)
  \/ SelectDone(c) \/ SelectShutdown(c)

Run(j) == JobReturns(j) \/ RunNext(j) \/ RunStop(j)

\* Everything has been said and done.
Terminated ==
  /\ \A c \in Callers : pc[c] = "returned"
  /\ \A f \in Funcs : jobs[f] # "new"
  /\ ~inFlight
  /\ UNCHANGED vars

Next ==
  \/ \E f \in Funcs : Add(f)
  \/ \E c \in Callers : Call(c) \/ Continue(c) \/ SelectCtx(c)
  \/ \E j \in Jobs : Run(j)
  \/ Terminated

Spec == Init /\ [][Next]_vars

\* The Go scheduler runs every goroutine that can run, and queued functions
\* return; nobody is obliged to call a method, and a caller's context need
\* not expire.
FairSpec ==
  /\ Spec
  /\ \A j \in Jobs : WF_vars(Run(j))
  /\ \A c \in Callers : WF_vars(Continue(c))

-----------------------------------------------------------------------------
(* Properties.                                                             *)

\* The type of every variable.
TypeOK ==
  /\ jobs \in [Jobs -> JobStates]
  /\ queue \in Seq(Jobs)
  /\ inFlight \in BOOLEAN /\ closed \in BOOLEAN /\ doneWaiter \in BOOLEAN
  /\ ctx \in {"nil", "live", "done"}
  /\ chan \in [Callers -> {"none", "on", "fired"}]
  /\ op \in [Callers -> Ops]
  /\ pc \in [Callers -> Labels]
  /\ result \in [Callers -> Results]
  /\ before \in [Callers -> SUBSET Jobs]

\* q.inFlight tells the truth ("whether a goroutine is running q.run"): when it
\* is set exactly one goroutine exists, so that two functions never run at the
\* same time, and when it is clear nothing waits in the queue and nobody waits
\* on doneWaiter, either of which would be stuck.
OneGoroutine ==
  /\ inFlight => \E j \in Jobs : \A i \in Jobs : jobs[i] \in {"exec", "ran"} <=> i = j
  /\ ~inFlight => /\ \A j \in Jobs : jobs[j] \notin {"exec", "ran", "queued"}
                  /\ queue = <<>> /\ ~doneWaiter
                  /\ \A c \in Callers : chan[c] # "on"

\* A Wait that returns nil has waited for every function that had been accepted
\* when it was called: each has run, or has been thrown away by a shutdown.
WaitMeansDrained ==
  \A c \in Callers : op[c] = "Wait" /\ result[c] = "nil" =>
    \A j \in before[c] : Finished(j) \/ (closed /\ jobs[j] = "dropped")

\* Once ShutdownAndWait has returned nil no function is running, and none ever
\* runs again, whatever the other callers do.
ShutdownAndWaitMeansQuiet ==
  \A c \in Callers : op[c] = "ShutdownAndWait" /\ result[c] = "nil" =>
    closed /\ \A j \in Jobs : jobs[j] \notin {"queued", "exec"}

\* RunSync returns nil only after its function has run.
RunSyncRan ==
  \A c \in Callers : op[c] = "RunSync" /\ result[c] = "nil" => Finished(SyncF(c))

\* ExecQueue keeps the promise of SerialQueue: accepted jobs run in order, one
\* at a time, and none is started after the queue is closed.
AbstractStatus == [j \in Jobs |->
  CASE jobs[j] = "new" -> "new"
    [] jobs[j] = "queued" -> "pending"
    [] jobs[j] = "exec" -> "running"
    [] jobs[j] \in {"ran", "over"} -> "finished"
    [] OTHER -> "refused"]

SQ == INSTANCE SerialQueue
        WITH status <- AbstractStatus, pending <- queue, open <- ~closed

ImplementsSerialQueue == SQ!Spec

\* A function waiting in q.queue is run, unless the queue is shut down.
QueuedRuns == \A j \in Jobs : jobs[j] = "queued" ~> Finished(j) \/ closed

\* No caller blocks for ever in Wait, ShutdownAndWait or RunSync, when the
\* queue has not been shut down before its first use.
BlockedReturns ==
  \A c \in Callers :
    pc[c] = "select" /\ ~(closed /\ ctx = "live") ~> pc[c] = "returned"

\* The doc comment of RunSync: "It returns an error if the queue is closed
\* before f is run or ctx expires."  Here the caller's context never expires.
RunSyncReturns ==
  \A c \in Callers : pc[c] = "select" /\ op[c] = "RunSync" ~> pc[c] = "returned"

\* The comment in ExtensionHost.shutdown: "wait for the currently executing
\* operation (if any) to finish", unless the five seconds have passed.
ShutdownWaitsForOperation ==
  \A c \in Callers : op[c] = "ShutdownThenWait" /\ pc[c] = "returned" /\ result[c] # "ctx" =>
    \A j \in Jobs : jobs[j] # "exec"
=============================================================================
