-------------------------- MODULE ExecQueueProofs --------------------------
(***************************************************************************)
(* Proofs about ExecQueue, for every set of functions and callers: types,  *)
(* the goroutine invariant, the promises of ShutdownAndWait, Wait and      *)
(* RunSync, and the refinement of SerialQueue.                             *)
(***************************************************************************)
EXTENDS ExecQueue, SequenceTheorems, TLAPS

-----------------------------------------------------------------------------
(* The type invariant.                                                     *)

\* Adding a job keeps the types of what Add changes.
LEMMA AddType ==
  ASSUME TypeOK, NEW j \in Jobs, AddLocked(j)
  PROVE  /\ jobs' \in [Jobs -> JobStates] /\ queue' \in Seq(Jobs)
         /\ inFlight' \in BOOLEAN /\ ctx' \in {"nil", "live", "done"}
<1>1. CASE closed
  BY <1>1 DEF AddLocked, TypeOK, JobStates
<1>2. CASE ~closed /\ inFlight
  <2>1. /\ jobs' = [jobs EXCEPT ![j] = "queued"] /\ queue' = Append(queue, j)
        /\ inFlight' = inFlight /\ InitCtx
    BY <1>2 DEF AddLocked
  <2>2. queue' \in Seq(Jobs)
    BY <2>1 DEF TypeOK
  <2>3. jobs' \in [Jobs -> JobStates]
    BY <2>1 DEF TypeOK, JobStates
  <2> QED BY <2>1, <2>2, <2>3 DEF TypeOK, InitCtx
<1>3. CASE ~closed /\ ~inFlight
  BY <1>3 DEF AddLocked, TypeOK, JobStates, InitCtx
<1> QED BY <1>1, <1>2, <1>3 DEF TypeOK

\* Every step keeps the types.
LEMMA TypeStep == TypeOK /\ [Next]_vars => TypeOK'
<1> SUFFICES ASSUME TypeOK, [Next]_vars PROVE TypeOK'
  OBVIOUS
<1> USE DEF TypeOK, Ops, Labels, Results
<1>1. ASSUME NEW f \in Funcs, Add(f) PROVE TypeOK'
  BY <1>1, AddType DEF Add, Jobs
<1>2. ASSUME NEW c \in Callers, RunSyncInit(c) PROVE TypeOK'
  BY <1>2 DEF RunSyncInit, Begin, InitCtx, Goto
<1>3. ASSUME NEW c \in Callers, Shutdown(c) PROVE TypeOK'
  BY <1>3 DEF Shutdown, Begin, CloseAndCancel, Return, Goto
<1>4. ASSUME NEW c \in Callers, ShutdownAndWait(c) PROVE TypeOK'
  BY <1>4 DEF ShutdownAndWait, Begin, CloseAndCancel, TakeDoneWaiter, Return, Goto
<1>5. ASSUME NEW c \in Callers, WaitLocked(c), op' \in [Callers -> Ops] PROVE TypeOK'
  BY <1>5 DEF WaitLocked, InitCtx, TakeDoneWaiter, Unfinished, Return, Goto
<1>6. ASSUME NEW c \in Callers, Wait(c) \/ ShutdownWorkQueueWait(c) PROVE TypeOK'
  BY <1>5, <1>6 DEF Wait, ShutdownWorkQueueWait, Begin
<1>7. ASSUME NEW c \in Callers, ShutdownWorkQueue(c) PROVE TypeOK'
  BY <1>7 DEF ShutdownWorkQueue, Begin, CloseAndCancel, Goto
<1>8. ASSUME NEW c \in Callers, RunSyncAdd(c) PROVE TypeOK'
  BY <1>8, AddType DEF RunSyncAdd, Goto, SyncF, Jobs
<1>9. ASSUME NEW c \in Callers, RunSyncAddClose(c) PROVE TypeOK'
  BY <1>9, AddType DEF RunSyncAddClose, Goto, SyncDone, Jobs
<1>10. ASSUME NEW c \in Callers, SelectDone(c) \/ SelectShutdown(c) \/ SelectCtx(c) PROVE TypeOK'
  BY <1>10 DEF SelectDone, SelectShutdown, SelectCtx, Return, Goto
<1>11. ASSUME NEW j \in Jobs, JobReturns(j) PROVE TypeOK'
  BY <1>11 DEF JobReturns, callerVars, JobStates
<1>12. ASSUME NEW j \in Jobs, RunNext(j) PROVE TypeOK'
  <2>1. Head(queue) \in Jobs /\ Tail(queue) \in Seq(Jobs)
    BY <1>12 DEF RunNext
  <2> QED BY <1>12, <2>1 DEF RunNext, callerVars, JobStates
<1>13. ASSUME NEW j \in Jobs, RunStop(j) PROVE TypeOK'
  <2>1. jobs' \in [Jobs -> JobStates]
    BY <1>13 DEF RunStop, Stop, JobStates
  <2>2. /\ queue' = <<>> /\ inFlight' = FALSE /\ doneWaiter' = FALSE
        /\ chan' = [c \in Callers |-> IF chan[c] = "on" THEN "fired" ELSE chan[c]]
        /\ UNCHANGED <<closed, ctx, op, pc, result, before>>
    BY <1>13 DEF RunStop, Stop, callerVars
  <2>3. queue' \in Seq(Jobs) /\ chan' \in [Callers -> {"none", "on", "fired"}]
    BY <2>2
  <2> QED BY <2>1, <2>2, <2>3
<1>14. CASE UNCHANGED vars
  BY <1>14 DEF vars
<1> QED
  BY <1>1, <1>2, <1>3, <1>4, <1>6, <1>7, <1>8, <1>9, <1>10, <1>11, <1>12, <1>13, <1>14
  DEF Next, Call, Continue, Run, Terminated

\* The initial state has the right types.
LEMMA InitType == Init => TypeOK
<1> SUFFICES ASSUME Init PROVE TypeOK
  OBVIOUS
<1>1. queue \in Seq(Jobs)
  BY DEF Init
<1>2. before \in [Callers -> SUBSET Jobs]
  BY DEF Init
<1> QED BY <1>1, <1>2 DEF Init, TypeOK, JobStates, Ops, Labels, Results

\* Every variable of the queue and its callers keeps its type.
THEOREM TypeCorrect == Spec => []TypeOK
BY InitType, TypeStep, PTL DEF Spec

-----------------------------------------------------------------------------
(* The queue holds exactly the queued jobs, each once, and the functions of *)
(* a RunSync are new until it adds them.                                    *)

Index == 1..Len(queue)

QueueInv ==
  /\ \A i \in Index : jobs[queue[i]] = "queued"
  /\ \A i, k \in Index : queue[i] = queue[k] => i = k
  /\ \A j \in Jobs : jobs[j] = "queued" => \E i \in Index : queue[i] = j

SyncNew ==
  \A c \in Callers :
    /\ pc[c] \in {"idle", "add"} => jobs[SyncF(c)] = "new"
    /\ pc[c] \in {"idle", "add", "addClose"} => jobs[SyncDone(c)] = "new"

\* SyncF and SyncDone name different jobs for different callers, and none of
\* them is a function handed to Add.
LEMMA SyncJobs ==
  ASSUME NEW c \in Callers
  PROVE  /\ SyncF(c) \in Jobs /\ SyncDone(c) \in Jobs
         /\ \A d \in Callers : SyncF(c) # SyncDone(d)
         /\ \A d \in Callers : SyncF(c) = SyncF(d) => c = d
         /\ \A d \in Callers : SyncDone(c) = SyncDone(d) => c = d
         /\ SyncF(c) \notin Funcs /\ SyncDone(c) \notin Funcs
BY JobsDistinct DEF SyncF, SyncDone, Jobs

\* Adding a new job keeps the queue in order.
LEMMA AddQueue ==
  ASSUME TypeOK, QueueInv, NEW j \in Jobs, jobs[j] = "new", AddLocked(j)
  PROVE  QueueInv'
<1>1. CASE closed
  BY <1>1 DEF AddLocked, TypeOK, QueueInv, Index
<1>2. CASE ~closed /\ inFlight
  <2>1. jobs' = [jobs EXCEPT ![j] = "queued"] /\ queue' = Append(queue, j)
    BY <1>2 DEF AddLocked
  <2>2. /\ Len(queue) \in Nat /\ Len(queue') = Len(queue) + 1
        /\ \A i \in Index : queue'[i] = queue[i] /\ queue[i] \in Jobs
        /\ queue'[Len(queue) + 1] = j
    BY <2>1 DEF TypeOK, Index
  <2>3. \A i \in Index : queue[i] # j
    BY DEF QueueInv
  <2> QED BY <2>1, <2>2, <2>3 DEF QueueInv, Index, TypeOK
<1>3. CASE ~closed /\ ~inFlight
  BY <1>3 DEF AddLocked, TypeOK, QueueInv, Index
<1> QED BY <1>1, <1>2, <1>3 DEF TypeOK

\* q.run takes the head of the queue.
LEMMA NextQueue ==
  ASSUME TypeOK, QueueInv, NEW j \in Jobs, RunNext(j)
  PROVE  /\ QueueInv' /\ Head(queue) \in Jobs /\ jobs[Head(queue)] = "queued"
         /\ Head(queue) # j
<1>1. /\ Len(queue) \in Nat /\ 1 \in Index /\ Head(queue) = queue[1]
      /\ Head(queue) \in Jobs /\ Tail(queue) \in Seq(Jobs)
      /\ Len(Tail(queue)) = Len(queue) - 1
      /\ \A i \in 1..(Len(queue) - 1) : Tail(queue)[i] = queue[i + 1]
      /\ \A i \in Index : queue[i] \in Jobs
  BY DEF RunNext, TypeOK, Index
<1>2. jobs[Head(queue)] = "queued" /\ Head(queue) # j
  BY <1>1 DEF QueueInv, RunNext
<1>3. jobs' = [jobs EXCEPT ![j] = "over", ![Head(queue)] = "exec"] /\ queue' = Tail(queue)
  BY DEF RunNext
<1>4. \A i \in Index' : i + 1 \in Index /\ queue'[i] = queue[i + 1] /\ queue[i + 1] # Head(queue)
  BY <1>1, <1>3 DEF Index, QueueInv
<1>5. \A i \in Index' : jobs'[queue'[i]] = "queued"
  <2> SUFFICES ASSUME NEW i \in Index' PROVE jobs'[queue'[i]] = "queued"
    OBVIOUS
  <2>1. /\ queue'[i] = queue[i + 1] /\ queue[i + 1] \in Jobs
        /\ queue[i + 1] # Head(queue) /\ jobs[queue[i + 1]] = "queued"
    BY <1>1, <1>4 DEF QueueInv
  <2>2. queue[i + 1] # j
    BY <2>1 DEF RunNext
  <2> QED BY <1>1, <1>3, <2>1, <2>2 DEF TypeOK
<1>6. \A i, k \in Index' : queue'[i] = queue'[k] => i = k
  BY <1>1, <1>4 DEF QueueInv, Index
<1>7. \A i \in Jobs : jobs'[i] = "queued" => \E k \in Index' : queue'[k] = i
  <2> SUFFICES ASSUME NEW i \in Jobs, jobs'[i] = "queued" PROVE \E k \in Index' : queue'[k] = i
    OBVIOUS
  <2>1. jobs[i] = "queued" /\ i # Head(queue)
    BY <1>1, <1>3 DEF TypeOK
  <2>2. PICK k \in Index : queue[k] = i
    BY <2>1 DEF QueueInv
  <2>3. k # 1
    BY <2>1, <2>2, <1>1
  <2>4. k - 1 \in Index' /\ queue'[k - 1] = i
    BY <2>2, <2>3, <1>1, <1>3 DEF Index
  <2> QED BY <2>4
<1> QED BY <1>1, <1>2, <1>5, <1>6, <1>7 DEF QueueInv

\* Every step keeps both.
LEMMA QueueStep == TypeOK /\ QueueInv /\ SyncNew /\ [Next]_vars => QueueInv' /\ SyncNew'
<1> SUFFICES ASSUME TypeOK, QueueInv, SyncNew, [Next]_vars PROVE QueueInv' /\ SyncNew'
  OBVIOUS
<1>a. ASSUME UNCHANGED <<jobs, queue>> PROVE QueueInv'
  BY <1>a DEF QueueInv, Index
<1>b. ASSUME UNCHANGED jobs,
             \A d \in Callers : pc'[d] = pc[d] \/ pc'[d] \notin {"idle", "add", "addClose"}
                                 \/ (pc[d] = "idle" /\ pc'[d] = "add")
      PROVE SyncNew'
  BY <1>b DEF SyncNew
<1>1. ASSUME NEW f \in Funcs, Add(f) PROVE QueueInv' /\ SyncNew'
  <2>1. f \in Jobs /\ QueueInv'
    BY <1>1, AddQueue DEF Add, Jobs
  <2>2. \A j \in Jobs : j # f => jobs'[j] = jobs[j]
    BY <1>1, <2>1 DEF Add, AddLocked, TypeOK
  <2>3. pc' = pc
    BY <1>1 DEF Add
  <2> QED BY <2>1, <2>2, <2>3, SyncJobs DEF SyncNew
<1>2. ASSUME NEW c \in Callers, RunSyncInit(c) PROVE QueueInv' /\ SyncNew'
  BY <1>a, <1>b, <1>2 DEF RunSyncInit, Begin, Goto, TypeOK
<1>3. ASSUME NEW c \in Callers, Shutdown(c) PROVE QueueInv' /\ SyncNew'
  BY <1>a, <1>b, <1>3 DEF Shutdown, Return, Goto, TypeOK
<1>4. ASSUME NEW c \in Callers, ShutdownAndWait(c) PROVE QueueInv' /\ SyncNew'
  BY <1>a, <1>b, <1>4 DEF ShutdownAndWait, Return, Goto, TypeOK
<1>5. ASSUME NEW c \in Callers, Wait(c) \/ ShutdownWorkQueueWait(c) PROVE QueueInv' /\ SyncNew'
  BY <1>a, <1>b, <1>5 DEF Wait, ShutdownWorkQueueWait, WaitLocked, Return, Goto, TypeOK
<1>6. ASSUME NEW c \in Callers, ShutdownWorkQueue(c) PROVE QueueInv' /\ SyncNew'
  BY <1>a, <1>b, <1>6 DEF ShutdownWorkQueue, Goto, TypeOK
<1>7. ASSUME NEW c \in Callers, RunSyncAdd(c) PROVE QueueInv' /\ SyncNew'
  <2>1. SyncF(c) \in Jobs /\ jobs[SyncF(c)] = "new" /\ AddLocked(SyncF(c))
    BY <1>7, SyncJobs DEF RunSyncAdd, SyncNew
  <2>2. QueueInv'
    BY <2>1, AddQueue
  <2>3. \A j \in Jobs : j # SyncF(c) => jobs'[j] = jobs[j]
    BY <2>1 DEF AddLocked, TypeOK
  <2>4. pc' = [pc EXCEPT ![c] = "addClose"] /\ pc[c] = "add"
    BY <1>7 DEF RunSyncAdd, Goto
  <2> QED BY <2>2, <2>3, <2>4, SyncJobs DEF SyncNew, TypeOK
<1>8. ASSUME NEW c \in Callers, RunSyncAddClose(c) PROVE QueueInv' /\ SyncNew'
  <2>1. SyncDone(c) \in Jobs /\ jobs[SyncDone(c)] = "new" /\ AddLocked(SyncDone(c))
    BY <1>8, SyncJobs DEF RunSyncAddClose, SyncNew
  <2>2. QueueInv'
    BY <2>1, AddQueue
  <2>3. \A j \in Jobs : j # SyncDone(c) => jobs'[j] = jobs[j]
    BY <2>1 DEF AddLocked, TypeOK
  <2>4. pc' = [pc EXCEPT ![c] = "select"]
    BY <1>8 DEF RunSyncAddClose, Goto
  <2> QED BY <2>2, <2>3, <2>4, SyncJobs DEF SyncNew, TypeOK
<1>9. ASSUME NEW c \in Callers, SelectDone(c) \/ SelectShutdown(c) \/ SelectCtx(c)
      PROVE QueueInv' /\ SyncNew'
  BY <1>a, <1>b, <1>9 DEF SelectDone, SelectShutdown, SelectCtx, Return, Goto, TypeOK
<1>10. ASSUME NEW j \in Jobs, JobReturns(j) PROVE QueueInv' /\ SyncNew'
  <2>1. jobs' = [jobs EXCEPT ![j] = "ran"] /\ jobs[j] = "exec" /\ UNCHANGED <<queue, pc>>
    BY <1>10 DEF JobReturns, callerVars
  <2>2. QueueInv'
    BY <2>1 DEF QueueInv, Index, TypeOK
  <2> QED BY <2>1, <2>2, SyncJobs DEF SyncNew, TypeOK
<1>11. ASSUME NEW j \in Jobs, RunNext(j) PROVE QueueInv' /\ SyncNew'
  <2>1. \A i \in Jobs : jobs[i] = "new" => jobs'[i] = "new"
    BY <1>11, NextQueue DEF RunNext, TypeOK
  <2>2. pc' = pc
    BY <1>11 DEF RunNext, callerVars
  <2> QED BY <1>11, NextQueue, <2>1, <2>2, SyncJobs DEF SyncNew
<1>12. ASSUME NEW j \in Jobs, RunStop(j) PROVE QueueInv' /\ SyncNew'
  <2>1. /\ \A i \in Jobs : jobs[i] = "new" => jobs'[i] = "new"
        /\ \A i \in Jobs : jobs'[i] # "queued"
    BY <1>12 DEF RunStop, Stop, TypeOK
  <2>2. pc' = pc /\ queue' = <<>>
    BY <1>12 DEF RunStop, Stop, callerVars
  <2>3. Index' = {}
    BY <2>2 DEF Index
  <2> QED BY <2>1, <2>2, <2>3, SyncJobs DEF SyncNew, QueueInv
<1>13. CASE UNCHANGED vars
  BY <1>13 DEF vars, QueueInv, Index, SyncNew
<1> QED
  BY <1>1, <1>2, <1>3, <1>4, <1>5, <1>6, <1>7, <1>8, <1>9, <1>10, <1>11, <1>12, <1>13
  DEF Next, Call, Continue, Run, Terminated

-----------------------------------------------------------------------------
(* At most one goroutine.                                                  *)

\* Adding a new job starts a goroutine exactly when there is none.
LEMMA AddGoroutine ==
  ASSUME TypeOK, OneGoroutine, NEW j \in Jobs, jobs[j] = "new", AddLocked(j),
         UNCHANGED <<doneWaiter, chan>>
  PROVE  OneGoroutine'
<1>1. CASE closed
  <2>1. jobs' = [jobs EXCEPT ![j] = "dropped"] /\ UNCHANGED <<queue, inFlight>>
    BY <1>1 DEF AddLocked
  <2> QED BY <2>1 DEF OneGoroutine, TypeOK
<1>2. CASE ~closed /\ inFlight
  <2>1. jobs' = [jobs EXCEPT ![j] = "queued"] /\ inFlight' = inFlight
    BY <1>2 DEF AddLocked
  <2> QED BY <1>2, <2>1 DEF OneGoroutine, TypeOK
<1>3. CASE ~closed /\ ~inFlight
  <2>1. jobs' = [jobs EXCEPT ![j] = "exec"] /\ inFlight' = TRUE
    BY <1>3 DEF AddLocked
  <2>2. \A i \in Jobs : jobs'[i] \in {"exec", "ran"} <=> i = j
    BY <1>3, <2>1 DEF OneGoroutine, TypeOK
  <2> QED BY <2>1, <2>2 DEF OneGoroutine
<1> QED BY <1>1, <1>2, <1>3 DEF TypeOK

\* The goroutine is alone.
LEMMA Alone ==
  ASSUME TypeOK, OneGoroutine, NEW j \in Jobs, jobs[j] \in {"exec", "ran"}
  PROVE  inFlight /\ \A i \in Jobs : jobs[i] \in {"exec", "ran"} => i = j
BY DEF OneGoroutine, TypeOK

\* Every step keeps it alone.
LEMMA GoroutineStep ==
  TypeOK /\ QueueInv /\ SyncNew /\ OneGoroutine /\ [Next]_vars => OneGoroutine'
<1> SUFFICES ASSUME TypeOK, QueueInv, SyncNew, OneGoroutine, [Next]_vars PROVE OneGoroutine'
  OBVIOUS
<1>a. ASSUME UNCHANGED <<jobs, queue, inFlight, doneWaiter, chan>> PROVE OneGoroutine'
  BY <1>a DEF OneGoroutine
<1>b. ASSUME NEW c \in Callers, TakeDoneWaiter(c), UNCHANGED <<jobs, queue, inFlight>>
      PROVE OneGoroutine'
  BY <1>b DEF OneGoroutine, TakeDoneWaiter, TypeOK
<1>1. ASSUME NEW f \in Funcs, Add(f) PROVE OneGoroutine'
  BY <1>1, AddGoroutine DEF Add, Jobs
<1>2. ASSUME NEW c \in Callers,
             RunSyncInit(c) \/ Shutdown(c) \/ ShutdownWorkQueue(c)
               \/ SelectDone(c) \/ SelectShutdown(c) \/ SelectCtx(c)
      PROVE OneGoroutine'
  BY <1>2, <1>a DEF RunSyncInit, Shutdown, ShutdownWorkQueue, SelectDone, SelectShutdown, SelectCtx
<1>3. ASSUME NEW c \in Callers, ShutdownAndWait(c) \/ Wait(c) \/ ShutdownWorkQueueWait(c)
      PROVE OneGoroutine'
  BY <1>3, <1>b DEF ShutdownAndWait, Wait, ShutdownWorkQueueWait, WaitLocked
<1>4. ASSUME NEW c \in Callers, RunSyncAdd(c) PROVE OneGoroutine'
  BY <1>4, AddGoroutine, SyncJobs DEF RunSyncAdd, SyncNew
<1>5. ASSUME NEW c \in Callers, RunSyncAddClose(c) PROVE OneGoroutine'
  BY <1>5, AddGoroutine, SyncJobs DEF RunSyncAddClose, SyncNew
<1>6. ASSUME NEW j \in Jobs, JobReturns(j) PROVE OneGoroutine'
  <2>1. /\ jobs[j] = "exec" /\ jobs' = [jobs EXCEPT ![j] = "ran"]
        /\ UNCHANGED <<queue, inFlight, doneWaiter, chan>>
    BY <1>6 DEF JobReturns
  <2>2. inFlight' /\ \A i \in Jobs : jobs'[i] \in {"exec", "ran"} <=> i = j
    BY <2>1, Alone DEF TypeOK
  <2> QED BY <2>2 DEF OneGoroutine
<1>7. ASSUME NEW j \in Jobs, RunNext(j) PROVE OneGoroutine'
  <2>1. /\ jobs[j] = "ran" /\ jobs' = [jobs EXCEPT ![j] = "over", ![Head(queue)] = "exec"]
        /\ inFlight' = inFlight
    BY <1>7 DEF RunNext
  <2>2. inFlight' /\ \A i \in Jobs : jobs'[i] \in {"exec", "ran"} <=> i = Head(queue)
    BY <1>7, <2>1, Alone, NextQueue DEF TypeOK
  <2> QED BY <1>7, <2>2, NextQueue DEF OneGoroutine
<1>8. ASSUME NEW j \in Jobs, RunStop(j) PROVE OneGoroutine'
  <2>1. /\ jobs[j] = "ran" /\ queue' = <<>> /\ inFlight' = FALSE /\ doneWaiter' = FALSE
        /\ \A c \in Callers : chan'[c] # "on"
    BY <1>8 DEF RunStop, Stop
  <2>2. \A i \in Jobs : jobs'[i] \notin {"exec", "ran", "queued"}
    BY <1>8, <2>1, Alone DEF RunStop, Stop
  <2> QED BY <2>1, <2>2 DEF OneGoroutine
<1>9. CASE UNCHANGED vars
  BY <1>9, <1>a DEF vars
<1> QED
  BY <1>1, <1>2, <1>3, <1>4, <1>5, <1>6, <1>7, <1>8, <1>9
  DEF Next, Call, Continue, Run, Terminated

Core == TypeOK /\ QueueInv /\ SyncNew /\ OneGoroutine

\* The facts above, as an invariant.
LEMMA CoreHolds == Spec => []Core
<1>1. Init => Core
  <2> SUFFICES ASSUME Init PROVE Core
    OBVIOUS
  <2>1. TypeOK
    BY InitType
  <2>2. Index = {}
    BY DEF Init, Index
  <2>3. QueueInv
    BY <2>2 DEF Init, QueueInv
  <2>4. SyncNew
    BY SyncJobs DEF Init, SyncNew
  <2>5. OneGoroutine
    BY DEF Init, OneGoroutine
  <2> QED BY <2>1, <2>3, <2>4, <2>5 DEF Core
<1>2. Core /\ [Next]_vars => Core'
  BY TypeStep, QueueStep, GoroutineStep DEF Core
<1> QED BY <1>1, <1>2, PTL DEF Spec

\* Whatever the number of callers and functions, inFlight tells whether there
\* is a goroutine, there is never more than one, and nobody is left waiting
\* for one that is gone.
THEOREM OneGoroutineHolds == Spec => []OneGoroutine
BY CoreHolds, PTL DEF Core

-----------------------------------------------------------------------------
(* ExecQueue implements SerialQueue.                                       *)

\* Adding a new job is accepting or refusing it.
LEMMA AddRefines ==
  ASSUME Core, NEW j \in Jobs, jobs[j] = "new", AddLocked(j), closed' = closed
  PROVE  SQ!Accept(j) \/ SQ!Refuse(j)
<1> USE DEF Core
<1>1. CASE closed
  BY <1>1 DEF AddLocked, TypeOK, SQ!Refuse, AbstractStatus
<1>2. CASE ~closed /\ inFlight
  BY <1>2 DEF AddLocked, TypeOK, SQ!Accept, AbstractStatus
<1>3. CASE ~closed /\ ~inFlight
  <2>1. jobs' = [jobs EXCEPT ![j] = "exec"] /\ queue' = queue
    BY <1>3 DEF AddLocked
  <2>2. queue = <<>> /\ SQ!Running = {}
    BY <1>3 DEF OneGoroutine, SQ!Running, AbstractStatus
  <2> QED BY <1>3, <2>1, <2>2 DEF TypeOK, SQ!Accept, AbstractStatus
<1> QED BY <1>1, <1>2, <1>3 DEF Core, TypeOK

\* Between two jobs nothing is running.
LEMMA NothingRuns ==
  ASSUME Core, NEW j \in Jobs, jobs[j] = "ran"
  PROVE  SQ!Running = {}
BY Alone DEF Core, SQ!Running, AbstractStatus

\* Every step of ExecQueue is a step of SerialQueue or leaves it alone.
LEMMA RefinementStep == Core /\ [Next]_vars => [SQ!Next]_(SQ!vars)
<1> SUFFICES ASSUME Core, [Next]_vars PROVE [SQ!Next]_(SQ!vars)
  OBVIOUS
<1>a. ASSUME UNCHANGED <<jobs, queue, closed>> PROVE UNCHANGED SQ!vars
  BY <1>a DEF SQ!vars, AbstractStatus
<1>b. ASSUME CloseAndCancel, UNCHANGED <<jobs, queue>> PROVE SQ!Close
  BY <1>b DEF CloseAndCancel, SQ!Close, AbstractStatus
<1>1. ASSUME NEW f \in Funcs, Add(f) PROVE SQ!Next
  BY <1>1, AddRefines DEF Add, Jobs, SQ!Next
<1>2. ASSUME NEW c \in Callers,
             RunSyncInit(c) \/ Wait(c) \/ ShutdownWorkQueueWait(c)
               \/ SelectDone(c) \/ SelectShutdown(c) \/ SelectCtx(c)
      PROVE UNCHANGED SQ!vars
  BY <1>2, <1>a DEF RunSyncInit, Wait, ShutdownWorkQueueWait, WaitLocked,
                    SelectDone, SelectShutdown, SelectCtx
<1>3. ASSUME NEW c \in Callers, Shutdown(c) \/ ShutdownAndWait(c) \/ ShutdownWorkQueue(c)
      PROVE SQ!Next
  BY <1>3, <1>b DEF Shutdown, ShutdownAndWait, ShutdownWorkQueue, SQ!Next
<1>4. ASSUME NEW c \in Callers, RunSyncAdd(c) PROVE SQ!Next
  BY <1>4, AddRefines, SyncJobs DEF RunSyncAdd, Core, SyncNew, SQ!Next
<1>5. ASSUME NEW c \in Callers, RunSyncAddClose(c) PROVE SQ!Next
  BY <1>5, AddRefines, SyncJobs DEF RunSyncAddClose, Core, SyncNew, SQ!Next
<1>6. ASSUME NEW j \in Jobs, JobReturns(j) PROVE SQ!Next
  <2>1. SQ!Finish(j)
    BY <1>6 DEF JobReturns, Core, TypeOK, SQ!Finish, AbstractStatus
  <2> QED BY <2>1 DEF SQ!Next
<1>7. ASSUME NEW j \in Jobs, RunNext(j) PROVE SQ!Next
  <2>1. /\ jobs[j] = "ran" /\ jobs' = [jobs EXCEPT ![j] = "over", ![Head(queue)] = "exec"]
        /\ queue # <<>> /\ ~closed /\ queue' = Tail(queue) /\ closed' = closed
    BY <1>7 DEF RunNext
  <2>2. SQ!Running = {} /\ Head(queue) \in Jobs /\ Head(queue) # j
    BY <1>7, <2>1, NothingRuns, NextQueue DEF Core
  <2>3. AbstractStatus' = [AbstractStatus EXCEPT ![Head(queue)] = "running"]
    BY <2>1, <2>2 DEF Core, TypeOK, AbstractStatus
  <2>4. SQ!Start
    BY <2>1, <2>2, <2>3 DEF SQ!Start
  <2> QED BY <2>4 DEF SQ!Next
<1>8. ASSUME NEW j \in Jobs, RunStop(j) PROVE SQ!Next \/ UNCHANGED SQ!vars
  <2>1. /\ jobs[j] = "ran" /\ queue' = <<>> /\ closed' = closed
        /\ queue = <<>> \/ closed
    BY <1>8 DEF RunStop, Stop
  <2>2. AbstractStatus' = [i \in Jobs |-> IF AbstractStatus[i] = "pending" THEN "refused"
                                           ELSE AbstractStatus[i]]
    BY <1>8 DEF RunStop, Stop, Core, TypeOK, JobStates, AbstractStatus
  <2>3. CASE closed
    <3>1. SQ!Discard
      BY <2>1, <2>2, <2>3, NothingRuns DEF SQ!Discard
    <3> QED BY <3>1 DEF SQ!Next
  <2>4. CASE ~closed
    <3>1. queue = <<>> /\ Index = {}
      BY <2>1, <2>4 DEF Index
    <3>2. \A i \in Jobs : AbstractStatus[i] # "pending"
      BY <3>1 DEF Core, QueueInv, AbstractStatus
    <3>3. AbstractStatus' = AbstractStatus
      BY <2>2, <3>2 DEF AbstractStatus
    <3> QED BY <2>1, <3>1, <3>3 DEF SQ!vars
  <2> QED BY <2>3, <2>4
<1>9. CASE UNCHANGED vars
  BY <1>9, <1>a DEF vars
<1> QED
  BY <1>1, <1>2, <1>3, <1>4, <1>5, <1>6, <1>7, <1>8, <1>9
  DEF Next, Call, Continue, Run, Terminated

\* Accepted functions run one at a time and in order, and none is started once
\* the queue is closed, whatever the callers do.
THEOREM RefinesSerialQueue == Spec => ImplementsSerialQueue
<1>1. Init => SQ!Init
  BY DEF Init, SQ!Init, AbstractStatus
<1> QED BY <1>1, RefinementStep, CoreHolds, PTL DEF Spec, ImplementsSerialQueue, SQ!Spec

-----------------------------------------------------------------------------
(* What Wait and ShutdownAndWait mean when they return nil.                *)

\* A method has a result once it has returned, and only shutdownWorkQueue
\* calls Wait from inside.
CallInv ==
  \A c \in Callers : /\ pc[c] # "returned" => result[c] = "none"
                     /\ pc[c] = "wait" => op[c] = "ShutdownThenWait"

\* Only a closed queue drops jobs.
DropInv == \A j \in Jobs : jobs[j] = "dropped" => closed

NoneLeft == \A j \in Jobs : jobs[j] \notin {"queued", "exec"}

\* The doneWaiter channel of a ShutdownAndWait fires when nothing is left, and
\* nothing comes after it.
Quieted(c) ==
  op[c] = "ShutdownAndWait" =>
    closed /\ (result[c] = "nil" \/ chan[c] = "fired" => NoneLeft)

\* The doneWaiter channel of a Wait fires when what it waits for is done.
Drained(c) ==
  op[c] = "Wait" =>
    /\ before[c] \subseteq Jobs /\ \A j \in before[c] : jobs[j] # "new"
    /\ result[c] = "nil" \/ chan[c] = "fired" =>
         \A j \in before[c] : jobs[j] \notin {"queued", "exec"}

ReturnInv == CallInv /\ DropInv /\ \A c \in Callers : Quieted(c) /\ Drained(c)

\* What a step can do to the jobs.
LEMMA JobMoves ==
  ASSUME Core, [Next]_vars, NEW j \in Jobs
  PROVE  /\ jobs[j] # "new" => jobs'[j] # "new"
         /\ jobs[j] \in {"ran", "over"} => jobs'[j] \in {"ran", "over"}
         /\ jobs[j] = "dropped" => jobs'[j] = "dropped"
         /\ closed => closed'
         /\ closed /\ jobs[j] \notin {"queued", "exec"} => jobs'[j] \notin {"queued", "exec"}
         /\ jobs'[j] = "dropped" => jobs[j] = "dropped" \/ closed'
<1> DEFINE Goal ==
      /\ jobs[j] # "new" => jobs'[j] # "new"
      /\ jobs[j] \in {"ran", "over"} => jobs'[j] \in {"ran", "over"}
      /\ jobs[j] = "dropped" => jobs'[j] = "dropped"
      /\ closed => closed'
      /\ closed /\ jobs[j] \notin {"queued", "exec"} => jobs'[j] \notin {"queued", "exec"}
      /\ jobs'[j] = "dropped" => jobs[j] = "dropped" \/ closed'
<1>a. ASSUME NEW i \in Jobs, jobs[i] = "new", AddLocked(i), closed' = closed PROVE Goal
  BY <1>a DEF AddLocked, Core, TypeOK
<1>1. ASSUME NEW f \in Funcs, Add(f) PROVE Goal
  BY <1>1, <1>a DEF Add, Jobs
<1>2. ASSUME NEW c \in Callers,
             RunSyncInit(c) \/ Wait(c) \/ ShutdownWorkQueueWait(c)
               \/ SelectDone(c) \/ SelectShutdown(c) \/ SelectCtx(c)
      PROVE Goal
  BY <1>2 DEF RunSyncInit, Wait, ShutdownWorkQueueWait, WaitLocked,
              SelectDone, SelectShutdown, SelectCtx
<1>3. ASSUME NEW c \in Callers, Shutdown(c) \/ ShutdownAndWait(c) \/ ShutdownWorkQueue(c)
      PROVE Goal
  BY <1>3 DEF Shutdown, ShutdownAndWait, ShutdownWorkQueue, CloseAndCancel
<1>4. ASSUME NEW c \in Callers, RunSyncAdd(c) PROVE Goal
  BY <1>4, <1>a, SyncJobs DEF RunSyncAdd, Core, SyncNew
<1>5. ASSUME NEW c \in Callers, RunSyncAddClose(c) PROVE Goal
  BY <1>5, <1>a, SyncJobs DEF RunSyncAddClose, Core, SyncNew
<1>6. ASSUME NEW i \in Jobs, JobReturns(i) PROVE Goal
  BY <1>6 DEF JobReturns, Core, TypeOK
<1>7. ASSUME NEW i \in Jobs, RunNext(i) PROVE Goal
  BY <1>7, NextQueue DEF RunNext, Core, TypeOK
<1>8. ASSUME NEW i \in Jobs, RunStop(i) PROVE Goal
  <2>1. ~closed => jobs[j] # "queued"
    BY <1>8 DEF RunStop, Core, QueueInv, Index
  <2> QED BY <1>8, <2>1 DEF RunStop, Stop, Core, TypeOK
<1>9. CASE UNCHANGED vars
  BY <1>9 DEF vars
<1> QED
  BY <1>1, <1>2, <1>3, <1>4, <1>5, <1>6, <1>7, <1>8, <1>9
  DEF Next, Call, Continue, Run, Terminated

\* Every step keeps the bookkeeping of calls.
LEMMA CallStep == TypeOK /\ CallInv /\ [Next]_vars => CallInv'
<1> SUFFICES ASSUME TypeOK, CallInv, [Next]_vars PROVE CallInv'
  OBVIOUS
<1> USE DEF CallInv
<1>1. CASE UNCHANGED callerVars
  BY <1>1 DEF callerVars
<1>2. ASSUME NEW d \in Callers, Call(d) PROVE CallInv'
  <2>1. CASE RunSyncInit(d) \/ ShutdownWorkQueue(d)
    BY <2>1 DEF RunSyncInit, ShutdownWorkQueue, Begin, Goto, TypeOK
  <2>2. CASE Shutdown(d)
    BY <2>2 DEF Shutdown, Begin, Return, Goto, TypeOK
  <2>3. CASE ShutdownAndWait(d)
    BY <2>3 DEF ShutdownAndWait, Begin, Return, Goto, TypeOK
  <2>4. CASE Wait(d)
    BY <2>4 DEF Wait, WaitLocked, Begin, Return, Goto, TypeOK
  <2> QED BY <1>2, <2>1, <2>2, <2>3, <2>4 DEF Call
<1>3. ASSUME NEW d \in Callers, Continue(d) \/ SelectCtx(d) PROVE CallInv'
  <2>1. CASE RunSyncAdd(d) \/ RunSyncAddClose(d)
    BY <2>1 DEF RunSyncAdd, RunSyncAddClose, Goto, TypeOK
  <2>2. CASE ShutdownWorkQueueWait(d)
    BY <2>2 DEF ShutdownWorkQueueWait, WaitLocked, Return, Goto, TypeOK
  <2>3. CASE SelectDone(d) \/ SelectShutdown(d) \/ SelectCtx(d)
    BY <2>3 DEF SelectDone, SelectShutdown, SelectCtx, Return, Goto, TypeOK
  <2> QED BY <1>3, <2>1, <2>2, <2>3 DEF Continue
<1>4. ASSUME NEW f \in Funcs, Add(f) PROVE UNCHANGED callerVars
  BY <1>4 DEF Add, callerVars
<1>5. ASSUME NEW j \in Jobs, Run(j) PROVE UNCHANGED callerVars
  BY <1>5 DEF Run, JobReturns, RunNext, RunStop, Stop
<1>6. CASE UNCHANGED vars
  BY <1>6, <1>1 DEF vars, callerVars
<1> QED BY <1>1, <1>2, <1>3, <1>4, <1>5, <1>6 DEF Next, Terminated

\* Every step keeps what a result and a fired channel mean.
LEMMA ReturnStep == Core /\ ReturnInv /\ [Next]_vars => ReturnInv'
<1> SUFFICES ASSUME Core, ReturnInv, [Next]_vars PROVE ReturnInv'
  OBVIOUS
<1>1. TypeOK /\ OneGoroutine /\ TypeOK' /\ OneGoroutine' /\ CallInv'
  BY TypeStep, GoroutineStep, CallStep DEF Core, ReturnInv
<1>2. DropInv'
  BY JobMoves DEF DropInv, ReturnInv
<1>3. ASSUME NEW c \in Callers PROVE (Quieted(c) /\ Drained(c))'
  <2>a. ASSUME op'[c] = op[c], before'[c] = before[c],
               result'[c] = "nil" => result[c] = "nil" \/ chan[c] = "fired"
                                     \/ op[c] \notin {"Wait", "ShutdownAndWait"},
               chan'[c] = "fired" => chan[c] = "fired" \/ NoneLeft'
        PROVE (Quieted(c) /\ Drained(c))'
    <3>1. CASE op[c] = "ShutdownAndWait"
      <4>1. closed /\ closed' /\ (NoneLeft => NoneLeft')
        <5>1. closed /\ SyncF(c) \in Jobs
          BY <3>1, SyncJobs DEF ReturnInv, Quieted
        <5>2. closed'
          BY <5>1, JobMoves
        <5>3. NoneLeft => NoneLeft'
          BY <5>1, JobMoves DEF NoneLeft
        <5> QED BY <5>1, <5>2, <5>3
      <4> QED BY <2>a, <3>1, <4>1 DEF ReturnInv, Quieted, Drained
    <3>2. CASE op[c] = "Wait"
      <4>1. before[c] \subseteq Jobs /\ \A j \in before[c] : jobs[j] # "new"
        BY <3>2 DEF ReturnInv, Drained
      <4>2. \A j \in before[c] : jobs'[j] # "new"
        BY <4>1, JobMoves
      <4>3. ASSUME NEW j \in before[c], jobs[j] \notin {"queued", "exec"}
            PROVE jobs'[j] \notin {"queued", "exec"}
        <5>1. jobs[j] \in {"ran", "over", "dropped"}
          BY <1>1, <4>1, <4>3 DEF TypeOK, JobStates
        <5> QED BY <4>1, <5>1, JobMoves
      <4>4. NoneLeft' => \A j \in before[c] : jobs'[j] \notin {"queued", "exec"}
        BY <4>1 DEF NoneLeft
      <4> QED BY <2>a, <3>2, <4>1, <4>2, <4>3, <4>4 DEF ReturnInv, Quieted, Drained
    <3> QED BY <2>a, <3>1, <3>2 DEF Quieted, Drained
  <2>b. ASSUME op'[c] \notin {"Wait", "ShutdownAndWait"} PROVE (Quieted(c) /\ Drained(c))'
    BY <2>b DEF Quieted, Drained
  <2>1. ASSUME NEW d \in Callers, RunSyncInit(d) \/ Shutdown(d) \/ ShutdownWorkQueue(d)
        PROVE (Quieted(c) /\ Drained(c))'
    <3>1. CASE c = d
      BY <2>1, <2>b, <3>1, <1>1 DEF RunSyncInit, Shutdown, ShutdownWorkQueue, Begin, TypeOK
    <3>2. CASE c # d
      BY <2>1, <2>a, <3>2, <1>1
      DEF RunSyncInit, Shutdown, ShutdownWorkQueue, Begin, Return, TypeOK
    <3> QED BY <3>1, <3>2
  <2>2. ASSUME NEW d \in Callers, ShutdownAndWait(d) PROVE (Quieted(c) /\ Drained(c))'
    <3>1. CASE c = d
      <4>1. /\ op'[c] = "ShutdownAndWait" /\ closed' /\ chan'[c] # "fired" /\ jobs' = jobs
            /\ result'[c] = "nil" => result[c] = "nil" \/ ~inFlight
        BY <2>2, <3>1, <1>1
        DEF ShutdownAndWait, Begin, CloseAndCancel, TakeDoneWaiter, Return, TypeOK
      <4>2. result[c] # "nil"
        BY <2>2, <3>1 DEF ShutdownAndWait, Begin, ReturnInv, CallInv
      <4>3. ~inFlight => NoneLeft'
        BY <1>1, <4>1 DEF OneGoroutine, NoneLeft
      <4> QED BY <4>1, <4>2, <4>3 DEF Quieted, Drained
    <3>2. CASE c # d
      BY <2>2, <2>a, <3>2, <1>1 DEF ShutdownAndWait, Begin, TakeDoneWaiter, Return, TypeOK
    <3> QED BY <3>1, <3>2
  <2>3. ASSUME NEW d \in Callers, Wait(d) PROVE (Quieted(c) /\ Drained(c))'
    <3>1. CASE c = d
      <4>1. /\ op'[c] = "Wait" /\ before'[c] = Unfinished /\ chan'[c] # "fired" /\ jobs' = jobs
            /\ result'[c] = "nil" => result[c] = "nil" \/ ~inFlight
        BY <2>3, <3>1, <1>1 DEF Wait, WaitLocked, Begin, TakeDoneWaiter, Return, TypeOK
      <4>2. result[c] # "nil"
        BY <2>3, <3>1 DEF Wait, Begin, ReturnInv, CallInv
      <4>3. ~inFlight => Unfinished = {}
        BY <1>1 DEF OneGoroutine, Unfinished
      <4>4. Unfinished \subseteq Jobs /\ \A j \in Unfinished : jobs[j] # "new"
        BY DEF Unfinished
      <4> QED BY <4>1, <4>2, <4>3, <4>4 DEF Quieted, Drained
    <3>2. CASE c # d
      BY <2>3, <2>a, <3>2, <1>1 DEF Wait, WaitLocked, Begin, TakeDoneWaiter, Return, TypeOK
    <3> QED BY <3>1, <3>2
  <2>4. ASSUME NEW d \in Callers, ShutdownWorkQueueWait(d) PROVE (Quieted(c) /\ Drained(c))'
    <3>1. CASE c = d
      BY <2>4, <2>b, <3>1 DEF ShutdownWorkQueueWait, ReturnInv, CallInv
    <3>2. CASE c # d
      BY <2>4, <2>a, <3>2, <1>1
      DEF ShutdownWorkQueueWait, WaitLocked, TakeDoneWaiter, Return, TypeOK
    <3> QED BY <3>1, <3>2
  <2>5. ASSUME NEW d \in Callers, RunSyncAdd(d) \/ RunSyncAddClose(d)
        PROVE (Quieted(c) /\ Drained(c))'
    BY <2>5, <2>a DEF RunSyncAdd, RunSyncAddClose
  <2>6. ASSUME NEW d \in Callers, SelectDone(d) \/ SelectShutdown(d) \/ SelectCtx(d)
        PROVE (Quieted(c) /\ Drained(c))'
    BY <2>6, <2>a, <1>1 DEF SelectDone, SelectShutdown, SelectCtx, Return, TypeOK
  <2>7. ASSUME NEW f \in Funcs, Add(f) PROVE (Quieted(c) /\ Drained(c))'
    BY <2>7, <2>a DEF Add
  <2>8. ASSUME NEW j \in Jobs, JobReturns(j) \/ RunNext(j) PROVE (Quieted(c) /\ Drained(c))'
    BY <2>8, <2>a DEF JobReturns, RunNext, callerVars
  <2>9. ASSUME NEW j \in Jobs, RunStop(j) PROVE (Quieted(c) /\ Drained(c))'
    <3>1. NoneLeft'
      BY <2>9, <1>1 DEF RunStop, Stop, OneGoroutine, NoneLeft
    <3> QED BY <2>9, <2>a, <3>1 DEF RunStop, Stop, callerVars
  <2>10. CASE UNCHANGED vars
    BY <2>10, <2>a DEF vars
  <2> QED
    BY <2>1, <2>2, <2>3, <2>4, <2>5, <2>6, <2>7, <2>8, <2>9, <2>10
    DEF Next, Call, Continue, Run, Terminated
<1> QED BY <1>1, <1>2, <1>3 DEF ReturnInv

\* It is an invariant.
LEMMA ReturnHolds == Spec => []ReturnInv
<1>1. Init => ReturnInv
  BY DEF Init, ReturnInv, CallInv, DropInv, Quieted, Drained
<1> QED BY <1>1, ReturnStep, CoreHolds, PTL DEF Spec

\* After ShutdownAndWait has returned nil, no function is running and none will
\* run, whatever other callers add, wait for or shut down.
THEOREM ShutdownAndWaitHolds == Spec => []ShutdownAndWaitMeansQuiet
<1>1. ReturnInv => ShutdownAndWaitMeansQuiet
  BY DEF ReturnInv, Quieted, NoneLeft, ShutdownAndWaitMeansQuiet
<1> QED BY <1>1, ReturnHolds, PTL

\* A Wait that returns nil has waited for all that was accepted before it.
THEOREM WaitHolds == Spec => []WaitMeansDrained
<1>1. TypeOK /\ ReturnInv => WaitMeansDrained
  BY DEF TypeOK, JobStates, ReturnInv, Drained, DropInv, WaitMeansDrained, Finished
<1> QED BY <1>1, ReturnHolds, TypeCorrect, PTL

-----------------------------------------------------------------------------
(* RunSync: its function runs before the one that wakes it up.             *)

\* f is ahead of the function that closes the channel: it is added first, it
\* stays ahead in the queue, and when it is thrown away so is the other.
Ahead(c) ==
  LET f == SyncF(c)
      d == SyncDone(c)
  IN /\ pc[c] = "addClose" => jobs[f] # "new"
     /\ jobs[d] # "new" => jobs[f] # "new"
     /\ jobs[f] = "dropped" => jobs[d] \in {"new", "dropped"}
     /\ jobs[d] \in {"exec", "ran", "over"} => jobs[f] \in {"ran", "over"}
     /\ \A i, k \in Index : queue[i] = f /\ queue[k] = d => i < k

SyncInv == \A c \in Callers : Ahead(c)

\* Every step keeps the order.
LEMMA SyncStep == Core /\ DropInv /\ SyncInv /\ [Next]_vars => SyncInv'
<1> SUFFICES ASSUME Core, DropInv, SyncInv, [Next]_vars, NEW c \in Callers PROVE Ahead(c)'
  BY DEF SyncInv
<1> DEFINE f == SyncF(c)
           d == SyncDone(c)
<1>0. /\ TypeOK /\ QueueInv /\ SyncNew /\ OneGoroutine /\ Ahead(c)
      /\ f \in Jobs /\ d \in Jobs /\ f # d
  BY SyncJobs DEF Core, SyncInv
<1>a. ASSUME UNCHANGED <<jobs, queue>>, pc'[c] = "addClose" => pc[c] = "addClose" PROVE Ahead(c)'
  BY <1>0, <1>a DEF Ahead, Index
<1>b. ASSUME NEW j \in Jobs, jobs[j] = "new", AddLocked(j), j # f, j # d, pc'[c] = pc[c]
      PROVE Ahead(c)'
  <2>1. jobs'[f] = jobs[f] /\ jobs'[d] = jobs[d]
    BY <1>0, <1>b DEF AddLocked, TypeOK
  <2>2. queue' = queue \/ queue' = Append(queue, j)
    BY <1>b DEF AddLocked
  <2>3. \A i, k \in Index' : queue'[i] = f /\ queue'[k] = d => i < k
    <3>1. CASE queue' = queue
      BY <1>0, <3>1 DEF Ahead, Index
    <3>2. CASE queue' = Append(queue, j)
      BY <1>0, <1>b, <3>2 DEF Ahead, Index, TypeOK
    <3> QED BY <2>2, <3>1, <3>2
  <2> QED BY <1>0, <1>b, <2>1, <2>3 DEF Ahead
<1>1. ASSUME NEW g \in Funcs, Add(g) PROVE Ahead(c)'
  BY <1>1, <1>b, SyncJobs DEF Add, Jobs
<1>2. ASSUME NEW e \in Callers, Call(e) PROVE Ahead(c)'
  <2>1. UNCHANGED <<jobs, queue>>
    BY <1>2 DEF Call, RunSyncInit, Shutdown, ShutdownAndWait, Wait, WaitLocked, ShutdownWorkQueue
  <2>2. pc'[c] = "addClose" => pc[c] = "addClose"
    BY <1>0, <1>2 DEF Call, RunSyncInit, Shutdown, ShutdownAndWait, Wait, WaitLocked,
                      ShutdownWorkQueue, Return, Goto, TypeOK
  <2> QED BY <2>1, <2>2, <1>a
<1>3. ASSUME NEW e \in Callers,
             ShutdownWorkQueueWait(e) \/ SelectDone(e) \/ SelectShutdown(e) \/ SelectCtx(e)
      PROVE Ahead(c)'
  BY <1>0, <1>3, <1>a
  DEF ShutdownWorkQueueWait, WaitLocked, SelectDone, SelectShutdown, SelectCtx, Return, Goto, TypeOK
<1>4. ASSUME NEW e \in Callers, RunSyncAdd(e) PROVE Ahead(c)'
  <2>1. /\ SyncF(e) \in Jobs /\ jobs[SyncF(e)] = "new" /\ AddLocked(SyncF(e))
        /\ pc[e] = "add" /\ pc' = [pc EXCEPT ![e] = "addClose"]
    BY <1>0, <1>4, SyncJobs DEF RunSyncAdd, SyncNew, Goto
  <2>2. CASE e # c
    BY <1>0, <2>1, <2>2, <1>b, SyncJobs DEF TypeOK
  <2>3. CASE e = c
    <3>1. jobs[d] = "new" /\ jobs'[d] = "new" /\ jobs'[f] # "new"
      BY <1>0, <2>1, <2>3 DEF SyncNew, AddLocked, TypeOK
    <3>2. QueueInv'
      BY <1>0, <2>1, AddQueue
    <3>3. \A k \in Index' : queue'[k] # d
      BY <3>1, <3>2 DEF QueueInv
    <3> QED BY <3>1, <3>3 DEF Ahead
  <2> QED BY <2>2, <2>3
<1>5. ASSUME NEW e \in Callers, RunSyncAddClose(e) PROVE Ahead(c)'
  <2>1. /\ SyncDone(e) \in Jobs /\ jobs[SyncDone(e)] = "new" /\ AddLocked(SyncDone(e))
        /\ pc[e] = "addClose" /\ pc' = [pc EXCEPT ![e] = "select"]
    BY <1>0, <1>5, SyncJobs DEF RunSyncAddClose, SyncNew, Goto
  <2>2. CASE e # c
    BY <1>0, <2>1, <2>2, <1>b, SyncJobs DEF TypeOK
  <2>3. CASE e = c
    <3>1. jobs[f] # "new" /\ jobs'[f] = jobs[f] /\ pc'[c] = "select"
      BY <1>0, <2>1, <2>3 DEF Ahead, AddLocked, TypeOK
    <3>2. CASE closed
      <4>1. jobs'[d] = "dropped" /\ queue' = queue
        BY <1>0, <2>1, <2>3, <3>2 DEF AddLocked, TypeOK
      <4> QED BY <1>0, <3>1, <4>1 DEF Ahead, Index
    <3>3. CASE ~closed /\ inFlight
      <4>1. jobs'[d] = "queued" /\ queue' = Append(queue, d)
        BY <1>0, <2>1, <2>3, <3>3 DEF AddLocked, TypeOK
      <4>2. \A k \in Index : queue[k] # d
        BY <1>0, <2>1, <2>3 DEF QueueInv
      <4>3. \A i, k \in Index' : queue'[i] = f /\ queue'[k] = d => i < k
        BY <1>0, <4>1, <4>2 DEF Index, TypeOK
      <4>4. jobs[f] # "dropped"
        BY <1>0, <3>3 DEF DropInv
      <4> QED BY <3>1, <4>1, <4>3, <4>4 DEF Ahead
    <3>4. CASE ~closed /\ ~inFlight
      <4>1. jobs'[d] = "exec" /\ queue' = queue
        BY <1>0, <2>1, <2>3, <3>4 DEF AddLocked, TypeOK
      <4>2. jobs[f] # "dropped"
        BY <1>0, <3>4 DEF DropInv
      <4>3. jobs[f] = "over"
        BY <1>0, <3>1, <3>4, <4>2 DEF OneGoroutine, TypeOK, JobStates
      <4> QED BY <1>0, <3>1, <4>1, <4>3 DEF Ahead, Index
    <3> QED BY <1>0, <3>2, <3>3, <3>4 DEF TypeOK
  <2> QED BY <2>2, <2>3
<1>6. ASSUME NEW j \in Jobs, JobReturns(j) PROVE Ahead(c)'
  BY <1>0, <1>6 DEF JobReturns, callerVars, Ahead, Index, TypeOK
<1>7. ASSUME NEW j \in Jobs, RunNext(j) PROVE Ahead(c)'
  <2>1. /\ jobs[j] = "ran" /\ jobs' = [jobs EXCEPT ![j] = "over", ![Head(queue)] = "exec"]
        /\ queue' = Tail(queue) /\ queue # <<>> /\ pc' = pc
    BY <1>7 DEF RunNext, callerVars
  <2>2. Head(queue) \in Jobs /\ jobs[Head(queue)] = "queued" /\ Head(queue) # j
    BY <1>0, <1>7, NextQueue
  <2>3. \A i, k \in Index' : queue'[i] = f /\ queue'[k] = d => i < k
    <3>1. \A i \in Index' : i \in Int /\ i + 1 \in Index /\ queue'[i] = queue[i + 1]
      BY <1>0, <2>1 DEF Index, TypeOK
    <3> QED BY <1>0, <3>1 DEF Ahead
  <2>4. CASE Head(queue) = d
    <3>1. 1 \in Index /\ queue[1] = d
      BY <1>0, <2>1, <2>4 DEF Index, TypeOK
    <3>2. jobs[f] # "queued"
      <4>1. ASSUME NEW i \in Index, queue[i] = f PROVE FALSE
        BY <1>0, <3>1, <4>1 DEF Ahead, Index
      <4> QED BY <1>0, <4>1 DEF QueueInv
    <3>3. jobs[f] # "exec"
      BY <1>0, <2>1, Alone
    <3>4. jobs[f] \in {"ran", "over"}
      BY <1>0, <2>2, <2>4, <3>2, <3>3 DEF Ahead, TypeOK, JobStates
    <3> QED BY <1>0, <2>1, <2>2, <2>3, <2>4, <3>4 DEF Ahead, TypeOK
  <2>5. CASE Head(queue) # d
    BY <1>0, <2>1, <2>2, <2>3, <2>5 DEF Ahead, TypeOK
  <2> QED BY <2>4, <2>5
<1>8. ASSUME NEW j \in Jobs, RunStop(j) PROVE Ahead(c)'
  <2>1. /\ jobs[j] = "ran" /\ pc' = pc /\ queue' = <<>>
        /\ \A i \in Jobs : jobs'[i] = IF i = j THEN "over"
                                        ELSE IF jobs[i] = "queued" THEN "dropped" ELSE jobs[i]
    BY <1>8 DEF RunStop, Stop, callerVars
  <2>2. Index' = {}
    BY <2>1 DEF Index
  <2> QED BY <1>0, <2>1, <2>2 DEF Ahead, TypeOK, JobStates
<1>9. CASE UNCHANGED vars
  BY <1>9, <1>a DEF vars
<1> QED
  BY <1>1, <1>2, <1>3, <1>4, <1>5, <1>6, <1>7, <1>8, <1>9
  DEF Next, Continue, Run, Terminated

\* RunSync returns nil only after its function has run, however the two
\* functions it adds are interleaved with other calls and with a shutdown.
THEOREM RunSyncHolds == Spec => []RunSyncRan
<1>1. Init => SyncInv /\ RunSyncRan
  <2> SUFFICES ASSUME Init PROVE SyncInv /\ RunSyncRan
    OBVIOUS
  <2>1. Index = {}
    BY DEF Init, Index
  <2>2. SyncInv
    BY <2>1, SyncJobs DEF Init, SyncInv, Ahead
  <2> QED BY <2>2 DEF Init, RunSyncRan
<1>2. Core /\ ReturnInv /\ SyncInv /\ RunSyncRan /\ [Next]_vars => RunSyncRan'
  <2> SUFFICES ASSUME Core, ReturnInv, SyncInv, RunSyncRan, [Next]_vars, NEW c \in Callers,
                      op'[c] = "RunSync", result'[c] = "nil"
               PROVE Finished(SyncF(c))'
    BY DEF RunSyncRan
  <2>1. SyncF(c) \in Jobs /\ TypeOK /\ CallInv
    BY SyncJobs DEF Core, ReturnInv
  <2>2. Finished(SyncF(c)) => Finished(SyncF(c))'
    BY <2>1, JobMoves DEF Finished
  <2>3. CASE op[c] = "RunSync" /\ result[c] = "nil"
    BY <2>2, <2>3 DEF RunSyncRan
  <2>4. CASE ~(op[c] = "RunSync" /\ result[c] = "nil")
    <3>1. SelectDone(c) /\ op[c] = "RunSync"
      <4>1. ASSUME NEW e \in Callers, Call(e) PROVE FALSE
        BY <2>1, <2>4, <4>1 DEF Call, RunSyncInit, Shutdown, ShutdownAndWait, Wait, WaitLocked,
                                ShutdownWorkQueue, Begin, Return, CallInv, TypeOK
      <4>2. ASSUME NEW e \in Callers,
                   RunSyncAdd(e) \/ RunSyncAddClose(e) \/ ShutdownWorkQueueWait(e)
                     \/ SelectShutdown(e) \/ SelectCtx(e)
            PROVE FALSE
        BY <2>1, <2>4, <4>2 DEF RunSyncAdd, RunSyncAddClose, ShutdownWorkQueueWait, WaitLocked,
                                SelectShutdown, SelectCtx, Return, CallInv, TypeOK
      <4>3. ASSUME NEW e \in Callers, SelectDone(e) PROVE e = c /\ op[c] = "RunSync"
        BY <2>1, <2>4, <4>3 DEF SelectDone, Return, TypeOK
      <4>4. ASSUME NEW j \in Jobs, Run(j) PROVE FALSE
        BY <2>4, <4>4 DEF Run, JobReturns, RunNext, RunStop, Stop, callerVars
      <4>5. ASSUME NEW g \in Funcs, Add(g) PROVE FALSE
        BY <2>4, <4>5 DEF Add
      <4>6. ~UNCHANGED vars
        BY <2>4 DEF vars
      <4> QED BY <4>1, <4>2, <4>3, <4>4, <4>5, <4>6 DEF Next, Continue, Terminated
    <3>2. Finished(SyncDone(c))
      BY <3>1 DEF SelectDone
    <3>3. Finished(SyncF(c))
      BY <3>2 DEF SyncInv, Ahead, Finished
    <3> QED BY <2>2, <3>3
  <2> QED BY <2>3, <2>4
<1>3. ReturnInv => DropInv
  BY DEF ReturnInv
<1> QED BY <1>1, <1>2, <1>3, SyncStep, CoreHolds, ReturnHolds, PTL DEF Spec
=============================================================================
