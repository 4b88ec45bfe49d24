------------------------------ MODULE AuditLog ------------------------------
(***************************************************************************)
(* ipn/auditlog: the Loggers the extension creates for the control clients *)
(* of one profile, one after the other or before the last one has ended;   *)
(* the FileStore they share; the transport; and crashes of the process.    *)
(*                                                                         *)
(* A log is its timestamp.  A saved list of transactions, which is always  *)
(* sorted by timestamp and without duplicates, is a function from the logs *)
(* to their Retries, or Absent.  A Logger's mu is held between the load    *)
(* and the save of a critical section; each Logger has a mu of its own,    *)
(* and the store locks only the single load or save.                       *)
(***************************************************************************)
EXTENDS Integers

CONSTANTS
  Loggers,      \* instances of Logger
  Logs,         \* audit logs, by timestamp
  RetryLimit,   \* Opts.RetryLimit
  MaxOverlaps,  \* a bound on the Loggers that start while another is at work
  MaxFaults,    \* a bound on these, the crashes and the failed saves together
  MaxCuts       \* where the count of the attempts that were cut short ends

ASSUME LogsAreTimes == Logs \subseteq Nat \ {0}
ASSUME LimitIsNat == RetryLimit \in Nat
ASSUME CutsIsNat == MaxCuts \in Nat

NoLog == 0
Absent == -1
Counts == {Absent, 0} \cup 0..(RetryLimit - 1)
Limit == IF RetryLimit = 0 THEN 1 ELSE RetryLimit

VARIABLES
  cache,      \* FileStore.cache at the profile's key
  disk,       \* the same in the file
  hasID,      \* the profile has been persisted, and so has an ID
  current,    \* extension.logger, as a set of at most one Logger
  pc,         \* pc[l]: where the goroutine that flushes for l is
  phase,      \* phase[l]: "run", "stopping" (ctx cancelled), "final" (worker gone)
  known,      \* l.profileID # ""
  flusher,    \* l.flusher holds a token
  retry,      \* the retry timer is armed
  enq,        \* the log that l.enqueue is adding, with mu held
  snap,       \* the store as loaded by the critical section that holds mu
  todo,       \* flush: the pending logs not yet sent
  complete,   \* flush: the logs sent, or failed permanently
  unsent,     \* flush: the logs to be put back
  accepted, refused, \* history: logs for which Enqueue returned nil, or an error
  resolved,   \* history: logs the transport took or refused for good
  fails,      \* history: retryable errors, by log
  cuts,       \* history: attempts ended by a context's error, by log
  overlaps,   \* history: the Loggers that started while another was at work
  mine,       \* history: mine[l]: the logs accepted before l started, or by l, while it is at work
  overwritten,\* history: logs lost to a save of a Logger that had loaded before them
  crashes, saveFails

storeVars == <<cache, disk, saveFails, overwritten>>
flushVars == <<todo, complete, unsent>>
history == <<accepted, refused, resolved, fails, cuts, overlaps, mine>>
vars == <<storeVars, hasID, current, pc, phase, known, flusher, retry, enq, snap,
          flushVars, history, crashes>>

Faults == overlaps + crashes + saveFails

Empty == [x \in Logs |-> Absent]
Stored(m) == {x \in Logs : m[x] # Absent}

Locked(l) == enq[l] # NoLog \/ pc[l] \in {"markSave", "appendSave"}
Goto(l, label) == pc' = [pc EXCEPT ![l] = label]
Idle(l) == pc[l] \in {"new", "returned", "dead"}

\* LocalBackend.mu, which is held when an action is audited, a control client is
\* created and the profile changes, is free.
BackendFree == \A l \in Loggers : enq[l] = NoLog

Init ==
  /\ cache = Empty /\ disk = Empty
  /\ hasID \in BOOLEAN
  /\ current = {}
  /\ pc = [l \in Loggers |-> "new"]
  /\ phase = [l \in Loggers |-> "run"]
  /\ known = [l \in Loggers |-> FALSE]
  /\ flusher = [l \in Loggers |-> FALSE]
  /\ retry = [l \in Loggers |-> FALSE]
  /\ enq = [l \in Loggers |-> NoLog]
  /\ snap = [l \in Loggers |-> Empty]
  /\ todo = [l \in Loggers |-> Empty]
  /\ complete = [l \in Loggers |-> {}]
  /\ unsent = [l \in Loggers |-> Empty]
  /\ accepted = {} /\ refused = {} /\ resolved = {}
  /\ fails = [x \in Logs |-> 0] /\ cuts = [x \in Logs |-> 0]
  /\ overlaps = 0 /\ overwritten = {}
  /\ mine = [l \in Loggers |-> {}]
  /\ crashes = 0 /\ saveFails = 0

-----------------------------------------------------------------------------
(* The store.                                                              *)

\* FileStore.WriteState: nothing to do when the value is the cached one; the
\* cache is changed before the file is written, and stays so when that fails.
Save(l, new, ok) ==
  /\ \/ /\ new = cache /\ ok
        /\ UNCHANGED <<cache, disk, saveFails>>
     \/ /\ new # cache /\ ok
        /\ cache' = new /\ disk' = new
        /\ UNCHANGED saveFails
     \/ /\ new # cache /\ ~ok /\ Faults < MaxFaults
        /\ cache' = new
        /\ saveFails' = saveFails + 1
        /\ UNCHANGED disk
  /\ overwritten' = overwritten \cup (Stored(cache) \ (Stored(snap[l]) \cup Stored(new)))

Load(l) == snap' = [snap EXCEPT ![l] = cache]

\* Local variables that are out of scope are emptied.
Forget(l) == snap' = [snap EXCEPT ![l] = Empty]

\* appendToStoreLocked: txns before what is stored, so that theirs is the copy
\* deduplicateAndSort keeps.
Appended(txns, stored) ==
  [x \in Logs |-> IF txns[x] # Absent THEN txns[x] ELSE stored[x]]

-----------------------------------------------------------------------------
(* The extension.                                                          *)

\* controlClientChanged: a new Logger, which flushes what its predecessors have
\* left.  Nothing waits for these to come to an end: LocalBackend shuts the old
\* control client down before it starts a new one, but not when two Starts overlap,
\* and in the background when the profile changes.
startNewLogger(l) ==
  /\ pc[l] = "new"
  /\ BackendFree
  /\ overlaps' = IF \A k \in Loggers : Idle(k) THEN overlaps ELSE overlaps + 1
  /\ overlaps' <= MaxOverlaps /\ overlaps' + crashes + saveFails <= MaxFaults
  /\ mine' = [k \in Loggers |-> IF k = l THEN accepted ELSE IF Idle(k) THEN {} ELSE mine[k]]
  /\ known' = [known EXCEPT ![l] = hasID]
  /\ flusher' = [flusher EXCEPT ![l] = hasID /\ Stored(cache) # {}]
  /\ Goto(l, "select")
  /\ current' = {l}
  /\ UNCHANGED <<storeVars, hasID, phase, retry, enq, snap, flushVars, accepted, refused,
                 resolved, fails, cuts, crashes>>

\* profileChanged for the same node: the login gives the profile its ID.
SetProfileID ==
  /\ ~hasID /\ BackendFree
  /\ \A l \in current : ~Locked(l)
  /\ hasID' = TRUE
  /\ known' = [l \in Loggers |-> known[l] \/ l \in current]
  /\ UNCHANGED <<storeVars, current, pc, phase, flusher, retry, enq, snap, flushVars,
                 history, crashes>>

\* profileChanged for another node, or a control client whose Logger could not
\* be started: Enqueue fails with errNoLogger from now on.
ClearLogger ==
  /\ current # {} /\ BackendFree
  /\ current' = {}
  /\ UNCHANGED <<storeVars, hasID, pc, phase, known, flusher, retry, enq, snap, flushVars,
                 history, crashes>>

\* The cleanup function, called when the control client shuts down.
FlushAndStop(l) ==
  /\ ~Idle(l) /\ phase[l] = "run"
  /\ phase' = [phase EXCEPT ![l] = "stopping"]
  /\ UNCHANGED <<storeVars, hasID, current, pc, known, flusher, retry, enq, snap,
                 flushVars, history, crashes>>

-----------------------------------------------------------------------------
(* Enqueue.                                                                *)

\* The load.  Without a profile ID appendToStoreLocked fails at once.
Enqueue(l, x) ==
  /\ l \in current /\ BackendFree /\ ~Locked(l)
  /\ x \notin accepted \cup refused
  /\ IF known[l]
       THEN /\ enq' = [enq EXCEPT ![l] = x]
            /\ Load(l)
            /\ UNCHANGED refused
       ELSE /\ refused' = refused \cup {x}
            /\ UNCHANGED <<enq, snap>>
  /\ UNCHANGED <<storeVars, hasID, current, pc, phase, known, flusher, retry, flushVars,
                 accepted, resolved, fails, cuts, overlaps, mine, crashes>>

WithNew(l) == Appended([x \in Logs |-> IF x = enq[l] THEN 0 ELSE Absent], snap[l])

\* The end of enqueue, with the save that may fail.
EnqueueEnds(l, ok, token) ==
  /\ enq[l] # NoLog
  /\ Save(l, WithNew(l), ok)
  /\ accepted' = IF ok THEN accepted \cup {enq[l]} ELSE accepted
  /\ mine' = [mine EXCEPT ![l] = IF ok THEN @ \cup {enq[l]} ELSE @]
  /\ refused' = IF ok THEN refused ELSE refused \cup {enq[l]}
  /\ flusher' = [flusher EXCEPT ![l] = @ \/ token]
  /\ enq' = [enq EXCEPT ![l] = NoLog]
  /\ Forget(l)
  /\ UNCHANGED <<hasID, current, pc, phase, known, retry, flushVars, resolved, fails, cuts,
                 overlaps, crashes>>

\* Faulty: no token while a flush is going on, which would see the log anyway.
EnqueueSaveNoToken(l, ok) == EnqueueEnds(l, ok, ok /\ pc[l] = "select")

EnqueueSave(l, ok) == EnqueueEnds(l, ok, ok)

-----------------------------------------------------------------------------
(* flushWorker.                                                            *)

\* ctx.Done: the worker ends, and its timer with it; stop returns, and
\* FlushAndStop's own flush begins.
WorkerStop(l) ==
  /\ pc[l] = "select" /\ phase[l] = "stopping"
  /\ phase' = [phase EXCEPT ![l] = "final"]
  /\ retry' = [retry EXCEPT ![l] = FALSE]
  /\ Goto(l, "load")
  /\ UNCHANGED <<storeVars, hasID, current, known, flusher, enq, snap, flushVars,
                 history, crashes>>

WorkerFlush(l) ==
  /\ pc[l] = "select" /\ flusher[l]
  /\ flusher' = [flusher EXCEPT ![l] = FALSE]
  /\ Goto(l, "load")
  /\ UNCHANGED <<storeVars, hasID, current, phase, known, retry, enq, snap, flushVars,
                 history, crashes>>

RetryFires(l) ==
  /\ pc[l] = "select" /\ retry[l]
  /\ retry' = [retry EXCEPT ![l] = FALSE]
  /\ flusher' = [flusher EXCEPT ![l] = TRUE]
  /\ UNCHANGED <<storeVars, hasID, current, pc, phase, known, enq, snap, flushVars,
                 history, crashes>>

\* Faulty: the timer is not reset.
FlushEndsNoRetry(l, err) ==
  /\ Goto(l, IF phase[l] = "final" THEN "returned" ELSE "select")
  /\ retry' = [retry EXCEPT ![l] = @ /\ phase[l] = "final"]

\* Faulty: FlushAndStop goes on until everything is sent.
FlushEndsWhenSent(l, err) ==
  /\ Goto(l, IF phase[l] = "final" /\ ~err THEN "returned" ELSE
             IF phase[l] = "final" THEN "load" ELSE "select")
  /\ retry' = IF phase[l] = "final" THEN retry ELSE [retry EXCEPT ![l] = err]

\* What the caller of flush does with its result: the worker sets or stops the
\* retry timer, FlushAndStop returns.
FlushEnds(l, err) ==
  /\ Goto(l, IF phase[l] = "final" THEN "returned" ELSE "select")
  /\ retry' = IF phase[l] = "final" THEN retry ELSE [retry EXCEPT ![l] = err]

-----------------------------------------------------------------------------
(* flush.                                                                  *)

\* Without a profile ID the load fails.
FlushLoad(l) ==
  /\ pc[l] = "load" /\ ~Locked(l)
  /\ IF known[l] /\ Stored(cache) # {}
       THEN /\ Goto(l, "send")
            /\ todo' = [todo EXCEPT ![l] = cache]
            /\ UNCHANGED retry
       ELSE /\ FlushEnds(l, ~known[l])
            /\ UNCHANGED todo
  /\ UNCHANGED <<storeVars, hasID, current, phase, known, flusher, enq, snap, complete, unsent,
                 history, crashes>>

\* sendToTransport takes the logs in the order of their timestamps.
IsNext(l, x) ==
  /\ x \in Stored(todo[l])
  /\ \A y \in Stored(todo[l]) : x <= y

\* Faulty: one retry too many.
MayRetryOnceMore(r) == r < RetryLimit

MayRetry(r) == r + 1 < RetryLimit

\* One SendAuditLog that does not fail because of its context: sent, refused
\* for good, or refused for now (retryable) as often as RetryLimit allows.
Send(l, x, answer) ==
  /\ pc[l] = "send" /\ IsNext(l, x)
  /\ todo' = [todo EXCEPT ![l][x] = Absent]
  /\ IF answer = "retryable" /\ MayRetry(todo[l][x])
       THEN /\ unsent' = [unsent EXCEPT ![l][x] = todo[l][x] + 1]
            /\ UNCHANGED <<complete, resolved>>
       ELSE /\ complete' = [complete EXCEPT ![l] = @ \cup {x}]
            /\ resolved' = resolved \cup {x}
            /\ UNCHANGED unsent
  /\ fails' = IF answer = "retryable" /\ fails[x] <= Limit + crashes + saveFails
                THEN [fails EXCEPT ![x] = @ + 1] ELSE fails
  /\ UNCHANGED <<storeVars, hasID, current, pc, phase, known, flusher, retry, enq, snap,
                 accepted, refused, cuts, overlaps, mine, crashes>>

\* Faulty: everything that was pending is put back, not only pending[i:].
CutKeepsAll(l) ==
  /\ pc[l] = "send" /\ Stored(todo[l]) # {}
  /\ unsent' = [unsent EXCEPT ![l] =
                  [x \in Logs |-> IF x \in complete[l] THEN 0 ELSE Appended(todo[l], @)[x]]]
  /\ todo' = [todo EXCEPT ![l] = Empty]
  /\ UNCHANGED <<storeVars, hasID, current, pc, phase, known, flusher, retry, enq, snap,
                 complete, history, crashes>>

\* A SendAuditLog fails because its context, or one within the transport, is
\* cancelled or past its deadline: the rest is not tried, and none of it has its
\* Retries raised.
Cut(l) ==
  /\ pc[l] = "send" /\ Stored(todo[l]) # {}
  /\ unsent' = [unsent EXCEPT ![l] = Appended(todo[l], @)]
  /\ todo' = [todo EXCEPT ![l] = Empty]
  /\ cuts' = [x \in Logs |-> IF IsNext(l, x) /\ cuts[x] < MaxCuts THEN cuts[x] + 1 ELSE cuts[x]]
  /\ UNCHANGED <<storeVars, hasID, current, pc, phase, known, flusher, retry, enq, snap,
                 complete, accepted, refused, resolved, fails, overlaps, mine, crashes>>

\* markTransactionsDone.
MarkLoad(l) ==
  /\ pc[l] = "send" /\ Stored(todo[l]) = {}
  /\ ~Locked(l)
  /\ Load(l)
  /\ Goto(l, "markSave")
  /\ UNCHANGED <<storeVars, hasID, current, phase, known, flusher, retry, enq, flushVars,
                 history, crashes>>

\* Faulty: what is left is taken from the flush, not from the store.
RemainingUnsent(l) == unsent[l]

Remaining(l) == [x \in Logs |-> IF x \in complete[l] THEN Absent ELSE snap[l][x]]

\* An error of this save is ignored.  With nothing to put back the flush is over.
MarkSave(l, ok) ==
  /\ pc[l] = "markSave"
  /\ Save(l, Remaining(l), ok)
  /\ IF Stored(unsent[l]) = {}
       THEN FlushEnds(l, FALSE)
       ELSE Goto(l, "append") /\ UNCHANGED retry
  /\ complete' = [complete EXCEPT ![l] = {}]
  /\ Forget(l)
  /\ UNCHANGED <<hasID, current, phase, known, flusher, enq, todo, unsent, history, crashes>>

AppendLoad(l) ==
  /\ pc[l] = "append" /\ ~Locked(l)
  /\ Load(l)
  /\ Goto(l, "appendSave")
  /\ UNCHANGED <<storeVars, hasID, current, phase, known, flusher, retry, enq, flushVars,
                 history, crashes>>

\* Faulty: the stored copies come first, and so the old Retries stay.
PutBackLast(l) == Appended(snap[l], unsent[l])

PutBack(l) == Appended(unsent[l], snap[l])

\* An error of this save is only logged.
AppendSave(l, ok) ==
  /\ pc[l] = "appendSave"
  /\ Save(l, PutBack(l), ok)
  /\ FlushEnds(l, TRUE)
  /\ unsent' = [unsent EXCEPT ![l] = Empty]
  /\ Forget(l)
  /\ UNCHANGED <<hasID, current, phase, known, flusher, enq, todo, complete, history, crashes>>

-----------------------------------------------------------------------------
\* The process ends, and another reads the file.
Crash ==
  /\ Faults < MaxFaults
  /\ crashes' = crashes + 1
  /\ cache' = disk
  /\ current' = {}
  /\ pc' = [l \in Loggers |-> IF pc[l] = "new" THEN "new" ELSE "dead"]
  /\ phase' = [l \in Loggers |-> "run"]
  /\ known' = [l \in Loggers |-> FALSE]
  /\ flusher' = [l \in Loggers |-> FALSE]
  /\ retry' = [l \in Loggers |-> FALSE]
  /\ enq' = [l \in Loggers |-> NoLog]
  /\ snap' = [l \in Loggers |-> Empty]
  /\ todo' = [l \in Loggers |-> Empty]
  /\ complete' = [l \in Loggers |-> {}]
  /\ unsent' = [l \in Loggers |-> Empty]
  /\ mine' = [l \in Loggers |-> {}]
  /\ UNCHANGED <<disk, saveFails, overwritten, hasID, accepted, refused, resolved, fails, cuts,
                 overlaps>>

-----------------------------------------------------------------------------
Answers == {"sent", "permanent", "retryable"}

SendAny(l) == \E x \in Logs, a \in Answers : Send(l, x, a)

\* The steps the goroutine that flushes for l takes by itself.
Flush(l) ==
  \/ FlushLoad(l) \/ SendAny(l) \/ Cut(l) \/ MarkLoad(l) \/ AppendLoad(l)
  \/ \E ok \in BOOLEAN : MarkSave(l, ok) \/ AppendSave(l, ok)

flushWorker(l) == WorkerStop(l) \/ WorkerFlush(l) \/ RetryFires(l)

Next ==
  \/ SetProfileID \/ ClearLogger \/ Crash
  \/ \E l \in Loggers :
       \/ startNewLogger(l) \/ FlushAndStop(l)
       \/ \E x \in Logs : Enqueue(l, x)
       \/ \E ok \in BOOLEAN : EnqueueSave(l, ok)
       \/ flushWorker(l) \/ Flush(l)

Spec == Init /\ [][Next]_vars

\* Goroutines run and timers fire; Go's select chooses at random among the cases
\* that are ready, so ctx.Done is not passed over for ever; and the transport does not
\* answer every request of a Logger with a timeout.
FairSpec ==
  /\ Spec
  /\ \A l \in Loggers :
       /\ WF_vars(Flush(l) \/ WorkerFlush(l) \/ RetryFires(l))
       /\ SF_vars(SendAny(l))
       /\ SF_vars(WorkerStop(l))
  /\ WF_vars(\E l \in Loggers, ok \in BOOLEAN : EnqueueSave(l, ok))

-----------------------------------------------------------------------------
(* Properties.                                                             *)

Stores == [Logs -> Counts]

\* The type of every variable; the Retries of a log stay below RetryLimit.
TypeOK ==
  /\ cache \in Stores /\ disk \in Stores
  /\ hasID \in BOOLEAN
  /\ current \in SUBSET Loggers
  /\ pc \in [Loggers -> {"new", "select", "load", "send", "markSave", "append",
                         "appendSave", "returned", "dead"}]
  /\ phase \in [Loggers -> {"run", "stopping", "final"}]
  /\ known \in [Loggers -> BOOLEAN]
  /\ flusher \in [Loggers -> BOOLEAN] /\ retry \in [Loggers -> BOOLEAN]
  /\ enq \in [Loggers -> Logs \cup {NoLog}]
  /\ snap \in [Loggers -> Stores]
  /\ todo \in [Loggers -> Stores] /\ unsent \in [Loggers -> Stores]
  /\ complete \in [Loggers -> SUBSET Logs]
  /\ accepted \in SUBSET Logs /\ refused \in SUBSET Logs /\ resolved \in SUBSET Logs
  /\ fails \in [Logs -> Nat] /\ cuts \in [Logs -> 0 .. MaxCuts]
  /\ overlaps \in Nat /\ overwritten \in SUBSET Logs
  /\ mine \in [Loggers -> SUBSET Logs]
  /\ crashes \in Nat /\ saveFails \in Nat

\* The doc comment of Logger: "Logs are stored to disk and retried until they
\* are successfully sent, or until they permanently fail."  A log for which
\* Enqueue has returned nil is in the file until then.
NothingLost == accepted \ resolved \subseteq Stored(disk)

\* What the code makes of that promise, whatever is enqueued meanwhile, whichever
\* saves fail, and through crashes: a log is lost only if a Logger saves what it had
\* loaded before the log was stored, and that only after two Loggers were at work at
\* the same time.
OnlyOverwrittenLost ==
  /\ accepted \ (resolved \cup overwritten) \subseteq Stored(disk)
  /\ overlaps = 0 => overwritten = {}

\* A log that was sent, or has failed for good, is not sent again, by this Logger
\* or by the next, unless the process crashed before the file was written or two
\* Loggers were at work at the same time.
NoResend ==
  crashes = 0 /\ overlaps = 0 => \A l \in Loggers : Stored(todo[l]) \cap resolved = {}

\* The doc comment of AuditLogger: an error indicates "that the action cannot be
\* logged and must not be performed".  A log whose Enqueue failed is not sent.
RefusedNotSent == \A l \in Loggers : Stored(todo[l]) \cap refused = {}

\* Retries counts retryable errors, over flushes, Loggers and crashes.  It never runs
\* ahead of them, so that no log is given up early; and it falls behind by at most one
\* error for each crash and each failed save, so that a log has no more than these and
\* RetryLimit, unless two Loggers were at work at the same time.  (Attempts that end
\* with the error of a context are not counted, by the code or here.)
RetriesBounded ==
  \A x \in Logs :
    /\ cache[x] <= fails[x] /\ disk[x] <= fails[x]
    /\ overlaps = 0 => fails[x] <= Limit + crashes + saveFails

\* Opts.RetryLimit: "the maximum number of attempts the logger will make to send a log
\* before giving up", whatever error an attempt ends with.
AttemptsWithinLimit ==
  \A x \in Logs : fails[x] + cuts[x] <= Limit + crashes + saveFails

\* A running worker that waits in its select will be woken for every log that it was
\* left or has accepted, and that is neither resolved nor overwritten: by the flusher
\* token, or by the retry timer.
FlushScheduled ==
  \A l \in Loggers :
    pc[l] = "select" /\ known[l] /\ ~(mine[l] \subseteq resolved \cup overwritten)
      => flusher[l] \/ retry[l]

\* Two Loggers are at work.
Together == \E k, l \in Loggers : k # l /\ ~Idle(k) /\ ~Idle(l)

\* A log that was accepted is sent, fails for good or is overwritten, unless no worker
\* runs any more that was left or has accepted it, or Loggers are at work together
\* again and again: they may undo each other's count of Retries.
AcceptedResolves ==
  \A x \in Logs :
    x \in accepted ~> \/ x \in resolved \cup overwritten \/ Together
                     \/ \A l \in Loggers : x \in mine[l] => Idle(l) \/ phase[l] # "run"

\* FlushAndStop returns: the worker it waits for comes to its select, although
\* flushes fail and reset the timer.
StopReturns == \A l \in Loggers : phase[l] # "run" ~> pc[l] \in {"returned", "dead"}
=============================================================================
