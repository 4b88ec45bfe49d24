-------------------------- MODULE AuditLogProofs --------------------------
(***************************************************************************)
(* Proofs about AuditLog, for every set of Loggers and of logs and every   *)
(* bound, whether Loggers overlap or not.  What a log's way through store  *)
(* and flushes needs is Fresh and Durable: a log being enqueued is not in  *)
(* the store, and one that is there leaves it when it is resolved or is    *)
(* overwritten.  As long as no two Loggers were at work at the same time,  *)
(* Alone adds that a critical section has loaded what the store still      *)
(* holds; with it Budget says how far the count in the cache, in the file  *)
(* and in the lists of a flush may be behind the errors that there were.   *)
(***************************************************************************)
EXTENDS AuditLog, TLAPS

LEMMA CountsInt == Counts \subseteq Int /\ Absent \in Counts /\ 0 \in Counts
  BY LimitIsNat DEF Counts, Absent

LEMMA EmptyStore == Empty \in Stores
  BY CountsInt DEF Empty, Stores

\* Appending two saved lists gives a saved list.
LEMMA AppendedType ==
  ASSUME NEW m \in Stores, NEW s \in Stores
  PROVE  Appended(m, s) \in Stores
  BY DEF Appended, Stores

\* What the three saves write has the type of a saved list.
LEMMA WrittenType ==
  ASSUME TypeOK, NEW l \in Loggers
  PROVE  WithNew(l) \in Stores /\ Remaining(l) \in Stores /\ PutBack(l) \in Stores
<1>1. [x \in Logs |-> IF x = enq[l] THEN 0 ELSE Absent] \in Stores
  BY CountsInt DEF Stores
<1>2. snap[l] \in Stores /\ unsent[l] \in Stores
  BY DEF TypeOK
<1>3. Remaining(l) \in Stores
  BY <1>2, CountsInt DEF Remaining, Stores
<1> QED
  BY <1>1, <1>2, <1>3, AppendedType DEF WithNew, PutBack

\* A save keeps the types of the store.
LEMMA SaveType ==
  ASSUME TypeOK, NEW l \in Loggers, NEW new \in Stores, NEW ok \in BOOLEAN, Save(l, new, ok)
  PROVE  /\ cache' \in Stores /\ disk' \in Stores /\ saveFails' \in Nat
         /\ overwritten' \in SUBSET Logs
  BY DEF Save, TypeOK, Stored

\* The end of a flush keeps the types of pc and retry.
LEMMA EndsType ==
  ASSUME TypeOK, NEW l \in Loggers, NEW err \in BOOLEAN, FlushEnds(l, err)
  PROVE  /\ pc' \in [Loggers -> {"new", "select", "load", "send", "markSave", "append",
                                 "appendSave", "returned", "dead"}]
         /\ retry' \in [Loggers -> BOOLEAN]
  BY DEF FlushEnds, Goto, TypeOK

-----------------------------------------------------------------------------
\* The actions of the extension, of Enqueue and of the worker, and the crash.
LEMMA TypeOuter ==
  ASSUME TypeOK,
         \/ SetProfileID \/ ClearLogger \/ Crash
         \/ \E l \in Loggers :
              \/ startNewLogger(l) \/ FlushAndStop(l) \/ flushWorker(l)
              \/ \E x \in Logs : Enqueue(l, x)
              \/ \E ok \in BOOLEAN : EnqueueSave(l, ok)
  PROVE  TypeOK'
<1> USE DEF storeVars, flushVars, history
<1>1. CASE SetProfileID
  BY <1>1 DEF SetProfileID, TypeOK
<1>2. CASE ClearLogger
  BY <1>2 DEF ClearLogger, TypeOK
<1>3. CASE Crash
  BY <1>3, EmptyStore DEF Crash, TypeOK, NoLog
<1>4. ASSUME NEW l \in Loggers, startNewLogger(l) PROVE TypeOK'
  BY <1>4 DEF startNewLogger, TypeOK, Goto
<1>5. ASSUME NEW l \in Loggers, FlushAndStop(l) PROVE TypeOK'
  BY <1>5 DEF FlushAndStop, TypeOK
<1>6. ASSUME NEW l \in Loggers, flushWorker(l) PROVE TypeOK'
  BY <1>6 DEF flushWorker, WorkerStop, WorkerFlush, RetryFires, TypeOK, Goto
<1>7. ASSUME NEW l \in Loggers, NEW x \in Logs, Enqueue(l, x) PROVE TypeOK'
  BY <1>7 DEF Enqueue, Load, TypeOK
<1>8. ASSUME NEW l \in Loggers, NEW ok \in BOOLEAN, EnqueueSave(l, ok) PROVE TypeOK'
  <2>1. /\ cache' \in Stores /\ disk' \in Stores /\ saveFails' \in Nat
        /\ overwritten' \in SUBSET Logs
    BY <1>8, WrittenType, SaveType DEF EnqueueSave, EnqueueEnds
  <2>2. enq[l] \in Logs
    BY <1>8 DEF EnqueueSave, EnqueueEnds, TypeOK
  <2> QED
    BY <1>8, <2>1, <2>2, EmptyStore DEF EnqueueSave, EnqueueEnds, Forget, TypeOK
<1> QED
  BY <1>1, <1>2, <1>3, <1>4, <1>5, <1>6, <1>7, <1>8

\* The actions of flush.
LEMMA TypeFlush ==
  ASSUME TypeOK, NEW l \in Loggers, Flush(l)
  PROVE  TypeOK'
<1> USE DEF storeVars, flushVars, history
<1>1. CASE FlushLoad(l)
  <2>1. CASE known[l] /\ Stored(cache) # {}
    BY <1>1, <2>1 DEF FlushLoad, Goto, TypeOK
  <2>2. CASE ~(known[l] /\ Stored(cache) # {})
    <3>1. FlushEnds(l, ~known[l]) /\ (~known[l]) \in BOOLEAN
      BY <1>1, <2>2 DEF FlushLoad
    <3> QED
      BY <1>1, <2>2, <3>1, EndsType DEF FlushLoad, TypeOK
  <2> QED BY <2>1, <2>2
<1>2. ASSUME NEW x \in Logs, NEW a \in Answers, Send(l, x, a) PROVE TypeOK'
  <2>1. todo[l] \in Stores /\ todo[l][x] \in Counts /\ unsent[l] \in Stores
    BY DEF TypeOK, Stores
  <2>2. todo' \in [Loggers -> Stores]
    <3>1. [todo[l] EXCEPT ![x] = Absent] \in Stores
      BY <2>1, CountsInt DEF Stores
    <3> QED BY <1>2, <3>1 DEF Send, TypeOK
  <2>3. unsent' \in [Loggers -> Stores]
    <3>1. CASE a = "retryable" /\ MayRetry(todo[l][x])
      <4>1. todo[l][x] + 1 \in Counts
        BY <2>1, <3>1, <1>2, LimitIsNat DEF Counts, MayRetry, Absent
      <4>2. [unsent[l] EXCEPT ![x] = todo[l][x] + 1] \in Stores
        BY <2>1, <4>1 DEF Stores
      <4> QED BY <1>2, <3>1, <4>2 DEF Send, TypeOK
    <3>2. CASE ~(a = "retryable" /\ MayRetry(todo[l][x]))
      BY <1>2, <3>2 DEF Send, TypeOK
    <3> QED BY <3>1, <3>2
  <2>4. complete' \in [Loggers -> SUBSET Logs] /\ resolved' \in SUBSET Logs
    BY <1>2 DEF Send, TypeOK
  <2>5. fails' \in [Logs -> Nat]
    BY <1>2 DEF Send, TypeOK
  <2> QED
    BY <1>2, <2>2, <2>3, <2>4, <2>5 DEF Send, TypeOK
<1>3. CASE Cut(l)
  <2>1. Appended(todo[l], unsent[l]) \in Stores
    BY AppendedType DEF TypeOK
  <2>2. cuts' \in [Logs -> 0 .. MaxCuts]
    BY <1>3, CutsIsNat DEF Cut, TypeOK
  <2> QED BY <1>3, <2>1, <2>2, EmptyStore DEF Cut, TypeOK
<1>4. CASE MarkLoad(l) \/ AppendLoad(l)
  BY <1>4 DEF MarkLoad, AppendLoad, Load, Goto, TypeOK
<1>5. ASSUME NEW ok \in BOOLEAN, MarkSave(l, ok) PROVE TypeOK'
  <2>1. /\ cache' \in Stores /\ disk' \in Stores /\ saveFails' \in Nat
        /\ overwritten' \in SUBSET Logs
    BY <1>5, WrittenType, SaveType DEF MarkSave
  <2>2. /\ pc' \in [Loggers -> {"new", "select", "load", "send", "markSave", "append",
                                "appendSave", "returned", "dead"}]
        /\ retry' \in [Loggers -> BOOLEAN]
    <3>1. CASE Stored(unsent[l]) = {}
      BY <1>5, <3>1, EndsType DEF MarkSave
    <3>2. CASE Stored(unsent[l]) # {}
      BY <1>5, <3>2 DEF MarkSave, Goto, TypeOK
    <3> QED BY <3>1, <3>2
  <2> QED BY <1>5, <2>1, <2>2, EmptyStore DEF MarkSave, Forget, TypeOK
<1>6. ASSUME NEW ok \in BOOLEAN, AppendSave(l, ok) PROVE TypeOK'
  <2>1. /\ cache' \in Stores /\ disk' \in Stores /\ saveFails' \in Nat
        /\ overwritten' \in SUBSET Logs
    BY <1>6, WrittenType, SaveType DEF AppendSave
  <2> QED BY <1>6, <2>1, EndsType, EmptyStore DEF AppendSave, Forget, TypeOK
<1> QED
  BY <1>1, <1>2, <1>3, <1>4, <1>5, <1>6 DEF Flush, SendAny

LEMMA InitType == Init => TypeOK
  BY EmptyStore, CutsIsNat DEF Init, TypeOK, NoLog

LEMMA TypeStep == TypeOK /\ [Next]_vars => TypeOK'
<1> SUFFICES ASSUME TypeOK, [Next]_vars PROVE TypeOK'
  OBVIOUS
<1>1. CASE Next
  BY <1>1, TypeOuter, TypeFlush DEF Next
<1>2. CASE UNCHANGED vars
  BY <1>2 DEF vars, storeVars, flushVars, history, TypeOK
<1> QED BY <1>1, <1>2

\* Every variable keeps its type; the Retries that are saved stay below the
\* limit whatever RetryLimit is, 0 included.
THEOREM TypeCorrect == Spec => []TypeOK
  BY InitType, TypeStep, PTL DEF Spec

-----------------------------------------------------------------------------
(* The inductive invariant, in parts.                                      *)

\* A Logger that is enqueueing is the current one, alone in doing so (it runs
\* under LocalBackend.mu), is not in another critical section of its own mu,
\* and its log is new.
Enqueueing ==
  \A l \in Loggers : enq[l] # NoLog =>
    /\ l \in current
    /\ pc[l] \notin {"markSave", "appendSave"}
    /\ enq[l] \notin accepted \cup refused
    /\ \A k \in Loggers : enq[k] # NoLog => k = l

\* extension.logger is one Logger or none.
CurrentOne == \A l, k \in current : l = k

Control == TypeOK /\ Enqueueing /\ CurrentOne

\* Only logs that were enqueued are stored, loaded, or handled by a flush.
Fresh ==
  /\ Stored(cache) \subseteq accepted \cup refused
  /\ Stored(disk) \subseteq accepted \cup refused
  /\ \A l \in Loggers : /\ Stored(snap[l]) \subseteq accepted \cup refused
                        /\ Stored(todo[l]) \subseteq accepted \cup refused
                        /\ Stored(unsent[l]) \subseteq accepted \cup refused

\* What a flush removes from the store is resolved.
CompleteResolved == \A l \in Loggers : complete[l] \subseteq resolved

\* An accepted log that is neither resolved nor overwritten is in the cache and in
\* the file.
Durable == accepted \ (resolved \cup overwritten) \subseteq Stored(cache) \cap Stored(disk)

\* The parts that speak of the contents of the store and of the flushes.
Contents == Fresh /\ CompleteResolved /\ Durable

DurableInv == Control /\ Contents

\* At most one Logger has a worker or a final flush, and no other is current.
Solo == \A l, k \in Loggers : ~Idle(l) /\ k # l => Idle(k) /\ k \notin current

\* The critical section that holds a mu has seen the store as it is.
Seen == \A l \in Loggers : Locked(l) => snap[l] = cache

\* What holds until a Logger starts while another is at work.
Alone == Solo /\ Seen /\ overwritten = {}

AloneInv == DurableInv /\ (overlaps = 0 => Alone)

\* The lists of a flush are empty where it has not filled them, or has used them.
Scratch ==
  \A l \in Loggers :
    /\ pc[l] # "send" => Stored(todo[l]) = {}
    /\ pc[l] \notin {"send", "markSave", "append", "appendSave"} => Stored(unsent[l]) = {}
    /\ pc[l] \notin {"send", "markSave"} => complete[l] = {}

\* The logs that the Logger l is to see through.
Duty(l) == mine[l] \ (resolved \cup overwritten)

\* A flush has in hand every log that its Logger is to see through, except those for
\* which a token has been left.
InHand ==
  \A l \in Loggers : \A x \in Duty(l) :
    /\ pc[l] = "send" => flusher[l] \/ x \in Stored(todo[l]) \/ x \in Stored(unsent[l])
    /\ pc[l] \in {"markSave", "append", "appendSave"} => flusher[l] \/ x \in Stored(unsent[l])

\* Nothing is accepted or being enqueued, and no Logger has an ID, before the
\* profile has one.
IDFirst ==
  /\ ~hasID => accepted = {} /\ \A l \in Loggers : ~known[l] /\ enq[l] = NoLog
  /\ \A l \in Loggers : mine[l] \subseteq accepted

ScheduleInv == DurableInv /\ Scratch /\ InHand /\ IDFirst /\ FlushScheduled

\* As long as nothing crashes, the resolved logs that are still in the cache are
\* those a flush is about to remove, ...
ToBeRemoved ==
  /\ resolved \subseteq accepted \cup refused
  /\ \A l \in Loggers : Stored(todo[l]) \cap Stored(unsent[l]) = {}
  /\ crashes = 0 =>
       /\ \A x \in Stored(cache) \cap resolved : \E l \in Loggers : x \in complete[l]
       /\ \A l \in Loggers : Stored(unsent[l]) \cap resolved = {}

\* ... and none of them is about to be sent.
NotAgain == crashes = 0 => \A l \in Loggers : Stored(todo[l]) \cap resolved = {}

ResendInv == AloneInv /\ Scratch /\ (overlaps = 0 => ToBeRemoved /\ NotAgain)

-----------------------------------------------------------------------------
(* What the actions do to the sets of stored logs.                         *)

LEMMA StoredEmpty == Stored(Empty) = {}
  BY DEF Stored, Empty

LEMMA StoredAppended ==
  ASSUME NEW m \in Stores, NEW s \in Stores
  PROVE  Stored(Appended(m, s)) = Stored(m) \cup Stored(s)
  BY DEF Stored, Appended

LEMMA StoredWritten ==
  ASSUME TypeOK, NEW l \in Loggers
  PROVE  /\ enq[l] # NoLog => Stored(WithNew(l)) = Stored(snap[l]) \cup {enq[l]}
         /\ Stored(Remaining(l)) = Stored(snap[l]) \ complete[l]
         /\ Stored(PutBack(l)) = Stored(unsent[l]) \cup Stored(snap[l])
<1>1. snap[l] \in Stores /\ unsent[l] \in Stores
  BY DEF TypeOK
<1>2. Stored(Remaining(l)) = Stored(snap[l]) \ complete[l]
  BY DEF Stored, Remaining
<1>3. ASSUME enq[l] # NoLog PROVE Stored(WithNew(l)) = Stored(snap[l]) \cup {enq[l]}
  <2> DEFINE m == [x \in Logs |-> IF x = enq[l] THEN 0 ELSE Absent]
  <2>1. m \in Stores
    BY CountsInt DEF Stores
  <2>2. enq[l] \in Logs
    BY <1>3 DEF TypeOK
  <2>3. Stored(m) = {enq[l]}
    BY <2>2 DEF Stored, Absent
  <2> QED
    BY <1>1, <2>1, <2>3, StoredAppended DEF WithNew
<1> QED
  BY <1>1, <1>2, <1>3, StoredAppended DEF PutBack

\* A save leaves the new list in the cache, and in the file if it succeeds,
\* unless there was nothing to write.
LEMMA SaveEffect ==
  ASSUME NEW l, NEW new, NEW ok \in BOOLEAN, Save(l, new, ok)
  PROVE  /\ cache' = new
         /\ disk' = new \/ disk' = disk
         /\ ok /\ new # cache => disk' = new
         /\ overwritten' =
              overwritten \cup (Stored(cache) \ (Stored(snap[l]) \cup Stored(new)))
  BY DEF Save

LEMMA SendEffect ==
  ASSUME TypeOK, NEW l \in Loggers, NEW x \in Logs, NEW a \in Answers, Send(l, x, a)
  PROVE  /\ pc[l] = "send" /\ x \in Stored(todo[l])
         /\ Stored(todo'[l]) = Stored(todo[l]) \ {x}
         /\ \/ /\ Stored(unsent'[l]) = Stored(unsent[l]) \cup {x}
               /\ complete' = complete /\ resolved' = resolved
            \/ /\ unsent' = unsent
               /\ complete' = [complete EXCEPT ![l] = @ \cup {x}]
               /\ resolved' = resolved \cup {x}
         /\ \A k \in Loggers : k # l => todo'[k] = todo[k] /\ unsent'[k] = unsent[k]
<1>1. todo[l] \in Stores /\ unsent[l] \in Stores /\ todo[l][x] \in Counts
  BY DEF TypeOK, Stores
<1>2. pc[l] = "send" /\ x \in Stored(todo[l])
  BY DEF Send, IsNext
<1>3. Stored(todo'[l]) = Stored(todo[l]) \ {x}
  BY <1>1 DEF Send, Stored, TypeOK, Stores
<1>4. ASSUME unsent' = [unsent EXCEPT ![l][x] = todo[l][x] + 1]
      PROVE  Stored(unsent'[l]) = Stored(unsent[l]) \cup {x}
  <2>1. todo[l][x] + 1 # Absent
    BY <1>1, <1>2, LimitIsNat DEF Counts, Stored, Absent
  <2> QED
    BY <1>1, <1>4, <2>1 DEF Stored, TypeOK, Stores
<1>5. \A k \in Loggers : k # l => todo'[k] = todo[k] /\ unsent'[k] = unsent[k]
  BY DEF Send, TypeOK
<1> QED
  BY <1>2, <1>3, <1>4, <1>5 DEF Send

LEMMA CutEffect ==
  ASSUME TypeOK, NEW l \in Loggers, Cut(l)
  PROVE  /\ pc[l] = "send"
         /\ Stored(todo'[l]) = {}
         /\ Stored(unsent'[l]) = Stored(todo[l]) \cup Stored(unsent[l])
         /\ \A k \in Loggers : k # l => todo'[k] = todo[k] /\ unsent'[k] = unsent[k]
<1>1. todo[l] \in Stores /\ unsent[l] \in Stores
  BY DEF TypeOK
<1>2. todo'[l] = Empty /\ unsent'[l] = Appended(todo[l], unsent[l])
  BY DEF Cut, TypeOK
<1> QED
  BY <1>1, <1>2, StoredEmpty, StoredAppended DEF Cut, TypeOK

\* The goroutine that flushes for l moves only itself.
LEMMA FlushFrame ==
  ASSUME TypeOK, NEW l \in Loggers, flushWorker(l) \/ Flush(l)
  PROVE  /\ ~Idle(l)
         /\ \A k \in Loggers : k # l => pc'[k] = pc[k]
         /\ pc'[l] \in {"markSave", "appendSave"} => enq[l] = NoLog
         /\ UNCHANGED <<enq, current, accepted, refused, hasID, known, mine, overlaps, crashes>>
<1> USE DEF storeVars, flushVars, history, Goto, Idle
<1>1. CASE flushWorker(l)
  BY <1>1 DEF flushWorker, WorkerStop, WorkerFlush, RetryFires, TypeOK
<1>2. CASE FlushLoad(l)
  BY <1>2 DEF FlushLoad, FlushEnds, TypeOK
<1>3. CASE SendAny(l) \/ Cut(l)
  BY <1>3 DEF SendAny, Send, Cut
<1>4. CASE MarkLoad(l) \/ AppendLoad(l)
  BY <1>4 DEF MarkLoad, AppendLoad, Locked, TypeOK
<1>5. ASSUME NEW ok \in BOOLEAN, MarkSave(l, ok) \/ AppendSave(l, ok) PROVE 
         /\ ~Idle(l)
         /\ \A k \in Loggers : k # l => pc'[k] = pc[k]
         /\ pc'[l] \in {"markSave", "appendSave"} => enq[l] = NoLog
         /\ UNCHANGED <<enq, current, accepted, refused, hasID, known, mine, overlaps, crashes>>
  BY <1>5 DEF MarkSave, AppendSave, FlushEnds, TypeOK
<1> QED
  BY <1>1, <1>2, <1>3, <1>4, <1>5 DEF Flush

-----------------------------------------------------------------------------
(* Who holds what.                                                         *)

LEMMA ControlStep ==
  ASSUME Control, [Next]_vars
  PROVE  Control'
<1> USE DEF storeVars, flushVars, history
<1>0. TypeOK /\ TypeOK'
  BY TypeStep DEF Control
<1>1. CASE SetProfileID \/ (\E l \in Loggers : FlushAndStop(l)) \/ UNCHANGED vars
  BY <1>0, <1>1 DEF SetProfileID, FlushAndStop, vars, Control, Enqueueing, CurrentOne
<1>2. CASE ClearLogger
  BY <1>0, <1>2 DEF ClearLogger, BackendFree, Control, Enqueueing, CurrentOne
<1>3. CASE Crash
  BY <1>0, <1>3 DEF Crash, Control, Enqueueing, CurrentOne
<1>4. ASSUME NEW l \in Loggers, startNewLogger(l) PROVE Control'
  BY <1>0, <1>4 DEF startNewLogger, Goto, BackendFree, TypeOK, Control, Enqueueing, CurrentOne
<1>5. ASSUME NEW l \in Loggers, NEW x \in Logs, Enqueue(l, x) PROVE Control'
  BY <1>0, <1>5 DEF Enqueue, BackendFree, Locked, TypeOK, Control, Enqueueing, CurrentOne
<1>6. ASSUME NEW l \in Loggers, NEW ok \in BOOLEAN, EnqueueSave(l, ok) PROVE Control'
  BY <1>0, <1>6 DEF EnqueueSave, EnqueueEnds, TypeOK, Control, Enqueueing, CurrentOne
<1>7. ASSUME NEW l \in Loggers, flushWorker(l) \/ Flush(l) PROVE Control'
  BY <1>0, <1>7, FlushFrame DEF Control, Enqueueing, CurrentOne
<1> QED
  BY <1>1, <1>2, <1>3, <1>4, <1>5, <1>6, <1>7 DEF Next

\* The count of overlaps does not go down, and goes up when a Logger starts while
\* another is at work.
LEMMA OverlapsUp ==
  ASSUME TypeOK, [Next]_vars, overlaps' = 0
  PROVE  /\ overlaps = 0
         /\ \A l \in Loggers : startNewLogger(l) => \A k \in Loggers : Idle(k)
<1> USE DEF storeVars, flushVars, history
<1>1. ASSUME NEW l \in Loggers, startNewLogger(l)
      PROVE  overlaps = 0 /\ \A k \in Loggers : Idle(k)
  BY <1>1 DEF startNewLogger, TypeOK
<1>2. CASE SetProfileID \/ ClearLogger \/ Crash \/ UNCHANGED vars
  BY <1>1, <1>2 DEF SetProfileID, ClearLogger, Crash, vars
<1>3. ASSUME NEW l \in Loggers,
             \/ FlushAndStop(l) \/ (\E x \in Logs : Enqueue(l, x))
             \/ \E ok \in BOOLEAN : EnqueueSave(l, ok)
      PROVE  overlaps = 0
  BY <1>3 DEF FlushAndStop, Enqueue, EnqueueSave, EnqueueEnds
<1>4. ASSUME NEW l \in Loggers, flushWorker(l) \/ Flush(l) PROVE overlaps = 0
  BY <1>4, FlushFrame
<1> QED
  BY <1>1, <1>2, <1>3, <1>4 DEF Next

LEMMA SoloStep ==
  ASSUME Control, Solo, [Next]_vars, overlaps' = 0
  PROVE  Solo'
<1> USE DEF storeVars, flushVars, history
<1>0. TypeOK
  BY DEF Control
<1>1. CASE SetProfileID \/ ClearLogger \/ (\E l \in Loggers : FlushAndStop(l)) \/ UNCHANGED vars
  BY <1>1 DEF SetProfileID, ClearLogger, FlushAndStop, vars, Solo, Idle
<1>2. CASE Crash
  BY <1>2 DEF Crash, Solo, Idle
<1>3. ASSUME NEW l \in Loggers, startNewLogger(l) PROVE Solo'
  <2>1. \A k \in Loggers : Idle(k)
    BY <1>0, <1>3, OverlapsUp
  <2> QED BY <1>0, <1>3, <2>1 DEF startNewLogger, Goto, TypeOK, Solo, Idle
<1>4. ASSUME NEW l \in Loggers,
             (\E x \in Logs : Enqueue(l, x)) \/ \E ok \in BOOLEAN : EnqueueSave(l, ok)
      PROVE  Solo'
  BY <1>4 DEF Enqueue, EnqueueSave, EnqueueEnds, Solo, Idle
<1>5. ASSUME NEW l \in Loggers, flushWorker(l) \/ Flush(l) PROVE Solo'
  BY <1>0, <1>5, FlushFrame DEF Solo, Idle
<1> QED
  BY <1>1, <1>2, <1>3, <1>4, <1>5 DEF Next

\* No two Loggers are in a critical section.
LEMMA OneHolder ==
  ASSUME Control, Solo, NEW l \in Loggers, NEW k \in Loggers, Locked(l), Locked(k)
  PROVE  l = k
  BY DEF Control, Enqueueing, CurrentOne, Solo, Idle, Locked

\* After a save nobody is in a critical section.
LEMMA Released ==
  ASSUME Control, Solo, NEW l \in Loggers, NEW ok \in BOOLEAN,
         EnqueueSave(l, ok) \/ MarkSave(l, ok) \/ AppendSave(l, ok)
  PROVE  /\ Locked(l)
         /\ \A k \in Loggers : ~Locked(k)'
<1> USE DEF Control
<1>1. CASE EnqueueSave(l, ok)
  <2>1. Locked(l) /\ pc' = pc /\ enq' = [enq EXCEPT ![l] = NoLog]
    BY <1>1 DEF EnqueueSave, EnqueueEnds, Locked
  <2>2. enq[l] # NoLog /\ pc[l] \notin {"markSave", "appendSave"}
    BY <1>1 DEF EnqueueSave, EnqueueEnds, Enqueueing
  <2>3. \A k \in Loggers : k # l => ~Locked(k)
    BY <2>1, OneHolder
  <2>4. enq'[l] = NoLog /\ \A k \in Loggers : k # l => enq'[k] = enq[k]
    BY <2>1 DEF TypeOK
  <2> QED BY <2>1, <2>2, <2>3, <2>4 DEF Locked
<1>2. CASE MarkSave(l, ok) \/ AppendSave(l, ok)
  <2>1. /\ Locked(l) /\ enq' = enq /\ enq[l] = NoLog
        /\ pc'[l] \notin {"markSave", "appendSave"}
        /\ \A k \in Loggers : k # l => pc'[k] = pc[k]
    BY <1>2 DEF MarkSave, AppendSave, FlushEnds, Goto, Locked, Enqueueing, TypeOK
  <2> QED BY <2>1, OneHolder DEF Locked
<1> QED BY <1>1, <1>2

LEMMA SeenStep ==
  ASSUME Control, Solo, Seen, [Next]_vars
  PROVE  Seen'
<1> USE DEF storeVars, flushVars, history
<1>0. TypeOK
  BY DEF Control
<1>1. CASE SetProfileID \/ ClearLogger \/ UNCHANGED vars
  BY <1>1 DEF SetProfileID, ClearLogger, vars, Seen, Locked
<1>2. CASE Crash
  BY <1>2 DEF Crash, Seen, Locked
<1>3. ASSUME NEW l \in Loggers, startNewLogger(l) \/ FlushAndStop(l) \/ flushWorker(l) PROVE Seen'
  BY <1>0, <1>3 DEF startNewLogger, FlushAndStop, flushWorker, WorkerStop, WorkerFlush,
                    RetryFires, Goto, TypeOK, Seen, Locked
<1>4. ASSUME NEW l \in Loggers, NEW x \in Logs, Enqueue(l, x) PROVE Seen'
  BY <1>0, <1>4 DEF Enqueue, Load, TypeOK, Seen, Locked
<1>5. ASSUME NEW l \in Loggers, NEW ok \in BOOLEAN,
             EnqueueSave(l, ok) \/ MarkSave(l, ok) \/ AppendSave(l, ok)
      PROVE  Seen'
  BY <1>5, Released DEF Seen
<1>6. ASSUME NEW l \in Loggers, FlushLoad(l) PROVE Seen'
  BY <1>0, <1>6 DEF FlushLoad, FlushEnds, Goto, TypeOK, Seen, Locked
<1>7. ASSUME NEW l \in Loggers, SendAny(l) \/ Cut(l) PROVE Seen'
  BY <1>7 DEF SendAny, Send, Cut, Seen, Locked
<1>8. ASSUME NEW l \in Loggers, MarkLoad(l) \/ AppendLoad(l) PROVE Seen'
  BY <1>0, <1>8 DEF MarkLoad, AppendLoad, Load, Goto, TypeOK, Seen, Locked
<1> QED
  BY <1>1, <1>2, <1>3, <1>4, <1>5, <1>6, <1>7, <1>8 DEF Next, Flush

-----------------------------------------------------------------------------
(* Only what is overwritten is lost.                                       *)

\* The actions that change neither the store nor the lists of a flush.
LEMMA ContentsFrame ==
  ASSUME Contents,
         UNCHANGED <<cache, disk, overwritten, todo, unsent, complete, accepted, resolved>>,
         \A k \in Loggers : snap'[k] = snap[k] \/ snap'[k] = cache,
         refused \subseteq refused'
  PROVE  Contents'
  BY DEF Contents, Fresh, CompleteResolved, Durable

LEMMA ContentsStep ==
  ASSUME Control, Contents, [Next]_vars
  PROVE  Contents'
<1> USE DEF storeVars, flushVars, history
<1>0. TypeOK
  BY DEF Control
<1>1. CASE SetProfileID \/ ClearLogger \/ UNCHANGED vars
  BY <1>1, ContentsFrame DEF SetProfileID, ClearLogger, vars
<1>2. CASE Crash
  BY <1>2, StoredEmpty DEF Crash, Contents, Fresh, CompleteResolved, Durable
<1>3. ASSUME NEW l \in Loggers, startNewLogger(l) \/ FlushAndStop(l) \/ flushWorker(l)
      PROVE  Contents'
  BY <1>3, ContentsFrame DEF startNewLogger, FlushAndStop, flushWorker, WorkerStop, WorkerFlush,
                             RetryFires
<1>4. ASSUME NEW l \in Loggers, NEW x \in Logs, Enqueue(l, x) PROVE Contents'
  <2>1. \A k \in Loggers : snap'[k] = snap[k] \/ snap'[k] = cache
    BY <1>0, <1>4 DEF Enqueue, Load, TypeOK
  <2> QED BY <1>4, <2>1, ContentsFrame DEF Enqueue
<1>5. ASSUME NEW l \in Loggers, NEW ok \in BOOLEAN, EnqueueSave(l, ok) PROVE Contents'
  <2>1. enq[l] # NoLog /\ enq[l] \notin accepted \cup refused
    BY <1>5 DEF EnqueueSave, EnqueueEnds, Control, Enqueueing
  <2>2. Stored(WithNew(l)) = Stored(snap[l]) \cup {enq[l]}
    BY <1>0, <2>1, StoredWritten
  <2>3. enq[l] \notin Stored(cache)
    BY <2>1 DEF Contents, Fresh
  <2>4. WithNew(l) # cache
    BY <2>2, <2>3
  <2>5. /\ cache' = WithNew(l)
        /\ disk' = WithNew(l) \/ disk' = disk
        /\ ok => disk' = WithNew(l)
        /\ overwritten' =
             overwritten \cup (Stored(cache) \ (Stored(snap[l]) \cup Stored(WithNew(l))))
    BY <1>5, <2>4, SaveEffect DEF EnqueueSave, EnqueueEnds
  <2>6. /\ accepted' = IF ok THEN accepted \cup {enq[l]} ELSE accepted
        /\ refused' = IF ok THEN refused ELSE refused \cup {enq[l]}
        /\ UNCHANGED <<todo, unsent, complete, resolved>>
    BY <1>5 DEF EnqueueSave, EnqueueEnds
  <2>7. \A k \in Loggers : Stored(snap'[k]) \subseteq Stored(snap[k])
    BY <1>0, <1>5, StoredEmpty DEF EnqueueSave, EnqueueEnds, Forget, TypeOK
  <2>8. Fresh'
    BY <2>2, <2>5, <2>6, <2>7 DEF Contents, Fresh
  <2>9. Durable'
    <3>1. CASE ok
      BY <2>2, <2>5, <2>6, <3>1 DEF Contents, Durable
    <3>2. CASE ~ok
      BY <2>2, <2>5, <2>6, <3>2 DEF Contents, Durable
    <3> QED BY <3>1, <3>2
  <2> QED
    BY <2>6, <2>8, <2>9 DEF Contents, CompleteResolved
<1>6. ASSUME NEW l \in Loggers, NEW ok \in BOOLEAN, MarkSave(l, ok) PROVE Contents'
  <2>2. Stored(Remaining(l)) = Stored(snap[l]) \ complete[l]
    BY <1>0, StoredWritten
  <2>3. /\ cache' = Remaining(l) /\ (disk' = Remaining(l) \/ disk' = disk)
        /\ overwritten' =
             overwritten \cup (Stored(cache) \ (Stored(snap[l]) \cup Stored(Remaining(l))))
    BY <1>6, SaveEffect DEF MarkSave
  <2>4. UNCHANGED <<todo, unsent, accepted, refused, resolved>>
        /\ complete' = [complete EXCEPT ![l] = {}]
    BY <1>6 DEF MarkSave
  <2>5. complete[l] \subseteq resolved
    BY DEF Contents, CompleteResolved
  <2>6. \A k \in Loggers : Stored(snap'[k]) \subseteq Stored(snap[k])
    BY <1>0, <1>6, StoredEmpty DEF MarkSave, Forget, TypeOK
  <2>7. Fresh' /\ Durable'
    BY <2>2, <2>3, <2>4, <2>5, <2>6 DEF Contents, Fresh, Durable
  <2>8. CompleteResolved'
    BY <1>0, <2>4 DEF Contents, CompleteResolved, TypeOK
  <2> QED
    BY <2>7, <2>8 DEF Contents
<1>7. ASSUME NEW l \in Loggers, NEW ok \in BOOLEAN, AppendSave(l, ok) PROVE Contents'
  <2>2. Stored(PutBack(l)) = Stored(unsent[l]) \cup Stored(snap[l])
    BY <1>0, StoredWritten
  <2>3. /\ cache' = PutBack(l) /\ (disk' = PutBack(l) \/ disk' = disk)
        /\ overwritten' =
             overwritten \cup (Stored(cache) \ (Stored(snap[l]) \cup Stored(PutBack(l))))
    BY <1>7, SaveEffect DEF AppendSave
  <2>4. UNCHANGED <<todo, complete, accepted, refused, resolved>>
        /\ unsent' = [unsent EXCEPT ![l] = Empty]
    BY <1>7 DEF AppendSave
  <2>5. \A k \in Loggers : /\ Stored(unsent'[k]) \subseteq Stored(unsent[k])
                          /\ Stored(snap'[k]) \subseteq Stored(snap[k])
    BY <1>0, <1>7, <2>4, StoredEmpty DEF AppendSave, Forget, TypeOK
  <2>6. Fresh'
    BY <2>2, <2>3, <2>4, <2>5 DEF Contents, Fresh
  <2> QED
    BY <2>2, <2>3, <2>4, <2>6 DEF Contents, CompleteResolved, Durable
<1>8. ASSUME NEW l \in Loggers, FlushLoad(l) PROVE Contents'
  <2>1. \A k \in Loggers : todo'[k] = todo[k] \/ todo'[k] = cache
    BY <1>0, <1>8 DEF FlushLoad, TypeOK
  <2>2. UNCHANGED <<cache, disk, overwritten, snap, unsent, complete, accepted, refused, resolved>>
    BY <1>8 DEF FlushLoad
  <2> QED
    BY <2>1, <2>2 DEF Contents, Fresh, CompleteResolved, Durable
<1>9. ASSUME NEW l \in Loggers, NEW x \in Logs, NEW a \in Answers, Send(l, x, a) PROVE Contents'
  <2>1. UNCHANGED <<cache, disk, overwritten, snap, accepted, refused>> /\ resolved \subseteq resolved'
    BY <1>9 DEF Send
  <2>2. x \in Stored(todo[l]) /\ x \in accepted \cup refused
    BY <1>0, <1>9, SendEffect DEF Contents, Fresh
  <2>3. \A k \in Loggers : /\ Stored(todo'[k]) \subseteq accepted \cup refused
                          /\ Stored(unsent'[k]) \subseteq accepted \cup refused
    BY <1>0, <1>9, <2>2, SendEffect DEF Contents, Fresh
  <2>4. CompleteResolved'
    BY <1>0, <1>9 DEF Send, Contents, CompleteResolved, TypeOK
  <2> QED
    BY <2>1, <2>3, <2>4 DEF Contents, Fresh, Durable
<1>10. ASSUME NEW l \in Loggers, Cut(l) PROVE Contents'
  <2>1. UNCHANGED <<cache, disk, overwritten, snap, complete, accepted, refused, resolved>>
    BY <1>10 DEF Cut
  <2>2. \A k \in Loggers : /\ Stored(todo'[k]) \subseteq accepted \cup refused
                          /\ Stored(unsent'[k]) \subseteq accepted \cup refused
    BY <1>0, <1>10, CutEffect DEF Contents, Fresh
  <2> QED
    BY <2>1, <2>2 DEF Contents, Fresh, CompleteResolved, Durable
<1>11. ASSUME NEW l \in Loggers, MarkLoad(l) \/ AppendLoad(l) PROVE Contents'
  <2>1. \A k \in Loggers : snap'[k] = snap[k] \/ snap'[k] = cache
    BY <1>0, <1>11 DEF MarkLoad, AppendLoad, Load, TypeOK
  <2> QED BY <1>11, <2>1, ContentsFrame DEF MarkLoad, AppendLoad
<1> QED
  BY <1>1, <1>2, <1>3, <1>4, <1>5, <1>6, <1>7, <1>8, <1>9, <1>10, <1>11 DEF Next, Flush, SendAny

LEMMA InitDurable == Init => AloneInv
<1> SUFFICES ASSUME Init PROVE AloneInv
  OBVIOUS
<1>1. Enqueueing /\ CurrentOne /\ Solo /\ Seen /\ overwritten = {}
  BY DEF Init, Enqueueing, CurrentOne, Solo, Idle, Seen, Locked
<1>2. Fresh /\ CompleteResolved /\ Durable
  BY StoredEmpty DEF Init, Fresh, CompleteResolved, Durable
<1> QED
  BY <1>1, <1>2, InitType DEF AloneInv, Alone, DurableInv, Contents, Control

LEMMA DurableStep == DurableInv /\ [Next]_vars => DurableInv'
  BY ControlStep, ContentsStep DEF DurableInv

\* A save whose Logger has loaded what the store holds overwrites nothing.
LEMMA NothingOverwritten ==
  ASSUME Alone, [Next]_vars
  PROVE  overwritten' = {}
<1> USE DEF storeVars, flushVars, history
<1>1. CASE SetProfileID \/ ClearLogger \/ Crash \/ UNCHANGED vars
  BY <1>1 DEF SetProfileID, ClearLogger, Crash, vars, Alone
<1>2. ASSUME NEW l \in Loggers,
             startNewLogger(l) \/ FlushAndStop(l) \/ (\E x \in Logs : Enqueue(l, x))
      PROVE  overwritten' = {}
  BY <1>2 DEF startNewLogger, FlushAndStop, Enqueue, Alone
<1>3. ASSUME NEW l \in Loggers,
             \/ flushWorker(l) \/ FlushLoad(l) \/ SendAny(l) \/ Cut(l) \/ MarkLoad(l)
             \/ AppendLoad(l)
      PROVE  overwritten' = {}
  BY <1>3 DEF flushWorker, WorkerStop, WorkerFlush, RetryFires, FlushLoad, SendAny, Send, Cut,
              MarkLoad, AppendLoad, Alone
<1>4. ASSUME NEW l \in Loggers, NEW ok \in BOOLEAN,
             EnqueueSave(l, ok) \/ MarkSave(l, ok) \/ AppendSave(l, ok)
      PROVE  overwritten' = {}
  <2>1. Locked(l) /\ \E new : Save(l, new, ok)
    BY <1>4 DEF EnqueueSave, EnqueueEnds, MarkSave, AppendSave, Locked
  <2>2. snap[l] = cache
    BY <2>1 DEF Alone, Seen
  <2> QED BY <2>1, <2>2, SaveEffect DEF Alone
<1> QED
  BY <1>1, <1>2, <1>3, <1>4 DEF Next, Flush

LEMMA AloneStep == AloneInv /\ [Next]_vars => AloneInv'
<1> SUFFICES ASSUME AloneInv, [Next]_vars PROVE AloneInv'
  OBVIOUS
<1>1. DurableInv'
  BY DurableStep DEF AloneInv
<1>2. ASSUME overlaps' = 0 PROVE Alone'
  <2>1. TypeOK /\ Control
    BY DEF AloneInv, DurableInv, Control
  <2>2. Alone
    BY <1>2, <2>1, OverlapsUp DEF AloneInv
  <2> QED BY <1>2, <2>1, <2>2, SoloStep, SeenStep, NothingOverwritten DEF Alone
<1> QED BY <1>1, <1>2 DEF AloneInv

\* An accepted log is in the file until it is resolved, unless a Logger saves what it
\* had loaded before; and that happens only after Loggers have been at work at the same
\* time: for any number of Loggers, logs, crashes and failed saves.
THEOREM OnlyOverwrittenLostHolds == Spec => []OnlyOverwrittenLost
<1>1. AloneInv => OnlyOverwrittenLost
  BY DEF AloneInv, Alone, DurableInv, Contents, Durable, OnlyOverwrittenLost
<1> QED
  BY InitDurable, AloneStep, <1>1, PTL DEF Spec

-----------------------------------------------------------------------------
(* The lists of a flush.                                                   *)

Flushing == {"send", "markSave", "append", "appendSave"}

\* The goroutines other than those that flush stay where they are, as far as a
\* flush is concerned.
LEMMA OuterFrame ==
  ASSUME TypeOK,
         \/ SetProfileID \/ ClearLogger \/ UNCHANGED vars
         \/ \E l \in Loggers :
              \/ startNewLogger(l) \/ FlushAndStop(l) \/ flushWorker(l)
              \/ \E x \in Logs : Enqueue(l, x)
              \/ \E ok \in BOOLEAN : EnqueueSave(l, ok)
  PROVE  /\ UNCHANGED <<todo, unsent, complete, resolved, crashes>>
         /\ \A k \in Loggers : pc'[k] = pc[k] \/ {pc[k], pc'[k]} \cap Flushing = {}
<1> USE DEF storeVars, flushVars, history, Flushing
<1>1. CASE SetProfileID \/ ClearLogger \/ UNCHANGED vars
  BY <1>1 DEF SetProfileID, ClearLogger, vars
<1>2. ASSUME NEW l \in Loggers, startNewLogger(l) \/ FlushAndStop(l) \/ flushWorker(l)
      PROVE  /\ UNCHANGED <<todo, unsent, complete, resolved, crashes>>
             /\ \A k \in Loggers : pc'[k] = pc[k] \/ {pc[k], pc'[k]} \cap Flushing = {}
  BY <1>2 DEF startNewLogger, FlushAndStop, flushWorker, WorkerStop, WorkerFlush, RetryFires,
              Goto, TypeOK
<1>3. ASSUME NEW l \in Loggers, (\E x \in Logs : Enqueue(l, x))
                                  \/ (\E ok \in BOOLEAN : EnqueueSave(l, ok))
      PROVE  UNCHANGED <<pc, todo, unsent, complete, resolved, crashes>>
  BY <1>3 DEF Enqueue, EnqueueSave, EnqueueEnds
<1> QED
  BY <1>1, <1>2, <1>3

LEMMA ScratchStep ==
  ASSUME TypeOK, Scratch, [Next]_vars
  PROVE  Scratch'
<1> USE DEF storeVars, flushVars, history
<1>1. CASE \/ SetProfileID \/ ClearLogger \/ UNCHANGED vars
           \/ \E l \in Loggers :
                \/ startNewLogger(l) \/ FlushAndStop(l) \/ flushWorker(l)
                \/ \E x \in Logs : Enqueue(l, x)
                \/ \E ok \in BOOLEAN : EnqueueSave(l, ok)
  <2>1. /\ UNCHANGED <<todo, unsent, complete>>
        /\ \A k \in Loggers : pc'[k] = pc[k] \/ {pc[k], pc'[k]} \cap Flushing = {}
    BY <1>1, OuterFrame
  <2> QED
    BY <2>1 DEF Scratch, Flushing
<1>2. CASE Crash
  BY <1>2, StoredEmpty DEF Crash, Scratch
<1>3. ASSUME NEW l \in Loggers, FlushLoad(l) PROVE Scratch'
  BY <1>3 DEF FlushLoad, FlushEnds, Goto, TypeOK, Scratch
<1>4. ASSUME NEW l \in Loggers, NEW x \in Logs, NEW a \in Answers, Send(l, x, a) PROVE Scratch'
  <2>1. pc' = pc /\ pc[l] = "send" /\ \A k \in Loggers : k # l => complete'[k] = complete[k]
    BY <1>4 DEF Send, TypeOK
  <2> QED
    BY <1>4, <2>1, SendEffect DEF Scratch
<1>5. ASSUME NEW l \in Loggers, Cut(l) PROVE Scratch'
  <2>1. pc' = pc /\ pc[l] = "send" /\ complete' = complete
    BY <1>5 DEF Cut
  <2> QED
    BY <1>5, <2>1, CutEffect DEF Scratch
<1>6. ASSUME NEW l \in Loggers, MarkLoad(l) \/ AppendLoad(l) PROVE Scratch'
  BY <1>6 DEF MarkLoad, AppendLoad, Goto, TypeOK, Scratch
<1>7. ASSUME NEW l \in Loggers, NEW ok \in BOOLEAN, MarkSave(l, ok) PROVE Scratch'
  BY <1>7 DEF MarkSave, FlushEnds, Goto, TypeOK, Scratch
<1>8. ASSUME NEW l \in Loggers, NEW ok \in BOOLEAN, AppendSave(l, ok) PROVE Scratch'
  BY <1>8, StoredEmpty DEF AppendSave, FlushEnds, Goto, TypeOK, Scratch
<1> QED
  BY <1>1, <1>2, <1>3, <1>4, <1>5, <1>6, <1>7, <1>8 DEF Next, Flush, SendAny

-----------------------------------------------------------------------------
(* No accepted log is forgotten by the worker.                             *)

\* The parts of ScheduleInv that follow from DurableInv and Scratch.
Scheduled == IDFirst /\ InHand /\ FlushScheduled

LEMMA ScheduleStep ==
  ASSUME DurableInv, Scratch, Scheduled, [Next]_vars
  PROVE  Scheduled'
<1> USE DEF storeVars, flushVars, history, Scheduled
<1>0. TypeOK
  BY DEF DurableInv, Control
<1>d. \A k \in Loggers : Duty(k) \subseteq Stored(cache)
  BY DEF DurableInv, Contents, Durable, IDFirst, Duty
<1>1. CASE ClearLogger \/ UNCHANGED vars
  BY <1>1 DEF ClearLogger, vars, IDFirst, InHand, FlushScheduled, Duty
<1>2. CASE SetProfileID
  <2>1. \A k \in Loggers : mine[k] = {}
    BY <1>2 DEF SetProfileID, IDFirst
  <2> QED BY <1>2, <2>1 DEF SetProfileID, IDFirst, InHand, FlushScheduled, Duty
<1>3. CASE Crash
  BY <1>3 DEF Crash, IDFirst, InHand, FlushScheduled
<1>4. ASSUME NEW l \in Loggers, startNewLogger(l) PROVE Scheduled'
  <2>1. ~(accepted \subseteq resolved \cup overwritten) => Stored(cache) # {}
    BY DEF DurableInv, Contents, Durable
  <2>2. /\ mine'[l] = accepted /\ known'[l] = hasID
        /\ flusher'[l] = (hasID /\ Stored(cache) # {}) /\ pc'[l] = "select"
        /\ \A k \in Loggers \ {l} : /\ mine'[k] \subseteq mine[k] /\ known'[k] = known[k]
                                   /\ flusher'[k] = flusher[k] /\ pc'[k] = pc[k]
        /\ UNCHANGED <<hasID, accepted, resolved, overwritten, enq, retry, todo, unsent>>
    BY <1>0, <1>4 DEF startNewLogger, Goto, TypeOK
  <2>3. IDFirst'
    BY <2>2 DEF IDFirst
  <2>4. InHand'
    BY <2>2 DEF InHand, Duty
  <2>5. FlushScheduled'
    BY <2>1, <2>2 DEF FlushScheduled
  <2> QED BY <2>3, <2>4, <2>5
<1>5. ASSUME NEW l \in Loggers, FlushAndStop(l) PROVE Scheduled'
  BY <1>5 DEF FlushAndStop, IDFirst, InHand, FlushScheduled, Duty
<1>6. ASSUME NEW l \in Loggers, NEW x \in Logs, Enqueue(l, x) PROVE Scheduled'
  BY <1>6 DEF Enqueue, IDFirst, InHand, FlushScheduled, Duty
<1>7. ASSUME NEW l \in Loggers, NEW ok \in BOOLEAN, EnqueueSave(l, ok) PROVE Scheduled'
  <2>1. hasID /\ overwritten \subseteq overwritten'
    BY <1>7, SaveEffect DEF EnqueueSave, EnqueueEnds, IDFirst
  <2>2. /\ UNCHANGED <<hasID, pc, known, retry, todo, unsent, resolved>>
        /\ accepted' = IF ok THEN accepted \cup {enq[l]} ELSE accepted
        /\ mine'[l] = IF ok THEN mine[l] \cup {enq[l]} ELSE mine[l]
        /\ flusher'[l] = (flusher[l] \/ ok)
        /\ \A k \in Loggers \ {l} : mine'[k] = mine[k] /\ flusher'[k] = flusher[k]
    BY <1>0, <1>7 DEF EnqueueSave, EnqueueEnds, TypeOK
  <2>3. IDFirst'
    BY <2>1, <2>2 DEF IDFirst
  <2>4. InHand'
    BY <2>1, <2>2 DEF InHand, Duty
  <2>5. FlushScheduled'
    BY <2>1, <2>2 DEF FlushScheduled
  <2> QED BY <2>3, <2>4, <2>5
<1>8. ASSUME NEW l \in Loggers, flushWorker(l) PROVE Scheduled'
  BY <1>0, <1>8 DEF flushWorker, WorkerStop, WorkerFlush, RetryFires, Goto, TypeOK,
                    IDFirst, InHand, FlushScheduled, Duty
<1>9. ASSUME NEW l \in Loggers, FlushLoad(l) PROVE Scheduled'
  <2>1. /\ UNCHANGED <<mine, resolved, overwritten, flusher, known, hasID, accepted, enq, unsent>>
        /\ \A k \in Loggers \ {l} : pc'[k] = pc[k] /\ retry'[k] = retry[k] /\ todo'[k] = todo[k]
    BY <1>0, <1>9 DEF FlushLoad, FlushEnds, Goto, TypeOK
  <2>2. IDFirst'
    BY <2>1 DEF IDFirst
  <2>3. CASE known[l] /\ Stored(cache) # {}
    <3>1. pc'[l] = "send" /\ todo'[l] = cache
      BY <1>0, <1>9, <2>3 DEF FlushLoad, Goto, TypeOK
    <3> QED BY <1>d, <2>1, <2>2, <3>1 DEF InHand, FlushScheduled, Duty
  <2>4. CASE ~(known[l] /\ Stored(cache) # {})
    <3>1. pc'[l] \in {"select", "returned"}
      BY <1>0, <1>9, <2>4 DEF FlushLoad, FlushEnds, Goto, TypeOK
    <3>2. known[l] => Duty(l) = {}
      BY <1>d, <2>4
    <3> QED BY <2>1, <2>2, <2>4, <3>1, <3>2 DEF FlushLoad, InHand, FlushScheduled, Duty
  <2> QED BY <2>3, <2>4
<1>10. ASSUME NEW l \in Loggers, NEW x \in Logs, NEW a \in Answers, Send(l, x, a) PROVE Scheduled'
  <2>1. /\ UNCHANGED <<pc, enq, flusher, retry, known, hasID, accepted, mine, overwritten>>
        /\ resolved \subseteq resolved'
    BY <1>10 DEF Send
  <2>2. InHand'
    BY <1>0, <1>10, <2>1, SendEffect DEF InHand, Duty
  <2> QED
    BY <2>1, <2>2 DEF IDFirst, FlushScheduled
<1>11. ASSUME NEW l \in Loggers, Cut(l) PROVE Scheduled'
  <2>1. UNCHANGED <<pc, enq, flusher, retry, known, hasID, accepted, resolved, mine, overwritten>>
    BY <1>11 DEF Cut
  <2>2. InHand'
    BY <1>0, <1>11, <2>1, CutEffect DEF InHand, Duty
  <2> QED
    BY <2>1, <2>2 DEF IDFirst, FlushScheduled
<1>12. ASSUME NEW l \in Loggers, MarkLoad(l) \/ AppendLoad(l) PROVE Scheduled'
  BY <1>0, <1>12 DEF MarkLoad, AppendLoad, Goto, TypeOK, IDFirst, InHand, FlushScheduled, Duty
<1>13. ASSUME NEW l \in Loggers, NEW ok \in BOOLEAN, MarkSave(l, ok) PROVE Scheduled'
  <2>1. overwritten \subseteq overwritten'
    BY <1>13, SaveEffect DEF MarkSave
  <2>2. /\ UNCHANGED <<enq, flusher, known, hasID, accepted, resolved, mine, todo, unsent>>
        /\ \A k \in Loggers \ {l} : pc'[k] = pc[k] /\ retry'[k] = retry[k]
        /\ pc[l] = "markSave"
        /\ \/ pc'[l] \in {"select", "returned"} /\ Stored(unsent[l]) = {}
           \/ pc'[l] = "append"
    BY <1>0, <1>13 DEF MarkSave, FlushEnds, Goto, TypeOK
  <2>3. IDFirst'
    BY <2>2 DEF IDFirst
  <2>4. InHand' /\ FlushScheduled'
    BY <2>1, <2>2 DEF InHand, FlushScheduled, Duty
  <2> QED BY <2>3, <2>4
<1>14. ASSUME NEW l \in Loggers, NEW ok \in BOOLEAN, AppendSave(l, ok) PROVE Scheduled'
  <2>0. overwritten \subseteq overwritten'
    BY <1>14, SaveEffect DEF AppendSave
  <2>1. /\ UNCHANGED <<enq, flusher, known, hasID, accepted, resolved, phase, mine>>
        /\ FlushEnds(l, TRUE)
        /\ \A k \in Loggers : k # l => unsent'[k] = unsent[k] /\ todo'[k] = todo[k]
    BY <1>0, <1>14 DEF AppendSave, TypeOK
  <2>2. /\ \A k \in Loggers : k # l => pc'[k] = pc[k] /\ retry'[k] = retry[k]
        /\ pc'[l] = "returned" \/ (pc'[l] = "select" /\ retry'[l])
    BY <1>0, <2>1 DEF FlushEnds, Goto, TypeOK
  <2> QED
    BY <2>0, <2>1, <2>2 DEF IDFirst, InHand, FlushScheduled, Duty
<1> QED
  BY <1>1, <1>2, <1>3, <1>4, <1>5, <1>6, <1>7, <1>8, <1>9, <1>10, <1>11, <1>12, <1>13, <1>14
     DEF Next, Flush, SendAny

LEMMA InitLists == Init => Scratch /\ Scheduled /\ ToBeRemoved /\ NotAgain
  BY StoredEmpty DEF Init, Scratch, Scheduled, IDFirst, InHand, Duty, FlushScheduled, ToBeRemoved,
                     NotAgain

\* A worker that waits has a token or a timer for every log that it was left or has
\* accepted, and that is neither resolved nor overwritten, whatever other Loggers do.
THEOREM FlushScheduledHolds == Spec => []FlushScheduled
<1>1. Init => ScheduleInv
  BY InitDurable, InitLists DEF ScheduleInv, Scheduled, AloneInv
<1>2. ScheduleInv /\ [Next]_vars => ScheduleInv'
  BY DurableStep, ScratchStep, ScheduleStep DEF ScheduleInv, Scheduled, DurableInv, Control
<1>3. ScheduleInv => FlushScheduled
  BY DEF ScheduleInv
<1> QED
  BY <1>1, <1>2, <1>3, PTL DEF Spec

-----------------------------------------------------------------------------
(* Nothing is sent twice.                                                  *)

LEMMA ResendStep ==
  ASSUME DurableInv, Alone, Scratch, ToBeRemoved, NotAgain, [Next]_vars
  PROVE  ToBeRemoved' /\ NotAgain'
<1> USE DEF storeVars, flushVars, history
<1>0. TypeOK
  BY DEF DurableInv, Control
<1>1. CASE \/ SetProfileID \/ ClearLogger \/ UNCHANGED vars
           \/ \E l \in Loggers :
                \/ startNewLogger(l) \/ FlushAndStop(l) \/ flushWorker(l)
                \/ \E x \in Logs : Enqueue(l, x)
  <2>1. UNCHANGED <<todo, unsent, complete, resolved, crashes>>
    BY <1>0, <1>1, OuterFrame
  <2>2. UNCHANGED <<cache, accepted>> /\ refused \subseteq refused'
    BY <1>1 DEF SetProfileID, ClearLogger, vars, startNewLogger, FlushAndStop, flushWorker,
                WorkerStop, WorkerFlush, RetryFires, Enqueue
  <2> QED
    BY <2>1, <2>2 DEF ToBeRemoved, NotAgain
<1>2. CASE Crash
  BY <1>0, <1>2, StoredEmpty DEF Crash, TypeOK, ToBeRemoved, NotAgain
<1>3. ASSUME NEW l \in Loggers, NEW ok \in BOOLEAN, EnqueueSave(l, ok)
      PROVE  ToBeRemoved' /\ NotAgain'
  <2>1. snap[l] = cache /\ enq[l] # NoLog /\ enq[l] \notin accepted \cup refused
    BY <1>3 DEF EnqueueSave, EnqueueEnds, DurableInv, Alone, Seen, Locked, Control, Enqueueing
  <2>2. Stored(cache') = Stored(cache) \cup {enq[l]}
    BY <1>0, <1>3, <2>1, StoredWritten, SaveEffect DEF EnqueueSave, EnqueueEnds
  <2>3. /\ UNCHANGED <<todo, unsent, complete, resolved, crashes>>
        /\ accepted \cup refused \subseteq accepted' \cup refused'
    BY <1>3 DEF EnqueueSave, EnqueueEnds
  <2>4. Stored(cache') \cap resolved = Stored(cache) \cap resolved
    BY <2>1, <2>2 DEF ToBeRemoved
  <2> QED
    BY <2>3, <2>4 DEF ToBeRemoved, NotAgain
<1>4. ASSUME NEW l \in Loggers, FlushLoad(l) PROVE ToBeRemoved' /\ NotAgain'
  <2>1. UNCHANGED <<cache, unsent, complete, accepted, refused, resolved, crashes>>
    BY <1>4 DEF FlushLoad
  <2>2. pc[l] = "load" /\ \A k \in Loggers : complete[k] = {} /\ Stored(unsent[k]) = {}
    BY <1>4 DEF FlushLoad, Alone, Solo, Idle, Scratch
  <2>3. \A k \in Loggers : todo'[k] = todo[k] \/ todo'[k] = cache
    BY <1>0, <1>4 DEF FlushLoad, TypeOK
  <2>4. crashes = 0 => Stored(cache) \cap resolved = {}
    BY <2>2 DEF ToBeRemoved
  <2> QED
    BY <2>1, <2>2, <2>3, <2>4 DEF ToBeRemoved, NotAgain
<1>5. ASSUME NEW l \in Loggers, NEW x \in Logs, NEW a \in Answers, Send(l, x, a)
      PROVE  ToBeRemoved' /\ NotAgain'
  <2>1. UNCHANGED <<cache, accepted, refused, crashes>>
    BY <1>5 DEF Send
  <2>2. pc[l] = "send" /\ x \in Stored(todo[l]) /\ x \in accepted \cup refused
    BY <1>0, <1>5, SendEffect DEF DurableInv, Contents, Fresh
  <2>3. x \notin Stored(unsent[l])
    BY <2>2 DEF ToBeRemoved
  <2>4. \A k \in Loggers : k # l => /\ Stored(todo'[k]) = {} /\ Stored(unsent'[k]) = {}
    <3>1. \A k \in Loggers : k # l => Idle(k)
      BY <2>2 DEF Alone, Solo, Idle
    <3>2. \A k \in Loggers : k # l => Stored(todo[k]) = {} /\ Stored(unsent[k]) = {}
      BY <3>1 DEF Scratch, Idle
    <3> QED
      BY <1>0, <1>5, <3>2, SendEffect
  <2>5. Stored(todo'[l]) = Stored(todo[l]) \ {x}
    BY <1>0, <1>5, SendEffect
  <2>6. CASE /\ Stored(unsent'[l]) = Stored(unsent[l]) \cup {x}
             /\ complete' = complete /\ resolved' = resolved
    <3>1. crashes = 0 => x \notin resolved
      BY <2>2 DEF NotAgain
    <3>2. \A k \in Loggers : Stored(todo'[k]) \cap Stored(unsent'[k]) = {}
      BY <2>4, <2>5, <2>6 DEF ToBeRemoved
    <3>3. crashes = 0 => \A k \in Loggers : /\ Stored(unsent'[k]) \cap resolved = {}
                                           /\ Stored(todo'[k]) \cap resolved = {}
      BY <2>4, <2>5, <2>6, <3>1 DEF ToBeRemoved, NotAgain
    <3> QED
      BY <2>1, <2>6, <3>2, <3>3 DEF ToBeRemoved, NotAgain
  <2>7. CASE /\ unsent' = unsent
             /\ complete' = [complete EXCEPT ![l] = @ \cup {x}]
             /\ resolved' = resolved \cup {x}
    <3>1. \A k \in Loggers : Stored(todo'[k]) \cap Stored(unsent'[k]) = {}
      BY <2>4, <2>5, <2>7 DEF ToBeRemoved
    <3>2. crashes = 0 => \A k \in Loggers : /\ Stored(unsent'[k]) \cap resolved' = {}
                                           /\ Stored(todo'[k]) \cap resolved' = {}
      BY <2>3, <2>4, <2>5, <2>7 DEF ToBeRemoved, NotAgain
    <3>3. \A k \in Loggers : complete[k] \subseteq complete'[k]
      BY <1>0, <2>7 DEF TypeOK
    <3>4. x \in complete'[l]
      BY <1>0, <2>7 DEF TypeOK
    <3>5. resolved' \subseteq accepted \cup refused
      BY <2>2, <2>7 DEF ToBeRemoved
    <3>6. crashes = 0 => \A y \in Stored(cache) \cap resolved' :
                           \E k \in Loggers : y \in complete'[k]
      BY <2>7, <3>3, <3>4 DEF ToBeRemoved
    <3> QED
      BY <2>1, <3>1, <3>2, <3>5, <3>6 DEF ToBeRemoved, NotAgain
  <2> QED
    BY <1>0, <1>5, <2>6, <2>7, SendEffect
<1>6. ASSUME NEW l \in Loggers, Cut(l) PROVE ToBeRemoved' /\ NotAgain'
  <2>1. UNCHANGED <<cache, complete, accepted, refused, resolved, crashes>>
    BY <1>6 DEF Cut
  <2> QED
    BY <1>0, <1>6, <2>1, CutEffect DEF ToBeRemoved, NotAgain
<1>7. ASSUME NEW l \in Loggers, MarkLoad(l) \/ AppendLoad(l) PROVE ToBeRemoved' /\ NotAgain'
  BY <1>7 DEF MarkLoad, AppendLoad, ToBeRemoved, NotAgain
<1>8. ASSUME NEW l \in Loggers, NEW ok \in BOOLEAN, MarkSave(l, ok)
      PROVE  ToBeRemoved' /\ NotAgain'
  <2>1. snap[l] = cache
    BY <1>8 DEF MarkSave, Alone, Seen, Locked
  <2>2. Stored(cache') = Stored(cache) \ complete[l]
    BY <1>0, <1>8, <2>1, StoredWritten, SaveEffect DEF MarkSave
  <2>3. /\ UNCHANGED <<todo, unsent, accepted, refused, resolved, crashes>>
        /\ \A k \in Loggers : k # l => complete'[k] = complete[k]
    BY <1>0, <1>8 DEF MarkSave, TypeOK
  <2> QED
    BY <2>2, <2>3 DEF ToBeRemoved, NotAgain
<1>9. ASSUME NEW l \in Loggers, NEW ok \in BOOLEAN, AppendSave(l, ok)
      PROVE  ToBeRemoved' /\ NotAgain'
  <2>1. snap[l] = cache
    BY <1>9 DEF AppendSave, Alone, Seen, Locked
  <2>2. Stored(cache') = Stored(unsent[l]) \cup Stored(cache)
    BY <1>0, <1>9, <2>1, StoredWritten, SaveEffect DEF AppendSave
  <2>3. /\ UNCHANGED <<todo, complete, accepted, refused, resolved, crashes>>
        /\ \A k \in Loggers : unsent'[k] = unsent[k] \/ unsent'[k] = Empty
    BY <1>0, <1>9 DEF AppendSave, TypeOK
  <2> QED
    BY <2>2, <2>3, StoredEmpty DEF ToBeRemoved, NotAgain
<1> QED
  BY <1>1, <1>2, <1>3, <1>4, <1>5, <1>6, <1>7, <1>8, <1>9 DEF Next, Flush, SendAny

\* As long as the process has not crashed and no two Loggers were at work at the same
\* time, what is handed to the transport is not resolved: a log is not sent again
\* after it was sent.
THEOREM NoResendHolds == Spec => []NoResend
<1>1. Init => ResendInv
  BY InitDurable, InitLists DEF ResendInv
<1>2. ResendInv /\ [Next]_vars => ResendInv'
  <2> SUFFICES ASSUME ResendInv, [Next]_vars PROVE ResendInv'
    OBVIOUS
  <2>1. TypeOK /\ DurableInv /\ AloneInv /\ Scratch
    BY DEF ResendInv, AloneInv, DurableInv, Control
  <2>2. AloneInv' /\ Scratch'
    BY <2>1, AloneStep, ScratchStep
  <2>3. ASSUME overlaps' = 0 PROVE ToBeRemoved' /\ NotAgain'
    <3>1. Alone /\ ToBeRemoved /\ NotAgain
      BY <2>1, <2>3, OverlapsUp DEF ResendInv, AloneInv
    <3> QED BY <2>1, <3>1, ResendStep
  <2> QED BY <2>2, <2>3 DEF ResendInv
<1>3. ResendInv => NoResend
  BY DEF ResendInv, NotAgain, NoResend
<1> QED
  BY <1>1, <1>2, <1>3, PTL DEF Spec

-----------------------------------------------------------------------------
(* The retries are bounded.                                                *)

\* The errors the store may have forgotten.
Forgotten == crashes + saveFails

\* The flush of l has had an error for x that its next save will record:
\* x is removed, or put back with another count.
Owed(l, x) == x \in complete[l] \/ (unsent[l][x] # Absent /\ unsent[l][x] # cache[x])

\* What s, the cache or the file, says of the errors of x.
Counted(s, x) ==
  s[x] # Absent =>
    \/ fails[x] <= s[x] + Forgotten
    \/ fails[x] <= s[x] + 1 + Forgotten /\ \E l \in Loggers : Owed(l, x)

\* The errors of x are counted by the cache, by the file and by the lists of a flush,
\* which has x in one list only; and they are within the limit.
Budget(x) ==
  /\ fails[x] # 0 => x \in accepted \cup refused
  /\ Counted(cache, x) /\ Counted(disk, x)
  /\ \A l \in Loggers :
       /\ todo[l][x] # Absent => /\ fails[x] <= todo[l][x] + Forgotten
                                 /\ todo[l][x] = cache[x]
                                 /\ x \notin complete[l] /\ unsent[l][x] = Absent
       /\ unsent[l][x] # Absent => fails[x] <= unsent[l][x] + Forgotten
       /\ x \in complete[l] => cache[x] # Absent

Within(x) == Budget(x) /\ fails[x] <= Limit + Forgotten

\* No list counts more errors than there were.
Behind(x) ==
  /\ cache[x] <= fails[x] /\ disk[x] <= fails[x]
  /\ \A l \in Loggers : snap[l][x] <= fails[x] /\ todo[l][x] <= fails[x] /\ unsent[l][x] <= fails[x]

BudgetInv ==
  /\ AloneInv /\ Scratch
  /\ \A x \in Logs : Behind(x)
  /\ overlaps = 0 => \A x \in Logs : Within(x)

\* The numbers that the invariant is about.
LEMMA Numbers ==
  ASSUME TypeOK, NEW x \in Logs
  PROVE  /\ cache[x] \in Counts /\ disk[x] \in Counts /\ fails[x] \in Nat
         /\ \A l \in Loggers : todo[l][x] \in Counts /\ unsent[l][x] \in Counts /\ snap[l][x] \in Counts
         /\ Forgotten \in Nat /\ Limit \in Nat
         /\ \A c \in Counts : c = Absent \/ (c \in Nat /\ c + 1 <= Limit)
  BY LimitIsNat DEF TypeOK, Stores, Forgotten, Limit, Counts, Absent

\* A save writes, or has nothing to write, or fails and is one more reason to forget.
LEMMA SaveBudget ==
  ASSUME TypeOK, NEW l \in Loggers, NEW new, NEW ok \in BOOLEAN, Save(l, new, ok),
         crashes' = crashes
  PROVE  /\ cache' = new
         /\ \/ new = cache /\ disk' = disk /\ Forgotten' = Forgotten
            \/ disk' = new /\ Forgotten' = Forgotten
            \/ disk' = disk /\ Forgotten' = Forgotten + 1
  BY DEF TypeOK, Save, Forgotten

\* Who does not flush has nothing in its lists.
LEMMA OnlyOneFlushes ==
  ASSUME Solo, Scratch, NEW l \in Loggers, ~Idle(l), NEW k \in Loggers, k # l
  PROVE  Stored(todo[k]) = {} /\ Stored(unsent[k]) = {} /\ complete[k] = {}
<1>1. Idle(k)
  BY DEF Solo
<1> QED BY <1>1 DEF Scratch, Idle

\* The budget of a log is kept, and the bound with it, by every step.
LEMMA BudgetStep ==
  ASSUME DurableInv, Alone, Scratch, [Next]_vars, NEW x \in Logs,
         Budget(x), fails[x] <= Limit + Forgotten
  PROVE  Budget(x)' /\ fails'[x] <= Limit + Forgotten'
<1> USE DEF storeVars, flushVars, history
<1>0. TypeOK
  BY DEF DurableInv, Control
<1>n. /\ cache[x] \in Counts /\ disk[x] \in Counts /\ fails[x] \in Nat
      /\ \A l \in Loggers : todo[l][x] \in Counts /\ unsent[l][x] \in Counts
      /\ Forgotten \in Nat /\ Limit \in Nat
      /\ \A c \in Counts : c = Absent \/ (c \in Nat /\ c + 1 <= Limit)
  BY <1>0, Numbers
<1>b. fails[x] <= Limit + Forgotten
  OBVIOUS
<1>s. \A m : x \in Stored(m) <=> m[x] # Absent
  BY DEF Stored
<1>1. CASE \/ SetProfileID \/ ClearLogger \/ UNCHANGED vars
           \/ \E l \in Loggers :
                \/ startNewLogger(l) \/ FlushAndStop(l) \/ flushWorker(l)
                \/ MarkLoad(l) \/ AppendLoad(l)
                \/ \E y \in Logs : Enqueue(l, y)
  <2>1. /\ UNCHANGED <<cache, disk, todo, unsent, complete, fails, crashes, saveFails, accepted>>
        /\ refused \subseteq refused'
    BY <1>1 DEF SetProfileID, ClearLogger, vars, startNewLogger, FlushAndStop, flushWorker,
                WorkerStop, WorkerFlush, RetryFires, Enqueue, MarkLoad, AppendLoad
  <2> QED BY <1>b, <2>1 DEF Budget, Counted, Owed, Forgotten
<1>2. CASE Crash
  <2>1. /\ cache' = disk /\ UNCHANGED <<disk, fails, accepted, refused>>
        /\ Forgotten' = Forgotten + 1
    BY <1>0, <1>2 DEF Crash, Forgotten, TypeOK
  <2>2. \A l \in Loggers : /\ todo'[l][x] = Absent /\ unsent'[l][x] = Absent
                           /\ complete'[l] = {}
    BY <1>2 DEF Crash, Empty
  <2>3. disk[x] # Absent => fails[x] <= disk[x] + Forgotten'
    BY <1>n, <2>1 DEF Budget, Counted
  <2> QED BY <1>b, <1>n, <2>1, <2>2, <2>3 DEF Budget, Counted
<1>3. ASSUME NEW l \in Loggers, NEW ok \in BOOLEAN, EnqueueSave(l, ok)
      PROVE  Budget(x)' /\ fails'[x] <= Limit + Forgotten'
  <2> DEFINE new == WithNew(l)
  <2>1. snap[l] = cache /\ enq[l] # NoLog /\ enq[l] \notin accepted \cup refused
    BY <1>3 DEF EnqueueSave, EnqueueEnds, DurableInv, Alone, Seen, Locked, Control, Enqueueing
  <2>2. new[x] = IF x = enq[l] THEN 0 ELSE cache[x]
    BY <2>1 DEF WithNew, Appended, Absent
  <2> HIDE DEF new
  <2>3. /\ cache' = new
        /\ \/ new = cache /\ disk' = disk /\ Forgotten' = Forgotten
           \/ disk' = new /\ Forgotten' = Forgotten
           \/ disk' = disk /\ Forgotten' = Forgotten + 1
    <3>1. Save(l, new, ok) /\ crashes' = crashes
      BY <1>3 DEF EnqueueSave, EnqueueEnds, new
    <3> QED BY <1>0, <3>1, SaveBudget
  <2>4. /\ UNCHANGED <<todo, unsent, complete, fails>>
        /\ accepted \cup refused \subseteq accepted' \cup refused'
    BY <1>3 DEF EnqueueSave, EnqueueEnds
  <2>5. CASE x = enq[l]
    <3>1. fails[x] = 0 /\ cache[x] = Absent /\ disk[x] = Absent
      BY <1>s, <2>1, <2>5 DEF Budget, DurableInv, Contents, Fresh
    <3>2. \A k \in Loggers : todo[k][x] = Absent /\ unsent[k][x] = Absent
      BY <1>s, <2>1, <2>5 DEF DurableInv, Contents, Fresh
    <3>3. cache'[x] = 0 /\ disk'[x] \in {0, Absent}
      BY <2>2, <2>3, <2>5, <3>1
    <3> QED BY <1>b, <1>n, <2>3, <2>4, <3>1, <3>2, <3>3 DEF Budget, Counted, Absent
  <2>6. CASE x # enq[l]
    <3>1. cache'[x] = cache[x] /\ disk'[x] \in {cache[x], disk[x]}
      BY <2>2, <2>3, <2>6
    <3>2. Forgotten' \in Nat /\ Forgotten <= Forgotten'
      BY <1>n, <2>3
    <3>3. \A k \in Loggers : Owed(k, x)' <=> Owed(k, x)
      BY <2>4, <3>1 DEF Owed
    <3>4. Counted(cache, x)' /\ Counted(disk, x)'
      BY <1>n, <2>4, <3>1, <3>2, <3>3 DEF Budget, Counted
    <3> QED BY <1>b, <1>n, <2>4, <3>1, <3>2, <3>4 DEF Budget
  <2> QED BY <2>5, <2>6
<1>4. ASSUME NEW l \in Loggers, FlushLoad(l)
      PROVE  Budget(x)' /\ fails'[x] <= Limit + Forgotten'
  <2>1. /\ UNCHANGED <<cache, disk, unsent, complete, fails, accepted, refused>>
        /\ Forgotten' = Forgotten
    BY <1>4 DEF FlushLoad, Forgotten
  <2>2. \A k \in Loggers : complete[k] = {} /\ unsent[k][x] = Absent
    BY <1>4, <1>s DEF FlushLoad, Alone, Solo, Idle, Scratch
  <2>3. cache[x] # Absent => fails[x] <= cache[x] + Forgotten
    BY <2>2 DEF Budget, Counted, Owed
  <2>4. \A k \in Loggers : todo'[k][x] \in {todo[k][x], cache[x]}
    BY <1>0, <1>4 DEF FlushLoad, TypeOK
  <2> QED BY <1>b, <2>1, <2>2, <2>3, <2>4 DEF Budget, Counted, Owed
<1>5. ASSUME NEW l \in Loggers, NEW y \in Logs, NEW a \in Answers, Send(l, y, a)
      PROVE  Budget(x)' /\ fails'[x] <= Limit + Forgotten'
  <2>1. /\ UNCHANGED <<cache, disk, accepted, refused>> /\ Forgotten' = Forgotten
        /\ y \in Stored(todo[l]) /\ pc[l] = "send"
        /\ todo' = [todo EXCEPT ![l][y] = Absent]
        /\ fails' \in {fails, [fails EXCEPT ![y] = @ + 1]}
        /\ \/ /\ unsent' = [unsent EXCEPT ![l][y] = todo[l][y] + 1]
              /\ complete' = complete
           \/ /\ complete' = [complete EXCEPT ![l] = @ \cup {y}]
              /\ unsent' = unsent
    BY <1>5 DEF Send, IsNext, Forgotten
  <2>2. CASE x # y
    <3>1. /\ fails'[x] = fails[x]
          /\ \A k \in Loggers : /\ todo'[k][x] = todo[k][x] /\ unsent'[k][x] = unsent[k][x]
                                /\ x \in complete'[k] <=> x \in complete[k]
      BY <1>0, <2>1, <2>2 DEF TypeOK, Stores
    <3>2. \A k \in Loggers : Owed(k, x)' <=> Owed(k, x)
      BY <2>1, <3>1 DEF Owed
    <3> QED BY <1>b, <2>1, <3>1, <3>2 DEF Budget, Counted
  <2>3. CASE x = y
    <3>1. todo[l][x] # Absent /\ x \in accepted \cup refused
      BY <1>s, <2>1, <2>3 DEF DurableInv, Contents, Fresh
    <3>2. /\ fails[x] <= todo[l][x] + Forgotten /\ todo[l][x] = cache[x]
          /\ x \notin complete[l] /\ unsent[l][x] = Absent
      BY <3>1 DEF Budget
    <3>3. todo[l][x] \in Nat /\ todo[l][x] + 1 <= Limit
      BY <1>n, <3>1
    <3>4. fails'[x] \in {fails[x], fails[x] + 1}
      BY <1>0, <2>1, <2>3 DEF TypeOK
    <3>5. fails'[x] <= Limit + Forgotten'
      BY <1>b, <1>n, <2>1, <3>2, <3>3, <3>4
    <3>6. \A k \in Loggers : k # l => /\ todo[k][x] = Absent /\ unsent[k][x] = Absent
                                      /\ complete[k] = {}
      <4>1. ~Idle(l)
        BY <2>1 DEF Idle
      <4> QED BY <1>s, <4>1, OnlyOneFlushes DEF Alone
    <3>7. \A k \in Loggers : /\ k # l => /\ todo'[k] = todo[k] /\ unsent'[k] = unsent[k]
                                         /\ complete'[k] = complete[k]
      BY <1>0, <2>1 DEF TypeOK
    <3>8. todo'[l][x] = Absent
      BY <1>0, <2>1, <2>3 DEF TypeOK, Stores
    <3>9. \/ unsent'[l][x] = todo[l][x] + 1 /\ complete'[l] = complete[l]
          \/ unsent'[l] = unsent[l] /\ complete'[l] = complete[l] \cup {x}
      BY <1>0, <2>1, <2>3 DEF TypeOK, Stores
    <3>10. ~ \E k \in Loggers : Owed(k, x)
      BY <3>2, <3>6 DEF Owed
    <3>11. Owed(l, x)'
      BY <1>n, <2>1, <3>2, <3>3, <3>9 DEF Owed, Absent
    <3>12. Counted(cache, x)' /\ Counted(disk, x)'
      <4>1. \A s \in {cache[x], disk[x]} : s # Absent => fails[x] <= s + Forgotten
        BY <3>10 DEF Budget, Counted
      <4>2. \A s \in {cache[x], disk[x]} : s # Absent => fails'[x] <= s + 1 + Forgotten
        BY <1>n, <3>4, <4>1
      <4> QED BY <2>1, <3>11, <4>2 DEF Counted
    <3>13. \A k \in Loggers :
             /\ todo'[k][x] = Absent
             /\ unsent'[k][x] # Absent => fails'[x] <= unsent'[k][x] + Forgotten
             /\ x \in complete'[k] => cache[x] # Absent
      <4>1. CASE unsent'[l][x] = todo[l][x] + 1 /\ complete'[l] = complete[l]
        <5>1. fails'[x] <= unsent'[l][x] + Forgotten
          BY <1>n, <3>2, <3>3, <3>4, <4>1
        <5> QED BY <3>2, <3>6, <3>7, <3>8, <4>1, <5>1
      <4>2. CASE unsent'[l] = unsent[l] /\ complete'[l] = complete[l] \cup {x}
        BY <3>1, <3>2, <3>6, <3>7, <3>8, <4>2
      <4> QED BY <3>9, <4>1, <4>2
    <3> QED BY <2>1, <3>1, <3>5, <3>12, <3>13 DEF Budget
  <2> QED BY <2>2, <2>3
<1>6. ASSUME NEW l \in Loggers, Cut(l)
      PROVE  Budget(x)' /\ fails'[x] <= Limit + Forgotten'
  <2>1. /\ UNCHANGED <<cache, disk, complete, fails, accepted, refused>>
        /\ Forgotten' = Forgotten
    BY <1>6 DEF Cut, Forgotten
  <2>2. /\ \A k \in Loggers : k # l => todo'[k] = todo[k] /\ unsent'[k] = unsent[k]
        /\ todo'[l][x] = Absent
        /\ unsent'[l][x] = IF todo[l][x] # Absent THEN todo[l][x] ELSE unsent[l][x]
    BY <1>0, <1>6 DEF Cut, TypeOK, Empty, Appended
  <2>3. \A k \in Loggers : Owed(k, x)' <=> Owed(k, x)
    BY <2>1, <2>2 DEF Owed, Budget
  <2> QED BY <1>b, <2>1, <2>2, <2>3 DEF Budget, Counted
<1>7. ASSUME NEW l \in Loggers, NEW ok \in BOOLEAN, MarkSave(l, ok)
      PROVE  Budget(x)' /\ fails'[x] <= Limit + Forgotten'
  <2> DEFINE new == Remaining(l)
  <2>1. snap[l] = cache /\ pc[l] = "markSave" /\ ~Idle(l)
    BY <1>7 DEF MarkSave, Alone, Seen, Locked, Idle
  <2>2. new[x] = IF x \in complete[l] THEN Absent ELSE cache[x]
    BY <2>1 DEF Remaining
  <2> HIDE DEF new
  <2>3. /\ cache' = new
        /\ \/ new = cache /\ disk' = disk /\ Forgotten' = Forgotten
           \/ disk' = new /\ Forgotten' = Forgotten
           \/ disk' = disk /\ Forgotten' = Forgotten + 1
    <3>1. Save(l, new, ok) /\ crashes' = crashes
      BY <1>7 DEF MarkSave, new
    <3> QED BY <1>0, <3>1, SaveBudget
  <2>4. /\ UNCHANGED <<todo, unsent, fails, accepted, refused>>
        /\ complete'[l] = {} /\ \A k \in Loggers : k # l => complete'[k] = complete[k]
    BY <1>0, <1>7 DEF MarkSave, TypeOK
  <2>5. /\ \A k \in Loggers : todo[k][x] = Absent
        /\ \A k \in Loggers : k # l => unsent[k][x] = Absent /\ complete[k] = {}
    BY <1>s, <2>1, OnlyOneFlushes DEF Scratch, Alone
  <2>6. Forgotten' \in Nat /\ Forgotten <= Forgotten'
    BY <1>n, <2>3
  <2>7. CASE x \in complete[l]
    <3>1. cache[x] # Absent /\ cache'[x] = Absent
      BY <2>2, <2>3, <2>7 DEF Budget
    <3>2. disk'[x] = Absent \/ (disk' = disk /\ Forgotten' = Forgotten + 1)
      BY <2>2, <2>3, <2>7, <3>1
    <3>3. disk[x] # Absent => fails[x] <= disk[x] + 1 + Forgotten
      BY <1>n DEF Budget, Counted
    <3>4. Counted(cache, x)' /\ Counted(disk, x)'
      BY <1>n, <2>4, <3>1, <3>2, <3>3 DEF Counted
    <3>5. \A k \in Loggers : x \notin complete'[k]
      BY <2>4, <2>5
    <3> QED BY <1>b, <1>n, <2>4, <2>5, <2>6, <3>4, <3>5 DEF Budget
  <2>8. CASE x \notin complete[l]
    <3>1. cache'[x] = cache[x] /\ disk'[x] \in {cache[x], disk[x]}
      BY <2>2, <2>3, <2>8
    <3>2. \A k \in Loggers : Owed(k, x)' <=> Owed(k, x)
      BY <2>4, <2>8, <3>1 DEF Owed
    <3>3. Counted(cache, x)' /\ Counted(disk, x)'
      BY <1>n, <2>4, <2>6, <3>1, <3>2 DEF Budget, Counted
    <3>4. \A k \in Loggers : x \notin complete'[k]
      BY <2>4, <2>5, <2>8
    <3> QED BY <1>b, <1>n, <2>4, <2>5, <2>6, <3>3, <3>4 DEF Budget
  <2> QED BY <2>7, <2>8
<1>8. ASSUME NEW l \in Loggers, NEW ok \in BOOLEAN, AppendSave(l, ok)
      PROVE  Budget(x)' /\ fails'[x] <= Limit + Forgotten'
  <2> DEFINE new == PutBack(l)
  <2>1. snap[l] = cache /\ pc[l] = "appendSave" /\ ~Idle(l)
    BY <1>8 DEF AppendSave, Alone, Seen, Locked, Idle
  <2>2. new[x] = IF unsent[l][x] # Absent THEN unsent[l][x] ELSE cache[x]
    BY <2>1 DEF PutBack, Appended
  <2> HIDE DEF new
  <2>3. /\ cache' = new
        /\ \/ new = cache /\ disk' = disk /\ Forgotten' = Forgotten
           \/ disk' = new /\ Forgotten' = Forgotten
           \/ disk' = disk /\ Forgotten' = Forgotten + 1
    <3>1. Save(l, new, ok) /\ crashes' = crashes
      BY <1>8 DEF AppendSave, new
    <3> QED BY <1>0, <3>1, SaveBudget
  <2>4. /\ UNCHANGED <<todo, complete, fails, accepted, refused>>
        /\ unsent'[l][x] = Absent /\ \A k \in Loggers : k # l => unsent'[k] = unsent[k]
    BY <1>0, <1>8 DEF AppendSave, TypeOK, Empty
  <2>5. /\ \A k \in Loggers : todo[k][x] = Absent /\ complete[k] = {}
        /\ \A k \in Loggers : k # l => unsent[k][x] = Absent
    BY <1>s, <2>1, OnlyOneFlushes DEF Scratch, Alone
  <2>6. Forgotten' \in Nat /\ Forgotten <= Forgotten'
    BY <1>n, <2>3
  <2>7. new[x] # Absent => fails[x] <= new[x] + Forgotten
    <3>1. CASE unsent[l][x] # Absent
      BY <2>2, <3>1 DEF Budget
    <3>2. CASE unsent[l][x] = Absent
      BY <2>2, <2>5, <3>2 DEF Budget, Counted, Owed
    <3> QED BY <3>1, <3>2
  <2>8. disk'[x] # Absent => fails[x] <= disk'[x] + Forgotten'
    <3>1. CASE disk' = new
      BY <1>n, <2>2, <2>6, <2>7, <3>1
    <3>2. CASE disk' = disk /\ Forgotten' = Forgotten + 1
      BY <1>n, <3>2 DEF Budget, Counted
    <3>3. CASE new = cache /\ disk' = disk /\ Forgotten' = Forgotten
      <4>1. ~ \E k \in Loggers : Owed(k, x)
        BY <2>2, <2>5, <3>3 DEF Owed
      <4> QED BY <3>3, <4>1 DEF Budget, Counted
    <3> QED BY <2>3, <3>1, <3>2, <3>3
  <2>9. Counted(cache, x)' /\ Counted(disk, x)'
    BY <1>n, <2>2, <2>3, <2>4, <2>6, <2>7, <2>8 DEF Counted
  <2> QED BY <1>b, <1>n, <2>4, <2>5, <2>6, <2>9 DEF Budget
<1> QED
  BY <1>1, <1>2, <1>3, <1>4, <1>5, <1>6, <1>7, <1>8 DEF Next, Flush, SendAny

\* A save writes what a list or what it had loaded says, and so does not run ahead.
LEMMA WrittenBehind ==
  ASSUME TypeOK, NEW l \in Loggers, NEW x \in Logs, Behind(x)
  PROVE  WithNew(l)[x] <= fails[x] /\ Remaining(l)[x] <= fails[x] /\ PutBack(l)[x] <= fails[x]
<1>1. fails[x] \in Nat
  BY DEF TypeOK
<1> QED
  BY <1>1 DEF WithNew, Remaining, PutBack, Appended, Behind, Absent

LEMMA BehindStep ==
  ASSUME TypeOK, [Next]_vars, NEW x \in Logs, Behind(x)
  PROVE  Behind(x)'
<1> USE DEF storeVars, flushVars, history
<1>n. /\ cache[x] \in Counts /\ disk[x] \in Counts /\ fails[x] \in Nat
      /\ \A l \in Loggers : todo[l][x] \in Counts /\ unsent[l][x] \in Counts /\ snap[l][x] \in Counts
      /\ Forgotten \in Nat /\ Limit \in Nat
      /\ \A c \in Counts : c = Absent \/ (c \in Nat /\ c + 1 <= Limit)
  BY Numbers
<1>e. Empty[x] <= fails[x]
  BY <1>n DEF Empty, Absent
<1>1. CASE \/ SetProfileID \/ ClearLogger \/ UNCHANGED vars
           \/ \E l \in Loggers : startNewLogger(l) \/ FlushAndStop(l) \/ flushWorker(l)
  <2>1. UNCHANGED <<cache, disk, snap, todo, unsent, fails>>
    BY <1>1 DEF SetProfileID, ClearLogger, vars, startNewLogger, FlushAndStop, flushWorker,
                WorkerStop, WorkerFlush, RetryFires
  <2> QED BY <2>1 DEF Behind
<1>2. CASE Crash
  BY <1>2, <1>e DEF Crash, Behind
<1>3. ASSUME NEW l \in Loggers,
             \/ MarkLoad(l) \/ AppendLoad(l) \/ FlushLoad(l) \/ \E y \in Logs : Enqueue(l, y)
      PROVE  Behind(x)'
  <2>1. /\ UNCHANGED <<cache, disk, unsent, fails>>
        /\ \A k \in Loggers : snap'[k] \in {snap[k], cache} /\ todo'[k] \in {todo[k], cache}
    BY <1>3 DEF MarkLoad, AppendLoad, FlushLoad, Enqueue, Load, TypeOK
  <2> QED BY <2>1 DEF Behind
<1>4. ASSUME NEW l \in Loggers, NEW ok \in BOOLEAN,
             EnqueueSave(l, ok) \/ MarkSave(l, ok) \/ AppendSave(l, ok)
      PROVE  Behind(x)'
  <2>1. cache'[x] <= fails[x] /\ disk'[x] <= fails[x]
    <3>1. PICK new : Save(l, new, ok) /\ new[x] <= fails[x]
      BY <1>4, WrittenBehind DEF EnqueueSave, EnqueueEnds, MarkSave, AppendSave
    <3> QED BY <3>1, SaveEffect DEF Behind
  <2>2. /\ UNCHANGED <<todo, fails>>
        /\ \A k \in Loggers : snap'[k] \in {snap[k], Empty} /\ unsent'[k] \in {unsent[k], Empty}
    BY <1>4 DEF EnqueueSave, EnqueueEnds, MarkSave, AppendSave, Forget, TypeOK
  <2> QED BY <1>e, <2>1, <2>2 DEF Behind
<1>5. ASSUME NEW l \in Loggers, NEW y \in Logs, NEW a \in Answers, Send(l, y, a)
      PROVE  Behind(x)'
  <2>1. /\ UNCHANGED <<cache, disk, snap>>
        /\ todo' = [todo EXCEPT ![l][y] = Absent]
        /\ fails' \in {fails, [fails EXCEPT ![y] = @ + 1]}
    BY <1>5 DEF Send
  <2>2. fails'[x] \in {fails[x], fails[x] + 1}
    BY <2>1 DEF TypeOK
  <2>3. \A k \in Loggers : todo'[k][x] \in {todo[k][x], Absent}
    BY <2>1 DEF TypeOK, Stores
  <2>4. \A k \in Loggers : unsent'[k][x] = unsent[k][x] \/ unsent'[k][x] <= fails'[x]
    <3>1. CASE unsent' = unsent \/ x # y
      <4>1. unsent' \in {unsent, [unsent EXCEPT ![l][y] = todo[l][y] + 1]}
        BY <1>5 DEF Send
      <4>2. unsent \in [Loggers -> [Logs -> Counts]]
        BY DEF TypeOK, Stores
      <4>3. \A k \in Loggers : unsent'[k][x] = unsent[k][x]
        BY <3>1, <4>1, <4>2
      <4> QED BY <4>3
    <3>2. CASE unsent' # unsent /\ x = y
      <4>1. /\ unsent' = [unsent EXCEPT ![l][x] = todo[l][x] + 1]
            /\ a = "retryable" /\ MayRetry(todo[l][x]) /\ x \in Stored(todo[l])
        BY <1>5, <3>2 DEF Send, IsNext
      <4>2. todo[l][x] \in Nat /\ todo[l][x] + 1 < RetryLimit /\ todo[l][x] <= fails[x]
        BY <1>n, <4>1 DEF Stored, MayRetry, Behind
      <4>3. fails'[x] = fails[x] + 1 \/ fails'[x] > Limit
        BY <1>5, <1>n, <3>2, <4>1 DEF Send, TypeOK, Forgotten
      <4>4. todo[l][x] + 1 <= fails'[x]
        BY <1>n, <2>2, <4>2, <4>3, LimitIsNat DEF Limit
      <4> QED BY <4>1, <4>4 DEF TypeOK, Stores
    <3> QED BY <3>1, <3>2
  <2> QED BY <1>n, <2>1, <2>2, <2>3, <2>4 DEF Behind, Absent
<1>6. ASSUME NEW l \in Loggers, Cut(l) PROVE Behind(x)'
  <2>1. /\ UNCHANGED <<cache, disk, snap, fails>>
        /\ \A k \in Loggers : /\ todo'[k] \in {todo[k], Empty}
                              /\ unsent'[k][x] \in {unsent[k][x], todo[k][x]}
    BY <1>6 DEF Cut, Appended, TypeOK
  <2> QED BY <1>e, <2>1 DEF Behind
<1> QED
  BY <1>1, <1>2, <1>3, <1>4, <1>5, <1>6 DEF Next, Flush, SendAny

\* Retries never runs ahead of the retryable errors, and RetryLimit bounds these over all
\* flushes, Loggers and processes, but for one more for each crash and for each save that
\* failed, until Loggers are at work at the same time.
THEOREM RetriesBoundedHolds == Spec => []RetriesBounded
<1>1. Init => BudgetInv
  <2> SUFFICES ASSUME Init PROVE BudgetInv
    OBVIOUS
  <2>1. AloneInv /\ Scratch
    BY InitDurable, InitLists
  <2>2. \A x \in Logs : Behind(x)
    BY DEF Init, Behind, Empty, Absent
  <2>3. \A x \in Logs : Within(x)
    BY LimitIsNat DEF Init, Within, Budget, Counted, Empty, Limit, Forgotten
  <2> QED BY <2>1, <2>2, <2>3 DEF BudgetInv
<1>2. BudgetInv /\ [Next]_vars => BudgetInv'
  <2> SUFFICES ASSUME BudgetInv, [Next]_vars PROVE BudgetInv'
    OBVIOUS
  <2>1. TypeOK /\ DurableInv /\ AloneInv /\ Scratch
    BY DEF BudgetInv, AloneInv, DurableInv, Control
  <2>2. AloneInv' /\ Scratch'
    BY <2>1, AloneStep, ScratchStep
  <2>3. \A x \in Logs : Behind(x)'
    BY <2>1, BehindStep DEF BudgetInv
  <2>4. ASSUME overlaps' = 0, NEW x \in Logs PROVE Within(x)'
    <3>1. Alone /\ Within(x)
      BY <2>1, <2>4, OverlapsUp DEF BudgetInv, AloneInv
    <3>2. Budget(x)' /\ fails'[x] <= Limit + Forgotten'
      BY <2>1, <3>1, BudgetStep DEF Within
    <3> QED BY <3>2 DEF Within
  <2> QED BY <2>2, <2>3, <2>4 DEF BudgetInv
<1>3. BudgetInv => RetriesBounded
  <2> SUFFICES ASSUME BudgetInv, NEW x \in Logs
               PROVE  /\ cache[x] <= fails[x] /\ disk[x] <= fails[x]
                      /\ overlaps = 0 => fails[x] <= Limit + crashes + saveFails
    BY DEF RetriesBounded
  <2>1. TypeOK
    BY DEF BudgetInv, AloneInv, DurableInv, Control
  <2>2. fails[x] \in Nat /\ crashes \in Nat /\ saveFails \in Nat /\ Limit \in Nat
    BY <2>1, LimitIsNat DEF TypeOK, Limit
  <2>3. Behind(x) /\ (overlaps = 0 => fails[x] <= Limit + Forgotten)
    BY DEF BudgetInv, Within
  <2> QED BY <2>2, <2>3 DEF Behind, Forgotten
<1> QED
  BY <1>1, <1>2, <1>3, PTL DEF Spec
=============================================================================
