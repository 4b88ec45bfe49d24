-------------------------- MODULE DerpWriterProofs --------------------------
(***************************************************************************)
(* Proofs about the write side of a DERP client, for any number of         *)
(* goroutines, queues of any depth and any number of waiting notices.      *)
(*                                                                         *)
(* WriterSound does not follow from itself: that a writer which finds the  *)
(* connection closing may hand over, and that stopWriter finds nobody when *)
(* it does not wait, depends on which phases go with which labels of the   *)
(* writer and of the reader.  HandOver says which.  WorkKept needs it, and *)
(* Quiet; AllKnown says the same of every kind of work.                    *)
(***************************************************************************)
EXTENDS DerpWriter, TLAPS

\* The labels of a writer that has the connection to itself.
Busy == {"loop", "write", "flush", "park", "failed", "stopping"}

Labels == Busy \cup {"idle", "exiting", "panic"}

NobodyWrites == \A w \in Writers : wpc[w] = "idle"

\* One goroutine at a time is in runWriter, the one of accept only at first.
Alone ==
  /\ \A v, w \in Writers : wpc[v] # "idle" /\ wpc[w] # "idle" => v = w
  /\ wpc[Accept] # "idle" => reader = "writing"

\* The phase in which a goroutine can be where it is.
WriterPhase ==
  \A w \in Writers :
    /\ wpc[w] \in Busy => phase \in {"running", "closing"}
    /\ wpc[w] = "exiting" => phase = "stopped" /\ reader = "wait"
    /\ wpc[w] # "panic"

ReaderPhase ==
  /\ reader = "accept" => phase = "running" /\ NobodyWrites
  /\ phase = "closing" => reader = "wait"
  /\ reader = "wait" => phase \in {"closing", "stopped"}
  /\ reader \in {"refused", "release", "close", "gone"} => phase = "stopped" /\ NobodyWrites
  /\ exited => phase = "stopped" /\ NobodyWrites
  /\ reader # "panic"

HandOver == Alone /\ WriterPhase /\ ReaderPhase

\* The word is clear when it is parked, a closed queue stays empty, and the timer of a
\* connection that is torn down is not set again.
Quiet ==
  /\ phase = "parked" => pending = {}
  /\ \A k \in Queues : qClosed[k] => queued[k] = 0
  /\ reader = "gone" => \A k \in Queues : qClosed[k]
  /\ reader \in {"close", "gone"} => timer # "armed"

\* There is work of kind k, and the reader is not about to announce it.
Waiting(k) ==
  \/ k \in Queues /\ queued[k] > 0
  \/ k = "peerGone" /\ peerGone > 0
  \/ k = "mesh" /\ mesh > 0
  \/ k = "pong" /\ pong /\ reader # "pong"
  \/ k = "keepAlive" /\ timer = "off" /\ reader \in {"read", "pong"}

\* NoWorkLost and the first half of KeepAliveKept, for all kinds alike.
AllKnown == InService => \A k \in Kinds : Waiting(k) => Known(k)

-----------------------------------------------------------------------------
(* Types. *)

\* Whatever the phase, claimWriter keeps the types of what it changes.
LEMMA ClaimType ==
  ASSUME TypeOK, NEW k \in Kinds, Claim(k)
  PROVE  /\ phase' \in {"parked", "running", "closing", "stopped"}
         /\ pending' \in SUBSET Kinds
         /\ wpc' \in [Writers -> Labels]
BY DEF Claim, TypeOK, Writers, Labels, Busy

\* So does a writer that is told to stop.
LEMMA HandOffType ==
  ASSUME TypeOK, NEW w \in Writers, HandOff(w)
  PROVE  /\ phase' \in {"parked", "running", "closing", "stopped"}
         /\ pending' \in SUBSET Kinds
         /\ wpc' \in [Writers -> Labels]
BY DEF HandOff, Goto, TypeOK, Labels, Busy

\* The outcome of a write keeps the types.
LEMMA WrittenType ==
  ASSUME TypeOK, NEW w \in Writers, NEW rest \in SUBSET Kinds, Written(w, rest)
  PROVE  /\ work' \in [Writers -> SUBSET Kinds]
         /\ wpc' \in [Writers -> Labels]
BY DEF Written, Done, Failed, Goto, TypeOK, Labels, Busy

\* Every step keeps the types and the depth of the queues.
LEMMA TypeStep == TypeOK /\ [Next]_vars => TypeOK'
<1> SUFFICES ASSUME TypeOK, [Next]_vars PROVE TypeOK'
  OBVIOUS
<1>0. Depth \in Nat /\ Depth > 0 /\ MaxNotices \in Nat
  BY DepthAssumption, NoticesAssumption
<1> USE DEF workVars, writerVars, Labels, Busy
<1>1. ASSUME NEW s \in Senders, NEW k \in Queues, Enqueue(s, k) PROVE TypeOK'
  <2>1. queued' \in [Queues -> 0..Depth]
    BY <1>0, <1>1 DEF Enqueue, TypeOK
  <2> QED BY <1>1, <2>1 DEF Enqueue, TypeOK, Kinds
<1>2. ASSUME NEW s \in Senders, RequestPeerGoneWrite(s) \/ RequestMeshUpdate(s)
      PROVE  TypeOK'
  BY <1>0, <1>2 DEF RequestPeerGoneWrite, RequestMeshUpdate, TypeOK, Kinds, Control
<1>3. ASSUME NEW s \in Senders, Wake(s) PROVE TypeOK'
  <2>1. spc[s] \in Kinds
    BY <1>3 DEF Wake, TypeOK
  <2> QED BY <1>3, <2>1, ClaimType DEF Wake, TypeOK
<1>4. CASE TimerFires
  BY <1>4 DEF TimerFires, TypeOK
<1>5. CASE OnKeepAliveTimer
  <2>1. "keepAlive" \in Kinds
    BY DEF Kinds, Control
  <2> QED BY <1>5, <2>1, ClaimType DEF OnKeepAliveTimer, TypeOK
<1>6. ASSUME NEW w \in Writers, TakePending(w) PROVE TypeOK'
  <2>1. CASE HandOff(w) /\ UNCHANGED <<work, budget>>
    BY <1>6, <2>1, HandOffType DEF TakePending, TypeOK
  <2>2. CASE ~(HandOff(w) /\ UNCHANGED <<work, budget>>)
    <3>1. Depth \in 0..Depth
      BY <1>0
    <3> QED BY <1>6, <2>2, <3>1 DEF TakePending, Goto, TypeOK
  <2> QED BY <2>1, <2>2
<1>7. ASSUME NEW w \in Writers, WritePeerGone(w) PROVE TypeOK'
  <2>1. work[w] \ {"peerGone"} \in SUBSET Kinds /\ 0 \in 0..MaxNotices
    BY <1>0 DEF TypeOK
  <2> QED BY <1>7, <2>1, WrittenType DEF WritePeerGone, TypeOK
<1>8. ASSUME NEW w \in Writers, WriteMesh(w) PROVE TypeOK'
  <2>1. work[w] \ {"mesh"} \in SUBSET Kinds /\ work[w] \in SUBSET Kinds
        /\ 0 \in 0..MaxNotices
    BY <1>0 DEF TypeOK
  <2>2. Written(w, work[w] \ {"mesh"}) \/ Written(w, work[w])
    BY <1>8 DEF WriteMesh, Written
  <2>3. mesh' \in 0..MaxNotices
    BY <1>8, <2>1 DEF WriteMesh, TypeOK
  <2>4. work' \in [Writers -> SUBSET Kinds] /\ wpc' \in [Writers -> Labels]
    BY <2>1, <2>2, WrittenType
  <2> QED BY <1>8, <2>3, <2>4 DEF WriteMesh, TypeOK
<1>9. ASSUME NEW w \in Writers, WritePong(w) PROVE TypeOK'
  <2>1. work[w] \ {"pong"} \in SUBSET Kinds
    BY DEF TypeOK
  <2> QED BY <1>9, <2>1, WrittenType DEF WritePong, TypeOK
<1>10. ASSUME NEW w \in Writers, WriteKeepAlive(w) PROVE TypeOK'
  <2>1. work[w] \ {"keepAlive"} \in SUBSET Kinds
    BY DEF TypeOK
  <2> QED BY <1>10, <2>1, WrittenType DEF WriteKeepAlive, Written, TypeOK
<1>11. ASSUME NEW w \in Writers, NEW k \in Queues, Dequeue(w, k) PROVE TypeOK'
  <2>1. work[w] \ {k} \in SUBSET Kinds /\ work[w] \in SUBSET Kinds
    BY DEF TypeOK
  <2>2. queued' \in [Queues -> 0..Depth] /\ budget' \in [Writers -> 0..Depth]
    BY <1>0, <1>11 DEF Dequeue, TypeOK
  <2>3. Written(w, work[w] \ {k}) \/ Written(w, work[w])
    BY <1>11 DEF Dequeue, Written
  <2>4. work' \in [Writers -> SUBSET Kinds] /\ wpc' \in [Writers -> Labels]
    BY <2>1, <2>3, WrittenType
  <2> QED BY <1>11, <2>2, <2>4 DEF Dequeue, TypeOK
<1>12. ASSUME NEW w \in Writers, EndPass(w) PROVE TypeOK'
  <2>1. 0 \in 0..Depth
    BY <1>0
  <2> QED BY <1>12, <2>1 DEF EndPass, Goto, TypeOK
<1>13. ASSUME NEW w \in Writers, Flush(w) \/ CloseOnError(w) \/ ExitWriterForStop(w)
       PROVE  TypeOK'
  <2>1. wpc' \in [Writers -> Labels]
    BY <1>13 DEF Flush, CloseOnError, ExitWriterForStop, Goto, TypeOK
  <2>2. CASE Flush(w)
    BY <2>1, <2>2 DEF Flush, TypeOK
  <2>3. CASE CloseOnError(w)
    BY <2>1, <2>3 DEF CloseOnError, TypeOK
  <2>4. CASE ExitWriterForStop(w)
    BY <2>1, <2>4 DEF ExitWriterForStop, TypeOK
  <2> QED BY <1>13, <2>2, <2>3, <2>4
<1>14. ASSUME NEW w \in Writers, TryParkWriter(w) \/ StopOnError(w) PROVE TypeOK'
  <2>1. CASE HandOff(w)
    BY <1>14, <2>1, HandOffType DEF TryParkWriter, StopOnError, TypeOK
  <2>2. CASE ~HandOff(w)
    BY <1>14, <2>2 DEF TryParkWriter, StopOnError, Goto, TypeOK
  <2> QED BY <2>1, <2>2
<1>15. CASE SendServerInfo
  BY <1>15 DEF SendServerInfo, Goto, TypeOK, Writers
<1>16. CASE Run \/ QueuePong \/ ReadError
  BY <1>16 DEF Run, QueuePong, ReadError, TypeOK
<1>17. CASE WakeForPong
  <2>1. "pong" \in Kinds
    BY DEF Kinds, Control
  <2> QED BY <1>17, <2>1, ClaimType DEF WakeForPong, TypeOK
<1>18. CASE StopWriter \/ WriterExited \/ StopTimer
  BY <1>18 DEF StopWriter, WriterExited, StopTimer, TypeOK
<1>19. ASSUME NEW k \in Queues, CloseQueue(k) PROVE TypeOK'
  <2>1. 0 \in 0..Depth
    BY <1>0
  <2> QED BY <1>19, <2>1 DEF CloseQueue, TypeOK
<1>20. CASE UNCHANGED vars
  BY <1>20 DEF vars, TypeOK
<1> QED
  BY <1>1, <1>2, <1>3, <1>4, <1>5, <1>6, <1>7, <1>8, <1>9, <1>10, <1>11, <1>12, <1>13,
     <1>14, <1>15, <1>16, <1>17, <1>18, <1>19, <1>20
  DEF Next, Producer, Writer, Write, Reader, Teardown, Ended

-----------------------------------------------------------------------------
(* The phases of the writer and of the reader. *)

\* A producer starts a writer only when there is none, and never the goroutine of
\* accept.
LEMMA ClaimHandOver ==
  ASSUME TypeOK, HandOver, NEW k \in Kinds, Claim(k),
         reader' = reader \/ (reader = "pong" /\ reader' = "read"), exited' = exited
  PROVE  HandOver'
<1>1. CASE phase = "parked"
  <2>1. NobodyWrites
    BY <1>1 DEF HandOver, WriterPhase, NobodyWrites, TypeOK, Busy
  <2>2. PICK w \in Spawned : wpc' = [wpc EXCEPT ![w] = "loop"]
    BY <1>1 DEF Claim
  <2>3. phase' = "running" /\ reader' \notin {"accept", "wait", "refused", "release", "close",
                                              "gone", "panic"} /\ ~exited'
    BY <1>1 DEF Claim, HandOver, ReaderPhase
  <2>4. \A v \in Writers : wpc'[v] = IF v = w THEN "loop" ELSE "idle"
    BY <2>1, <2>2 DEF NobodyWrites, TypeOK, Writers
  <2>5. w # Accept /\ Accept \in Writers
    BY SpawnedAssumption DEF Writers
  <2> QED BY <2>3, <2>4, <2>5 DEF HandOver, Alone, WriterPhase, ReaderPhase, Busy
<1>2. CASE phase # "parked"
  <2>1. phase' = phase /\ wpc' = wpc
    BY <1>2 DEF Claim
  <2> QED BY <2>1 DEF HandOver, Alone, WriterPhase, ReaderPhase, NobodyWrites
<1> QED BY <1>1, <1>2

\* A goroutine that stays in runWriter, in the same phase, disturbs nothing.
LEMMA StaysBusy ==
  ASSUME TypeOK, HandOver, NEW w \in Writers, wpc[w] \in Busy, NEW label \in Busy,
         wpc' = [wpc EXCEPT ![w] = label], UNCHANGED <<phase, reader, exited>>
  PROVE  HandOver'
<1>1. wpc[w] # "idle" /\ label # "idle" /\ label # "exiting" /\ label # "panic"
  BY DEF Busy
<1>2. \A v \in Writers : wpc'[v] = IF v = w THEN label ELSE wpc[v]
  BY DEF TypeOK
<1>3. ~NobodyWrites
  BY <1>1 DEF NobodyWrites
<1>4. Accept \in Writers
  BY DEF Writers
<1> QED BY <1>1, <1>2, <1>3, <1>4 DEF HandOver, Alone, WriterPhase, ReaderPhase

\* The outcome of a write.
LEMMA WrittenHandOver ==
  ASSUME TypeOK, HandOver, NEW w \in Writers, NEW rest, wpc[w] = "write",
         Written(w, rest), UNCHANGED <<phase, reader, exited>>
  PROVE  HandOver'
<1>1. CASE Done(w, rest)
  BY <1>1 DEF Done, HandOver, Alone, WriterPhase, ReaderPhase, NobodyWrites
<1>2. CASE Failed(w)
  BY <1>2, StaysBusy DEF Failed, Goto, Busy
<1> QED BY <1>1, <1>2 DEF Written

\* A goroutine that leaves runWriter, or is about to, leaves nobody behind.
LEMMA LeavesAlone ==
  ASSUME TypeOK, HandOver, NEW w \in Writers, wpc[w] # "idle", NEW label,
         wpc' = [wpc EXCEPT ![w] = label]
  PROVE  /\ \A v \in Writers : wpc'[v] = IF v = w THEN label ELSE "idle"
         /\ reader \notin {"accept", "refused", "release", "close", "gone"} /\ ~exited
         /\ w = Accept => reader = "writing"
<1>1. \A v \in Writers : v # w => wpc[v] = "idle"
  BY DEF HandOver, Alone
<1>2. ~NobodyWrites
  BY DEF NobodyWrites
<1> QED BY <1>1, <1>2 DEF HandOver, Alone, ReaderPhase, TypeOK

\* A writer that is told to go finds that the reader waits for it, and never a phase
\* it does not expect.
LEMMA HandOffHandOver ==
  ASSUME TypeOK, HandOver, NEW w \in Writers, wpc[w] \in Busy, HandOff(w),
         UNCHANGED <<reader, exited>>
  PROVE  HandOver'
<1>1. phase = "closing" /\ reader = "wait"
  BY DEF HandOver, WriterPhase, ReaderPhase, HandOff
<1>2. phase' = "stopped" /\ wpc' = [wpc EXCEPT ![w] = "exiting"]
  BY <1>1 DEF HandOff, Goto
<1>3. wpc[w] # "idle"
  BY DEF Busy
<1>4. /\ \A v \in Writers : wpc'[v] = IF v = w THEN "exiting" ELSE "idle"
      /\ ~exited /\ (w = Accept => reader = "writing")
  BY <1>2, <1>3, LeavesAlone
<1>5. Accept \in Writers
  BY DEF Writers
<1> QED
  BY <1>1, <1>2, <1>4, <1>5 DEF HandOver, Alone, WriterPhase, ReaderPhase, Busy

\* Every step keeps the phase, the writer and the reader in agreement.
LEMMA HandOverStep == TypeOK /\ HandOver /\ [Next]_vars => HandOver'
<1> SUFFICES ASSUME TypeOK, HandOver, [Next]_vars PROVE HandOver'
  OBVIOUS
<1> USE DEF workVars, writerVars
<1>0. ASSUME UNCHANGED <<phase, wpc, reader, exited>> PROVE HandOver'
  BY <1>0 DEF HandOver, Alone, WriterPhase, ReaderPhase, NobodyWrites
<1>1. ASSUME NEW s \in Senders, Producer(s) PROVE HandOver'
  <2>1. UNCHANGED <<phase, wpc, reader, exited>>
    BY <1>1 DEF Producer, Enqueue, RequestPeerGoneWrite, RequestMeshUpdate
  <2> QED BY <1>0, <2>1
<1>2. ASSUME NEW s \in Senders, Wake(s) PROVE HandOver'
  <2>1. spc[s] \in Kinds
    BY <1>2 DEF Wake, TypeOK
  <2>2. Claim(spc[s]) /\ reader' = reader /\ exited' = exited
    BY <1>2 DEF Wake
  <2> QED BY <2>1, <2>2, ClaimHandOver
<1>3. CASE TimerFires
  BY <1>0, <1>3 DEF TimerFires
<1>4. CASE OnKeepAliveTimer
  <2>1. "keepAlive" \in Kinds
    BY DEF Kinds, Control
  <2>2. Claim("keepAlive") /\ reader' = reader /\ exited' = exited
    BY <1>4 DEF OnKeepAliveTimer
  <2> QED BY <2>1, <2>2, ClaimHandOver
<1>5. ASSUME NEW w \in Writers, TakePending(w) PROVE HandOver'
  <2>1. wpc[w] \in Busy
    BY <1>5 DEF TakePending, Busy
  <2>2. CASE HandOff(w)
    BY <1>5, <2>1, <2>2, HandOffHandOver DEF TakePending
  <2>3. CASE ~HandOff(w)
    <3>1. PICK label \in Busy : Goto(w, label)
      BY <1>5, <2>3 DEF TakePending, Busy
    <3>2. UNCHANGED <<phase, reader, exited>>
      BY <1>5, <2>3 DEF TakePending
    <3> QED BY <2>1, <3>1, <3>2, StaysBusy DEF Goto
  <2> QED BY <2>2, <2>3
<1>6. ASSUME NEW w \in Writers, Write(w) PROVE HandOver'
  <2>1. wpc[w] = "write" /\ UNCHANGED <<phase, reader, exited>>
    BY <1>6
    DEF Write, WritePeerGone, WriteMesh, WritePong, WriteKeepAlive, Dequeue
  <2>2. \E rest : Written(w, rest)
    <3>1. CASE WritePeerGone(w)
      BY <3>1 DEF WritePeerGone
    <3>2. CASE WriteMesh(w)
      BY <3>2 DEF WriteMesh, Written
    <3>3. CASE WritePong(w)
      BY <3>3 DEF WritePong
    <3>4. CASE WriteKeepAlive(w)
      BY <3>4 DEF WriteKeepAlive, Written
    <3>5. ASSUME NEW k \in Queues, Dequeue(w, k) PROVE \E rest : Written(w, rest)
      BY <3>5 DEF Dequeue, Written
    <3> QED BY <1>6, <3>1, <3>2, <3>3, <3>4, <3>5 DEF Write
  <2> QED BY <2>1, <2>2, WrittenHandOver
<1>7. ASSUME NEW w \in Writers, EndPass(w) \/ Flush(w) \/ CloseOnError(w) PROVE HandOver'
  <2>1. wpc[w] \in Busy /\ UNCHANGED <<phase, reader, exited>>
    BY <1>7 DEF EndPass, Flush, CloseOnError, Busy
  <2>2. PICK label \in Busy : Goto(w, label)
    BY <1>7 DEF EndPass, Flush, CloseOnError, Busy
  <2> QED BY <2>1, <2>2, StaysBusy DEF Goto
<1>8. ASSUME NEW w \in Writers, TryParkWriter(w) \/ StopOnError(w) PROVE HandOver'
  <2>1. wpc[w] \in Busy /\ UNCHANGED <<reader, exited>>
    BY <1>8 DEF TryParkWriter, StopOnError, Busy
  <2>2. CASE HandOff(w)
    BY <2>1, <2>2, HandOffHandOver
  <2>3. CASE Goto(w, "loop") /\ UNCHANGED phase
    BY <2>1, <2>3, StaysBusy DEF Goto, Busy
  <2>4. CASE phase = "running" /\ phase' \in {"parked", "stopped"} /\ Goto(w, "idle")
    <3>1. wpc[w] # "idle" /\ reader # "wait"
      BY <2>1, <2>4 DEF Busy, HandOver, ReaderPhase
    <3>2. /\ \A v \in Writers : wpc'[v] = "idle"
          /\ reader \notin {"accept", "refused", "release", "close", "gone"} /\ ~exited
      BY <2>4, <3>1, LeavesAlone DEF Goto
    <3>3. reader # "panic" /\ Accept \in Writers
      BY DEF HandOver, ReaderPhase, Writers
    <3> QED
      BY <2>1, <2>4, <3>1, <3>2, <3>3
      DEF HandOver, Alone, WriterPhase, ReaderPhase, Busy
  <2> QED BY <1>8, <2>2, <2>3, <2>4 DEF TryParkWriter, StopOnError
<1>9. ASSUME NEW w \in Writers, ExitWriterForStop(w) PROVE HandOver'
  <2>1. wpc[w] = "exiting" /\ phase = "stopped" /\ reader = "wait"
    BY <1>9 DEF ExitWriterForStop, HandOver, WriterPhase
  <2>2. \A v \in Writers : wpc'[v] = "idle"
    <3>1. wpc[w] # "idle" /\ wpc' = [wpc EXCEPT ![w] = "idle"]
      BY <1>9, <2>1 DEF ExitWriterForStop, Goto
    <3>2. \A v \in Writers : wpc'[v] = IF v = w THEN "idle" ELSE "idle"
      BY <3>1, LeavesAlone, Zenon
    <3> QED BY <3>2
  <2>3. UNCHANGED <<phase, reader>> /\ Accept \in Writers
    BY <1>9 DEF ExitWriterForStop, Writers
  <2> QED
    BY <2>1, <2>2, <2>3 DEF HandOver, Alone, WriterPhase, ReaderPhase, NobodyWrites, Busy
<1>10. CASE SendServerInfo
  <2>1. NobodyWrites /\ phase = "running" /\ ~exited /\ Accept \in Writers
    BY <1>10 DEF SendServerInfo, HandOver, ReaderPhase, Writers
  <2>2. CASE reader' = "writing"
    <3>1. \A v \in Writers : wpc'[v] = IF v = Accept THEN "loop" ELSE "idle"
      BY <1>10, <2>1, <2>2 DEF SendServerInfo, Goto, NobodyWrites, TypeOK
    <3>2. phase' = "running" /\ ~exited'
      BY <1>10, <2>1, <2>2 DEF SendServerInfo
    <3> QED
      BY <2>2, <3>1, <3>2 DEF HandOver, Alone, WriterPhase, ReaderPhase, Busy
  <2>3. CASE reader' = "refused"
    <3>1. phase' = "stopped" /\ ~exited' /\ \A v \in Writers : wpc'[v] = "idle"
      BY <1>10, <2>1, <2>3 DEF SendServerInfo, NobodyWrites
    <3> QED
      BY <2>1, <2>3, <3>1
      DEF HandOver, Alone, WriterPhase, ReaderPhase, NobodyWrites, Busy
  <2> QED BY <1>10, <2>2, <2>3 DEF SendServerInfo
<1>11. CASE Run \/ QueuePong \/ ReadError
  <2>1. /\ reader \in {"writing", "read"} /\ reader' \in {"read", "pong", "stop"}
        /\ wpc[Accept] = "idle" /\ UNCHANGED <<phase, wpc, exited>>
    BY <1>11 DEF Run, QueuePong, ReadError, HandOver, Alone
  <2> QED
    BY <2>1 DEF HandOver, Alone, WriterPhase, ReaderPhase, NobodyWrites
<1>12. CASE WakeForPong
  <2>1. "pong" \in Kinds
    BY DEF Kinds, Control
  <2>2. Claim("pong") /\ reader = "pong" /\ reader' = "read" /\ exited' = exited
    BY <1>12 DEF WakeForPong
  <2> QED BY <2>1, <2>2, ClaimHandOver
<1>13. CASE StopWriter
  <2>1. reader = "stop" /\ phase # "closing" /\ UNCHANGED <<wpc, exited>>
    BY <1>13 DEF StopWriter, HandOver, ReaderPhase
  <2>2. \A w \in Writers : wpc[w] # "exiting" /\ wpc[w] # "panic"
    BY <2>1 DEF HandOver, WriterPhase
  <2>3. CASE phase = "running"
    <3>1. phase' = "closing" /\ reader' = "wait" /\ ~exited
      BY <1>13, <2>3 DEF StopWriter, HandOver, ReaderPhase
    <3>2. wpc[Accept] = "idle"
      BY <2>1 DEF HandOver, Alone
    <3> QED
      BY <2>1, <2>2, <3>1, <3>2 DEF HandOver, Alone, WriterPhase, ReaderPhase
  <2>4. CASE phase # "running"
    <3>1. phase' = "stopped" /\ reader' = "release"
      BY <1>13, <2>1, <2>4 DEF StopWriter
    <3>2. NobodyWrites
      BY <2>1, <2>2, <2>4 DEF HandOver, WriterPhase, NobodyWrites, TypeOK, Busy
    <3>3. Accept \in Writers
      BY DEF Writers
    <3> QED
      BY <2>1, <3>1, <3>2, <3>3
      DEF HandOver, Alone, WriterPhase, ReaderPhase, NobodyWrites, Busy
  <2> QED BY <2>3, <2>4
<1>14. CASE WriterExited
  <2>1. exited /\ phase = "stopped" /\ NobodyWrites /\ Accept \in Writers
    BY <1>14 DEF WriterExited, HandOver, ReaderPhase, Writers
  <2>2. reader' = "release" /\ UNCHANGED <<phase, wpc, exited>>
    BY <1>14 DEF WriterExited
  <2> QED
    BY <2>1, <2>2 DEF HandOver, Alone, WriterPhase, ReaderPhase, NobodyWrites, Busy
<1>15. CASE StopTimer \/ \E k \in Queues : CloseQueue(k)
  <2>1. /\ reader \in {"release", "close"} /\ reader' \in {"close", "gone"}
        /\ UNCHANGED <<phase, wpc, exited>>
    BY <1>15 DEF StopTimer, CloseQueue
  <2>2. phase = "stopped" /\ NobodyWrites /\ Accept \in Writers
    BY <2>1 DEF HandOver, ReaderPhase, Writers
  <2> QED
    BY <2>1, <2>2 DEF HandOver, Alone, WriterPhase, ReaderPhase, NobodyWrites, Busy
<1>16. CASE UNCHANGED vars
  BY <1>0, <1>16 DEF vars
<1> QED
  BY <1>1, <1>2, <1>3, <1>4, <1>5, <1>6, <1>7, <1>8, <1>9, <1>10, <1>11, <1>12, <1>13,
     <1>14, <1>15, <1>16
  DEF Next, Writer, Reader, Teardown, Ended

\* accept starts in agreement.
LEMMA InitHandOver == Init => TypeOK /\ HandOver
<1> SUFFICES ASSUME Init PROVE TypeOK /\ HandOver
  OBVIOUS
<1>1. 0 \in 0..Depth /\ 0 \in 0..MaxNotices
  BY DepthAssumption, NoticesAssumption
<1>2. TypeOK
  BY <1>1 DEF Init, TypeOK
<1>3. HandOver
  BY DEF Init, HandOver, Alone, WriterPhase, ReaderPhase, NobodyWrites, Busy, Writers
<1> QED BY <1>2, <1>3

\* For any number of goroutines and senders and queues of any depth, runWriter is
\* never run by two goroutines, nobody writes to a connection that is being torn
\* down, and none of the panics of the writer's state is reached.
THEOREM WriterIsSound == Spec => []WriterSound
<1>1. Init => TypeOK /\ HandOver
  BY InitHandOver
<1>2. TypeOK /\ HandOver /\ [Next]_vars => TypeOK' /\ HandOver'
  BY TypeStep, HandOverStep
<1>3. TypeOK /\ HandOver => WriterSound
  BY DEF HandOver, Alone, WriterPhase, ReaderPhase, NobodyWrites, WriterSound, OneWriter,
         NoPanic
<1> QED BY <1>1, <1>2, <1>3, PTL DEF Spec

-----------------------------------------------------------------------------
(* Work and who knows of it. *)

\* Every step keeps a parked word clear and what has been closed closed.
LEMMA QuietStep == TypeOK /\ HandOver /\ Quiet /\ [Next]_vars => Quiet'
<1> SUFFICES ASSUME TypeOK, HandOver, Quiet, [Next]_vars PROVE Quiet'
  OBVIOUS
<1> USE DEF workVars, writerVars
<1>0. ASSUME NEW k, Claim(k), UNCHANGED <<queued, qClosed>>,
             reader' = reader \/ reader' = "read",
             timer' = timer \/ timer' = "off"
      PROVE  Quiet'
  BY <1>0 DEF Claim, Quiet
<1>1. ASSUME NEW s \in Senders, NEW k \in Queues, Enqueue(s, k) PROVE Quiet'
  BY <1>1 DEF Enqueue, Quiet, TypeOK
<1>2. ASSUME NEW s \in Senders, RequestPeerGoneWrite(s) \/ RequestMeshUpdate(s) PROVE Quiet'
  BY <1>2 DEF RequestPeerGoneWrite, RequestMeshUpdate, Quiet
<1>3. ASSUME NEW s \in Senders, Wake(s) PROVE Quiet'
  BY <1>0, <1>3 DEF Wake
<1>4. CASE TimerFires
  BY <1>4 DEF TimerFires, Quiet
<1>5. CASE OnKeepAliveTimer
  BY <1>0, <1>5 DEF OnKeepAliveTimer
<1>6. ASSUME NEW w \in Writers, TakePending(w) \/ TryParkWriter(w) \/ StopOnError(w)
      PROVE  Quiet'
  <2>1. UNCHANGED <<queued, qClosed, reader, timer>>
    BY <1>6 DEF TakePending, TryParkWriter, StopOnError
  <2>2. phase' = "parked" => pending' = {}
    BY <1>6 DEF TakePending, TryParkWriter, StopOnError, HandOff, Quiet
  <2> QED BY <2>1, <2>2 DEF Quiet
<1>7. ASSUME NEW w \in Writers, WritePeerGone(w) \/ WriteMesh(w) \/ WritePong(w)
      PROVE  Quiet'
  BY <1>7 DEF WritePeerGone, WriteMesh, WritePong, Quiet
<1>8. ASSUME NEW w \in Writers, WriteKeepAlive(w) PROVE Quiet'
  <2>1. reader \notin {"close", "gone"}
    BY <1>8 DEF WriteKeepAlive, HandOver, ReaderPhase, NobodyWrites
  <2> QED BY <1>8, <2>1 DEF WriteKeepAlive, Quiet
<1>9. ASSUME NEW w \in Writers, NEW k \in Queues, Dequeue(w, k) PROVE Quiet'
  <2>1. UNCHANGED <<phase, pending, qClosed, reader, timer>>
    BY <1>9 DEF Dequeue
  <2>2. \A q \in Queues : queued'[q] = queued[q] \/ (q = k /\ queued[k] > 0)
    BY <1>9 DEF Dequeue, TypeOK
  <2>3. \A q \in Queues : queued[q] = 0 => queued'[q] = 0
    BY <2>2
  <2> QED BY <2>1, <2>3 DEF Quiet
<1>10. ASSUME NEW w \in Writers,
              EndPass(w) \/ Flush(w) \/ CloseOnError(w) \/ ExitWriterForStop(w)
       PROVE  Quiet'
  BY <1>10 DEF EndPass, Flush, CloseOnError, ExitWriterForStop, Quiet
<1>11. CASE SendServerInfo \/ Run \/ QueuePong \/ ReadError
  BY <1>11 DEF SendServerInfo, Run, QueuePong, ReadError, Quiet
<1>12. CASE WakeForPong
  BY <1>0, <1>12 DEF WakeForPong
<1>13. CASE StopWriter \/ WriterExited \/ StopTimer
  BY <1>13 DEF StopWriter, WriterExited, StopTimer, Quiet
<1>14. ASSUME NEW k \in Queues, CloseQueue(k) PROVE Quiet'
  <2>1. UNCHANGED <<phase, pending, timer>> /\ reader = "close"
    BY <1>14 DEF CloseQueue
  <2>2. \A q \in Queues : qClosed'[q] => queued'[q] = 0
    BY <1>14 DEF CloseQueue, Quiet, TypeOK
  <2>3. reader' = "gone" => \A q \in Queues : qClosed'[q]
    BY <1>14, <2>1 DEF CloseQueue, Queues, TypeOK
  <2> QED BY <2>1, <2>2, <2>3 DEF Quiet
<1>15. CASE UNCHANGED vars
  BY <1>15 DEF vars, Quiet
<1> QED
  BY <1>1, <1>2, <1>3, <1>4, <1>5, <1>6, <1>7, <1>8, <1>9, <1>10, <1>11, <1>12, <1>13,
     <1>14, <1>15
  DEF Next, Producer, Writer, Write, Reader, Teardown, Ended

\* What is known stays known while no part of it is taken away.
LEMMA KnownStays ==
  ASSUME NEW k \in Kinds, Known(k), pending \subseteq pending',
         \A w \in Writers : work[w] \subseteq work'[w],
         \A s \in Senders : spc[s] \in Kinds => spc'[s] = spc[s]
  PROVE  Known(k)'
BY DEF Known

\* A claim that leaves the connection in service adds to what is known.
LEMMA ClaimKnown ==
  ASSUME TypeOK, Quiet, NEW k \in Kinds, Claim(k), InService'
  PROVE  InService /\ pending' = pending \cup {k}
<1>1. phase \in {"parked", "running"}
  BY DEF Claim, InService, TypeOK
<1>2. CASE phase = "parked"
  <2>1. PICK w \in Spawned : wpc[w] = "idle" /\ wpc' = [wpc EXCEPT ![w] = "loop"]
    BY <1>2 DEF Claim
  <2>2. \A v \in Writers : wpc[v] = wpc'[v] \/ wpc[v] = "idle"
    BY <2>1 DEF TypeOK, Writers
  <2> QED BY <1>2, <2>2 DEF Claim, InService, Quiet
<1>3. CASE phase = "running"
  BY <1>3 DEF Claim, InService
<1> QED BY <1>1, <1>2, <1>3

\* A write that leaves the connection in service has succeeded, and only the work it
\* was for is off the list.
LEMMA WrittenKnown ==
  ASSUME TypeOK, NEW w \in Writers, NEW rest \in SUBSET Kinds, Written(w, rest),
         NEW gone \in Kinds, work[w] \ {gone} \subseteq rest,
         UNCHANGED <<phase, pending, spc>>, InService'
  PROVE  InService /\ \A k \in Kinds : Known(k) => Known(k)' \/ k = gone
<1>1. wpc' = wpc /\ work' = [work EXCEPT ![w] = rest]
  BY DEF Written, Done, Failed, Goto, InService, TypeOK
<1>2. InService
  BY <1>1 DEF InService
<1>3. \A v \in Writers : work[v] \ {gone} \subseteq work'[v]
  BY <1>1 DEF TypeOK
<1>4. ASSUME NEW k \in Kinds, Known(k), k # gone PROVE Known(k)'
  BY <1>3, <1>4 DEF Known
<1> QED BY <1>2, <1>4

\* No step leaves work that nobody knows of.
LEMMA KnownStep == TypeOK /\ HandOver /\ Quiet /\ AllKnown /\ [Next]_vars => AllKnown'
<1> SUFFICES ASSUME TypeOK, HandOver, Quiet, AllKnown, [Next]_vars, InService',
                    NEW k \in Kinds, Waiting(k)'
             PROVE  Known(k)'
  BY DEF AllKnown
<1> USE DEF workVars, writerVars
<1>0. "idle" \notin Kinds /\ {"peerGone", "mesh", "pong", "keepAlive"} \subseteq Kinds
      /\ Queues \subseteq Kinds
  BY DEF Kinds, Queues, Control
<1>same. ASSUME InService, Waiting(k), UNCHANGED <<pending, work, spc>> PROVE Known(k)'
  BY <1>same DEF AllKnown, Known
<1>1. ASSUME NEW s \in Senders, NEW q \in Queues, Enqueue(s, q) PROVE Known(k)'
  <2>1. InService
    BY <1>1 DEF Enqueue, InService
  <2>2. CASE Waiting(k)
    <3>1. Known(k)
      BY <2>1, <2>2 DEF AllKnown
    <3>2. \A r \in Senders : spc[r] \in Kinds => spc'[r] = spc[r]
      BY <1>0, <1>1 DEF Enqueue, TypeOK
    <3>3. UNCHANGED <<pending, work>>
      BY <1>1 DEF Enqueue
    <3> QED BY <3>1, <3>2, <3>3, KnownStays
  <2>3. CASE ~Waiting(k)
    <3>1. k = q /\ ~(queued[q] > 0)
      BY <1>1, <2>3 DEF Enqueue, Waiting, TypeOK
    <3>2. queued[q] = 0
      BY <3>1, DepthAssumption DEF TypeOK
    <3>3. spc'[s] = k
      BY <1>1, <3>1, <3>2 DEF Enqueue, TypeOK
    <3> QED BY <3>3 DEF Known
  <2> QED BY <2>2, <2>3
<1>2. ASSUME NEW s \in Senders, RequestPeerGoneWrite(s) \/ RequestMeshUpdate(s)
      PROVE  Known(k)'
  <2>1. InService /\ UNCHANGED <<pending, work>>
    BY <1>2 DEF RequestPeerGoneWrite, RequestMeshUpdate, InService
  <2>2. CASE Waiting(k)
    <3>1. Known(k)
      BY <2>1, <2>2 DEF AllKnown
    <3>2. \A r \in Senders : spc[r] \in Kinds => spc'[r] = spc[r]
      BY <1>0, <1>2 DEF RequestPeerGoneWrite, RequestMeshUpdate, TypeOK
    <3> QED BY <2>1, <3>1, <3>2, KnownStays
  <2>3. CASE ~Waiting(k)
    <3>1. spc'[s] = k
      BY <1>2, <2>3 DEF RequestPeerGoneWrite, RequestMeshUpdate, Waiting, TypeOK
    <3> QED BY <3>1 DEF Known
  <2> QED BY <2>2, <2>3
<1>3. ASSUME NEW s \in Senders, Wake(s) PROVE Known(k)'
  <2>1. spc[s] \in Kinds /\ Claim(spc[s]) /\ UNCHANGED <<work, workVars, reader, timer>>
    BY <1>3 DEF Wake, TypeOK
  <2>2. InService /\ pending' = pending \cup {spc[s]}
    BY <2>1, ClaimKnown
  <2>3. Known(k)
    BY <2>1, <2>2 DEF AllKnown, Waiting
  <2>4. \A r \in Senders : r # s => spc'[r] = spc[r]
    BY <1>3 DEF Wake, TypeOK
  <2> QED BY <2>1, <2>2, <2>3, <2>4 DEF Known
<1>4. CASE TimerFires
  <2>1. InService /\ Waiting(k) /\ UNCHANGED <<pending, work, spc>>
    BY <1>4 DEF TimerFires, InService, Waiting
  <2> QED BY <2>1, <1>same
<1>5. CASE OnKeepAliveTimer
  <2>1. InService /\ pending' = pending \cup {"keepAlive"} /\ UNCHANGED <<work, spc>>
    BY <1>0, <1>5, ClaimKnown DEF OnKeepAliveTimer
  <2>2. Waiting(k) \/ k = "keepAlive"
    BY <1>5 DEF OnKeepAliveTimer, Waiting
  <2> QED BY <2>1, <2>2 DEF AllKnown, Known
<1>6. ASSUME NEW w \in Writers, TakePending(w) PROVE Known(k)'
  <2>1. ~HandOff(w)
    <3>1. phase \in {"running", "closing"}
      BY <1>6 DEF TakePending, HandOver, WriterPhase, Busy
    <3> QED BY <3>1 DEF HandOff, InService
  <2>2. UNCHANGED <<phase, spc, workVars, reader, timer>> /\ pending' = {}
        /\ work' = [work EXCEPT ![w] = @ \cup pending]
    BY <1>6, <2>1 DEF TakePending
  <2>3. InService
    <3>1. \A v \in Writers : wpc'[v] = wpc[v] \/ wpc[v] = "loop"
      BY <1>6, <2>1 DEF TakePending, Goto, TypeOK
    <3> QED BY <2>2, <3>1 DEF InService
  <2>4. Known(k)
    BY <2>2, <2>3 DEF AllKnown, Waiting
  <2>5. pending \subseteq work'[w] /\ \A v \in Writers : work[v] \subseteq work'[v]
    BY <2>2 DEF TypeOK
  <2> QED BY <2>2, <2>4, <2>5 DEF Known
<1>7. ASSUME NEW w \in Writers, WritePeerGone(w) PROVE Known(k)'
  <2>1. Written(w, work[w] \ {"peerGone"}) /\ work[w] \ {"peerGone"} \in SUBSET Kinds
        /\ UNCHANGED <<phase, pending, spc>>
    BY <1>7 DEF WritePeerGone, TypeOK
  <2>2. InService /\ \A j \in Kinds : Known(j) => Known(j)' \/ j = "peerGone"
    BY <1>0, <2>1, WrittenKnown
  <2>3. k # "peerGone" /\ Waiting(k)
    BY <1>7 DEF WritePeerGone, Waiting, Queues
  <2> QED BY <2>2, <2>3 DEF AllKnown
<1>8. ASSUME NEW w \in Writers, WriteMesh(w) PROVE Known(k)'
  <2>1. PICK rest \in {work[w], work[w] \ {"mesh"}} : Written(w, rest)
    BY <1>8 DEF WriteMesh, Written
  <2>2. rest \in SUBSET Kinds /\ work[w] \ {"mesh"} \subseteq rest
        /\ UNCHANGED <<phase, pending, spc>>
    BY <1>8, <2>1 DEF WriteMesh, TypeOK
  <2>3. InService /\ \A j \in Kinds : Known(j) => Known(j)' \/ j = "mesh"
    BY <1>0, <2>1, <2>2, WrittenKnown
  <2>4. k # "mesh" /\ Waiting(k)
    BY <1>8 DEF WriteMesh, Waiting, Queues
  <2> QED BY <2>3, <2>4 DEF AllKnown
<1>9. ASSUME NEW w \in Writers, WritePong(w) PROVE Known(k)'
  <2>1. Written(w, work[w] \ {"pong"}) /\ work[w] \ {"pong"} \in SUBSET Kinds
        /\ UNCHANGED <<phase, pending, spc>>
    BY <1>9 DEF WritePong, TypeOK
  <2>2. InService /\ \A j \in Kinds : Known(j) => Known(j)' \/ j = "pong"
    BY <1>0, <2>1, WrittenKnown
  <2>3. k # "pong" /\ Waiting(k)
    BY <1>9 DEF WritePong, Waiting, Queues
  <2> QED BY <2>2, <2>3 DEF AllKnown
<1>10. ASSUME NEW w \in Writers, WriteKeepAlive(w) PROVE Known(k)'
  <2>1. ~Failed(w)
    BY DEF Failed, Goto, InService, TypeOK
  <2>2. /\ Written(w, work[w] \ {"keepAlive"}) /\ timer' = "armed"
        /\ work[w] \ {"keepAlive"} \in SUBSET Kinds /\ UNCHANGED <<phase, pending, spc>>
    BY <1>10, <2>1 DEF WriteKeepAlive, Written, TypeOK
  <2>3. InService /\ \A j \in Kinds : Known(j) => Known(j)' \/ j = "keepAlive"
    BY <1>0, <2>2, WrittenKnown
  <2>4. k # "keepAlive" /\ Waiting(k)
    BY <1>10, <2>2 DEF WriteKeepAlive, Waiting, Queues
  <2> QED BY <2>3, <2>4 DEF AllKnown
<1>11. ASSUME NEW w \in Writers, NEW q \in Queues, Dequeue(w, q) PROVE Known(k)'
  <2>0. UNCHANGED <<phase, pending, spc, reader, timer, peerGone, mesh, pong>>
    BY <1>11 DEF Dequeue
  <2>1. \A r \in Queues : queued[r] \in Nat /\ (r # q => queued'[r] = queued[r])
    BY <1>11, DepthAssumption DEF Dequeue, TypeOK
  <2>2. CASE queued[q] > 1
    <3>1. Written(w, work[w]) /\ work[w] \in SUBSET Kinds
      BY <1>11, <2>2 DEF Dequeue, TypeOK
    <3>2. InService /\ wpc' = wpc /\ work' = [work EXCEPT ![w] = work[w]]
      BY <2>0, <3>1 DEF Written, Done, Failed, Goto, InService, TypeOK
    <3>3. work' = work
      BY <3>2 DEF TypeOK
    <3>4. Waiting(k)
      BY <2>0, <2>1, <2>2 DEF Waiting, Queues
    <3> QED BY <2>0, <3>2, <3>3, <3>4, <1>same
  <2>3. CASE ~(queued[q] > 1)
    <3>1. Written(w, work[w] \ {q}) /\ work[w] \ {q} \in SUBSET Kinds
      BY <1>11, <2>3 DEF Dequeue, Written, TypeOK
    <3>2. InService /\ \A j \in Kinds : Known(j) => Known(j)' \/ j = q
      BY <1>0, <2>0, <3>1, WrittenKnown
    <3>3. queued'[q] = 0
      BY <1>11, <2>1, <2>3 DEF Dequeue, TypeOK
    <3>4. k # q /\ Waiting(k)
      BY <2>0, <2>1, <3>3 DEF Waiting, Queues
    <3> QED BY <3>2, <3>4 DEF AllKnown
  <2> QED BY <2>2, <2>3
<1>12. ASSUME NEW w \in Writers,
              EndPass(w) \/ Flush(w) \/ CloseOnError(w) \/ ExitWriterForStop(w)
       PROVE  Known(k)'
  <2>1. UNCHANGED <<phase, pending, work, spc, workVars, reader, timer>>
    BY <1>12 DEF EndPass, Flush, CloseOnError, ExitWriterForStop
  <2>2. InService
    <3>1. \A v \in Writers : wpc'[v] = wpc[v] \/ wpc[v] \notin {"failed", "stopping"}
                             \/ wpc'[v] = "stopping"
      BY <1>12 DEF EndPass, Flush, CloseOnError, ExitWriterForStop, Goto, TypeOK
    <3> QED BY <2>1, <3>1 DEF InService
  <2>3. Waiting(k)
    BY <2>1 DEF Waiting
  <2> QED BY <2>1, <2>2, <2>3, <1>same
<1>13. ASSUME NEW w \in Writers, TryParkWriter(w) \/ StopOnError(w) PROVE Known(k)'
  <2>1. ~HandOff(w)
    <3>1. phase \in {"running", "closing"}
      BY <1>13 DEF TryParkWriter, StopOnError, HandOver, WriterPhase, Busy
    <3> QED BY <3>1 DEF HandOff, InService
  <2>2. TryParkWriter(w) /\ UNCHANGED <<pending, work, spc, workVars, reader, timer>>
    BY <1>13, <2>1 DEF TryParkWriter, StopOnError, InService
  <2>3. InService
    <3>1. \A v \in Writers : wpc'[v] = wpc[v] \/ wpc[v] = "park"
      BY <2>1, <2>2 DEF TryParkWriter, Goto, TypeOK
    <3> QED BY <2>1, <2>2, <3>1 DEF TryParkWriter, InService
  <2>4. Waiting(k)
    BY <2>2 DEF Waiting
  <2> QED BY <2>2, <2>3, <2>4, <1>same
<1>14. CASE SendServerInfo
  <2>1. UNCHANGED <<phase, pending, work, spc, workVars, timer>> /\ reader' = "writing"
        /\ Goto(Accept, "loop") /\ reader = "accept"
    BY <1>14 DEF SendServerInfo, InService
  <2>2. InService
    BY <2>1 DEF HandOver, ReaderPhase, NobodyWrites, InService
  <2>3. Waiting(k)
    BY <2>1 DEF Waiting
  <2> QED BY <2>1, <2>2, <2>3, <1>same
<1>15. CASE Run \/ QueuePong \/ ReadError
  <2>1. UNCHANGED <<phase, wpc, pending, work, spc>>
    BY <1>15 DEF Run, QueuePong, ReadError
  <2>2. Waiting(k)
    BY <1>15 DEF Run, QueuePong, ReadError, Waiting
  <2> QED BY <2>1, <2>2, <1>same DEF InService
<1>16. CASE WakeForPong
  <2>1. InService /\ pending' = pending \cup {"pong"} /\ UNCHANGED <<work, spc>>
    BY <1>0, <1>16, ClaimKnown DEF WakeForPong
  <2>2. Waiting(k) \/ k = "pong"
    BY <1>16 DEF WakeForPong, Waiting
  <2> QED BY <2>1, <2>2 DEF AllKnown, Known
<1>17. CASE Teardown
  <2>1. phase' \in {"closing", "stopped"}
    BY <1>17
    DEF Teardown, StopWriter, WriterExited, StopTimer, CloseQueue, HandOver, ReaderPhase
  <2> QED BY <2>1 DEF InService
<1>18. CASE UNCHANGED vars
  BY <1>18, <1>same DEF vars, InService, Waiting
<1> QED
  BY <1>1, <1>2, <1>3, <1>4, <1>5, <1>6, <1>7, <1>8, <1>9, <1>10, <1>11, <1>12, <1>13,
     <1>14, <1>15, <1>16, <1>17, <1>18
  DEF Next, Producer, Writer, Write, Reader, Ended

\* What the conjuncts of WorkKept ask for is what AllKnown and Quiet say.
LEMMA KeptFollows == TypeOK /\ AllKnown /\ Quiet => WorkKept
<1> SUFFICES ASSUME TypeOK, AllKnown, Quiet PROVE WorkKept
  OBVIOUS
<1>1. Queues \subseteq Kinds /\ {"peerGone", "mesh", "pong", "keepAlive"} \subseteq Kinds
  BY DEF Kinds, Control
<1>2. NoWorkLost
  BY <1>1 DEF AllKnown, Waiting, NoWorkLost
<1>3. KeepAliveKept
  BY <1>1 DEF AllKnown, Waiting, KeepAliveKept, Quiet
<1>4. GoneIsEmpty
  BY DEF GoneIsEmpty, Quiet
<1> QED BY <1>2, <1>3, <1>4 DEF WorkKept

\* For any number of goroutines and senders and queues of any depth: as long as a
\* connection is in service, whatever is queued for it, a notice, a pong or the next
\* keepalive is known to the word, to the writer or to the one that published it; and
\* the queues and the timer of a connection that is gone stay empty and off.
THEOREM WorkIsKept == Spec => []WorkKept
<1> DEFINE IInv == TypeOK /\ HandOver /\ Quiet /\ AllKnown
<1>1. Init => IInv
  <2> SUFFICES ASSUME Init PROVE Quiet /\ AllKnown
    BY InitHandOver
  <2>1. Quiet
    BY DEF Init, Quiet
  <2>2. AllKnown
    BY DEF Init, AllKnown, Waiting
  <2> QED BY <2>1, <2>2
<1>2. IInv /\ [Next]_vars => IInv'
  BY TypeStep, HandOverStep, QuietStep, KnownStep
<1>3. IInv => WorkKept
  BY KeptFollows
<1> QED BY <1>1, <1>2, <1>3, PTL DEF Spec
=============================================================================
