------------------------- MODULE ControlAutoProofs -------------------------
(***************************************************************************)
(* Proofs about ControlAuto, for every set of callers and every bound: the *)
(* type invariant, the four properties of the routines that TLC checks on  *)
(* small instances (NoLostWakeup, OnlyWhileLoggedIn, LoginWanted,          *)
(* ServerInformed), and the two about the netmaps that the observer is     *)
(* given (ObserverCurrent, NetmapsInOrder).                                *)
(*                                                                         *)
(* NoLostWakeup and OnlyWhileLoggedIn are inductive relative to TypeOK.    *)
(* LoginWanted needs GoalWanted, and ServerInformed needs GenInv and       *)
(* InfoInv, which say what each update generation stands for.  The last    *)
(* two need ObserverInv: netmaps wait for the observer in order, and on a  *)
(* live poll the last one is always on its way, as a status that will not  *)
(* be skipped or as a delta behind the netmap it is a delta to.            *)
(***************************************************************************)
EXTENDS ControlAuto, QueueLemmas, TLAPS

-----------------------------------------------------------------------------
(* The type invariant.                                                     *)

\* What a jump of goroutine p to one of its own labels does to pc.
LEMMA JumpType ==
  ASSUME TypePc, NEW p \in Procs, NEW l \in LabelsOf(p), Jump(p, l)
  PROVE  /\ TypePc'
         /\ pc'[p] = l
         /\ \A q \in Procs : q # p => pc'[q] = pc[q]
<1>1. l \in UNION {LabelsOf(q) : q \in Procs}
  OBVIOUS
<1> QED BY <1>1 DEF TypePc, Jump

\* LabelsOf, goroutine by goroutine.
LEMMA LabelsAre ==
  /\ LabelsOf("auth") = AuthLabels
  /\ LabelsOf("map") = MapLabels
  /\ LabelsOf("update") = UpdateLabels
  /\ LabelsOf("logout") = LogoutLabels
  /\ LabelsOf("shutdown") = ShutdownLabels
  /\ \A p \in Callers : LabelsOf(p) = CallerLabels
  BY CallersDistinct DEF LabelsOf

\* The initial states are of the right type.
LEMMA InitType == Init => TypeOK
<1> SUFFICES ASSUME Init PROVE TypeOK
  OBVIOUS
<1>1. TypeFields
  <2>1. NoGoal \in Goals
    BY DEF NoGoal, Goals
  <2>2. paused \in BOOLEAN
    BY Bounds DEF Init
  <2> QED BY <2>1, <2>2 DEF Init, TypeFields
<1>2. TypePc
  <2>1. \A p \in Procs : pc[p] = IF p \in Routines THEN "top" ELSE "idle"
    BY DEF Init
  <2>2. \A p \in Procs : pc[p] \in LabelsOf(p)
    BY <2>1, LabelsAre
    DEF Procs, Informers, Routines, AuthLabels, MapLabels, UpdateLabels, LogoutLabels,
        ShutdownLabels, CallerLabels, LoopLabels
  <2> QED BY <2>2 DEF Init, TypePc
<1>3. TypeCtx
  BY DEF Init, TypeCtx
<1>4. TypeStatus
  <2>1. Blank \in Statuses
    BY DEF Blank, Statuses, NoPersist
  <2>2. draft \in [Senders -> Statuses]
    BY <2>1 DEF Init
  <2>3. lastStatus = <<>> /\ queue = <<>> /\ running = <<>> /\ obsLoggedIn = FALSE /\ obsNm = 0
    BY DEF Init
  <2>4. lastStatus \in Seq(Statuses) /\ Len(lastStatus) <= 1
    BY <2>3
  <2>5. queue \in Seq(Items) /\ running \in Seq(Items) /\ Len(running) <= 1
    BY <2>3
  <2> QED BY <2>2, <2>3, <2>4, <2>5 DEF TypeStatus
<1> QED BY <1>1, <1>2, <1>3, <1>4 DEF TypeOK

\* Every step keeps the types of the fields of Auto and of the counters.
LEMMA FieldsStep == TypeFields /\ [Next]_vars => TypeFields'
<1> SUFFICES ASSUME TypeFields, [Next]_vars PROVE TypeFields'
  OBVIOUS
<1>0. NoGoal \in Goals
  BY DEF NoGoal, Goals
<1> USE <1>0 DEF TypeFields
<1>1. CASE Login
  BY <1>1 DEF Login, Goals, updateVars
<1>2. CASE Logout
  <2>1. /\ loginGoal' = NoGoal /\ wantLoggedIn' = FALSE /\ logouts' = logouts + 1
        /\ UNCHANGED <<closed, paused, loggedIn, inMapPoll, goal, logins, served, updateVars>>
    BY <1>2 DEF Logout
  <2>2. loginGoal' \in Goals /\ wantLoggedIn' \in BOOLEAN
    BY <2>1
  <2>3. logouts' \in Nat
    BY <2>1
  <2> QED BY <2>1, <2>2, <2>3 DEF updateVars
<1>3. CASE LogoutFails \/ ShutdownReturns
  BY <1>3 DEF LogoutFails, ShutdownReturns, authVars, updateVars
<1>4. CASE LogoutSucceeds
  BY <1>4 DEF LogoutSucceeds, authVars, updateVars
<1>5. ASSUME NEW b \in BOOLEAN, SetPaused(b) PROVE TypeFields'
  BY <1>5 DEF SetPaused, authVars, updateVars
<1>6. CASE Shutdown
  BY <1>6 DEF Shutdown, authVars, updateVars
<1>7. ASSUME NEW p \in Callers, SetInfo(p) PROVE TypeFields'
  BY <1>7 DEF SetInfo, authVars, updateVars, Informers
<1>8. ASSUME NEW p \in Informers, nextUpdateGen(p) PROVE TypeFields'
  BY <1>8 DEF nextUpdateGen, authVars, updateVars
<1>9. ASSUME NEW p \in Informers, SetUpdateGen(p) PROVE TypeFields'
  BY <1>9 DEF SetUpdateGen, authVars, updateVars
<1>10. ASSUME NEW p \in Informers, Signal(p) PROVE TypeFields'
  BY <1>10 DEF Signal, authVars, updateVars
<1>11. ASSUME NEW r \in Routines, waitUnpause(r) PROVE TypeFields'
  BY <1>11 DEF waitUnpause, authVars, updateVars
<1>12. CASE UpdateRead
  BY <1>12 DEF UpdateRead, authVars, updateVars
<1>13. CASE UpdateWake \/ SendUpdate
  BY <1>13 DEF UpdateWake, SendUpdate, authVars, updateVars
<1>14. CASE SendUpdateOK \/ SendUpdateFails
  BY <1>14 DEF SendUpdateOK, SendUpdateFails, authVars, updateVars
<1>15. CASE AuthRead
  BY <1>15 DEF AuthRead, authVars, updateVars
<1>16. CASE AuthWake \/ restartMap
  BY <1>16 DEF AuthWake, restartMap, authVars, updateVars
<1>17. CASE LoginFails
  BY <1>17 DEF LoginFails, authVars, updateVars
<1>18. CASE LoginGetsURL
  BY <1>18 DEF LoginGetsURL, Goals, updateVars
<1>19. CASE LoginSucceeds
  BY <1>19 DEF LoginSucceeds, authVars, updateVars
<1>20. CASE MapRead
  BY <1>20 DEF MapRead, authVars, updateVars
<1>21. CASE MapWake
  BY <1>21 DEF MapWake, authVars, updateVars
<1>22. CASE MapResponse
  BY <1>22 DEF MapResponse, authVars, updateVars
<1>23. CASE DeltaTimeout
  BY <1>23 DEF DeltaTimeout, authVars, updateVars
<1>24. CASE PollEnds
  BY <1>24 DEF PollEnds, authVars, updateVars
<1>25. CASE UpdateNetmapDelta
  BY <1>25 DEF UpdateNetmapDelta, authVars, updateVars
<1>26. CASE UpdateFullNetmap
  BY <1>26 DEF UpdateFullNetmap, authVars, updateVars
<1>27. CASE MapReport
  BY <1>27 DEF MapReport, authVars, updateVars
<1>28. ASSUME NEW s \in Senders, Snapshot(s) PROVE TypeFields'
  BY <1>28 DEF Snapshot, authVars, updateVars
<1>29. ASSUME NEW s \in Senders, StoreStatus(s) \/ EnqueueStatus(s)
      PROVE  TypeFields'
  BY <1>29 DEF StoreStatus, EnqueueStatus, authVars, updateVars
<1>30. CASE StartNext \/ RunStatus \/ RunDelta
  BY <1>30 DEF StartNext, RunStatus, RunDelta, authVars, updateVars
<1>31. CASE UNCHANGED vars
  BY <1>31 DEF vars, authVars, updateVars, statusVars
<1> QED
  BY <1>1, <1>2, <1>3, <1>4, <1>5, <1>6, <1>7, <1>8, <1>9, <1>10, <1>11, <1>12, <1>13,
     <1>14, <1>15, <1>16, <1>17, <1>18, <1>19, <1>20, <1>21, <1>22, <1>23, <1>24, <1>25,
     <1>26, <1>27, <1>28, <1>29, <1>30, <1>31
  DEF Next, Methods, authRoutine, authAnswer, mapRoutine, updateRoutine, updateAnswer,
      updateControl, sendStatus, observerQueue, Terminated, Informers, Routines, Senders

\* Every step keeps every goroutine at a label of its own code.
LEMMA PcStep == TypePc /\ [Next]_vars => TypePc'
<1> SUFFICES ASSUME TypePc, [Next]_vars PROVE TypePc'
  OBVIOUS
<1> USE JumpType, LabelsAre DEF Procs, Routines, Informers, Goto
<1>1. CASE Login
  BY <1>1 DEF Login, TypePc
<1>2. CASE Logout
  BY <1>2 DEF Logout, LogoutLabels, SendLabels, Send
<1>3. CASE LogoutFails \/ ShutdownReturns
  BY <1>3 DEF LogoutFails, ShutdownReturns, LogoutLabels, SendLabels, Send, ShutdownLabels
<1>4. CASE LogoutSucceeds
  BY <1>4 DEF LogoutSucceeds, LogoutLabels, SendLabels, Send
<1>5. ASSUME NEW b \in BOOLEAN, SetPaused(b) PROVE TypePc'
  <2>1. \A q \in unpauseWaiters : "read" \in LabelsOf(q)
    BY DEF unpauseWaiters, AuthLabels, MapLabels, UpdateLabels, LoopLabels
  <2>2. CASE Wake("read")
    <3>1. \A q \in Procs : pc'[q] \in LabelsOf(q)
      BY <2>1, <2>2 DEF TypePc, Wake
    <3> QED BY <3>1, <2>2 DEF TypePc, Wake
  <2>3. CASE UNCHANGED pc
    BY <2>3 DEF TypePc
  <2> QED BY <1>5, <2>2, <2>3 DEF SetPaused
<1>6. CASE Shutdown
  <2>1. \A p \in unpauseWaiters : "exited" \in LabelsOf(p)
    BY DEF unpauseWaiters, AuthLabels, MapLabels, UpdateLabels, LoopLabels
  <2>2. "join" \in LabelsOf("shutdown")
    BY DEF ShutdownLabels
  <2>3. pc' = [p \in Procs |-> CASE p = "shutdown" -> "join"
                               [] p \in unpauseWaiters -> "exited"
                               [] OTHER -> pc[p]]
    BY <1>6 DEF Shutdown
  <2>4. \A p \in Procs : pc'[p] \in LabelsOf(p)
    BY <2>1, <2>2, <2>3 DEF TypePc
  <2> QED BY <2>3, <2>4 DEF TypePc
<1>7. ASSUME NEW p \in Callers, SetInfo(p) PROVE TypePc'
  BY <1>7 DEF SetInfo, CallerLabels, InformLabels
<1>8. ASSUME NEW p \in Informers, nextUpdateGen(p) \/ SetUpdateGen(p) \/ Signal(p)
      PROVE  TypePc'
  BY <1>8 DEF nextUpdateGen, SetUpdateGen, Signal, AfterUpdate, AuthLabels, CallerLabels,
      LoopLabels, InformLabels
<1>9. ASSUME NEW r \in Routines, waitUnpause(r) PROVE TypePc'
  BY <1>9 DEF waitUnpause, AuthLabels, MapLabels, UpdateLabels, LoopLabels
<1>10. CASE UpdateRead
  BY <1>10 DEF UpdateRead, UpdateLabels, LoopLabels
<1>11. CASE UpdateWake \/ SendUpdate
  BY <1>11 DEF UpdateWake, SendUpdate, UpdateLabels, LoopLabels
<1>12. CASE SendUpdateOK \/ SendUpdateFails
  BY <1>12 DEF SendUpdateOK, SendUpdateFails, UpdateLabels, LoopLabels
<1>13. CASE AuthRead
  BY <1>13 DEF AuthRead, AuthLabels, LoopLabels, SendLabels, InformLabels, Send
<1>14. CASE AuthWake \/ restartMap
  BY <1>14 DEF AuthWake, restartMap, AuthLabels, LoopLabels, SendLabels, InformLabels,
      Send
<1>15. CASE LoginFails
  BY <1>15 DEF LoginFails, AuthLabels, LoopLabels, SendLabels, InformLabels, Send
<1>16. CASE LoginGetsURL
  BY <1>16 DEF LoginGetsURL, AuthLabels, LoopLabels, SendLabels, InformLabels, Send
<1>17. CASE LoginSucceeds
  BY <1>17 DEF LoginSucceeds, AuthLabels, LoopLabels, SendLabels, InformLabels, Send
<1>18. CASE MapRead
  BY <1>18 DEF MapRead, MapLabels, LoopLabels, SendLabels, Send
<1>19. CASE MapWake \/ MapResponse \/ DeltaTimeout \/ PollEnds
  BY <1>19 DEF MapWake, MapResponse, DeltaTimeout, PollEnds, MapLabels, LoopLabels,
      SendLabels, Send
<1>20. CASE UpdateNetmapDelta
  BY <1>20 DEF UpdateNetmapDelta, MapLabels, LoopLabels, SendLabels, Send
<1>21. CASE UpdateFullNetmap
  BY <1>21 DEF UpdateFullNetmap, MapLabels, LoopLabels, SendLabels, Send
<1>22. CASE MapReport
  BY <1>22 DEF MapReport, MapLabels, LoopLabels, SendLabels, Send
<1>23. ASSUME NEW s \in Senders, Snapshot(s) PROVE TypePc'
  BY <1>23 DEF Snapshot, AfterStatus, Senders, AuthLabels, MapLabels, LogoutLabels,
      LoopLabels, SendLabels
<1>24. ASSUME NEW s \in Senders, StoreStatus(s) \/ EnqueueStatus(s)
      PROVE  TypePc'
  BY <1>24 DEF StoreStatus, EnqueueStatus, AfterStatus, Senders, AuthLabels, MapLabels,
      LogoutLabels, LoopLabels, SendLabels
<1>25. CASE StartNext \/ RunStatus \/ RunDelta
  BY <1>25 DEF StartNext, RunStatus, RunDelta, TypePc, MapLabels, LoopLabels, SendLabels,
      Send
<1>26. CASE UNCHANGED vars
  BY <1>26 DEF vars, authVars, updateVars, statusVars, TypePc
<1> QED
  BY <1>1, <1>2, <1>3, <1>4, <1>5, <1>6, <1>7, <1>8, <1>9, <1>10, <1>11, <1>12, <1>13,
     <1>14, <1>15, <1>16, <1>17, <1>18, <1>19, <1>20, <1>21, <1>22, <1>23, <1>24, <1>25,
     <1>26
  DEF Next, Methods, authRoutine, authAnswer, mapRoutine, updateRoutine, updateAnswer,
      updateControl, sendStatus, observerQueue, Terminated, Informers, Routines, Senders

\* Every step keeps the type of ctxDone.
LEMMA CtxStep == TypeCtx /\ TypeFields /\ [Next]_vars => TypeCtx'
<1> SUFFICES ASSUME TypeCtx, TypeFields, [Next]_vars PROVE TypeCtx'
  OBVIOUS
<1> USE DEF TypeCtx, TypeFields
<1>1. CASE Login
  BY <1>1 DEF Login, Cancel
<1>2. CASE Logout
  BY <1>2 DEF Logout, Goto
<1>3. CASE LogoutFails \/ ShutdownReturns
  BY <1>3 DEF LogoutFails, ShutdownReturns, Goto
<1>4. CASE LogoutSucceeds
  BY <1>4 DEF LogoutSucceeds, Cancel
<1>5. ASSUME NEW b \in BOOLEAN, SetPaused(b) PROVE TypeCtx'
  BY <1>5 DEF SetPaused, Cancel
<1>6. CASE Shutdown
  BY <1>6 DEF Shutdown, Cancel
<1>7. ASSUME NEW p \in Callers, SetInfo(p) PROVE TypeCtx'
  BY <1>7 DEF SetInfo, Goto
<1>8. ASSUME NEW p \in Informers, nextUpdateGen(p) \/ SetUpdateGen(p) \/ Signal(p)
      PROVE  TypeCtx'
  BY <1>8 DEF nextUpdateGen, SetUpdateGen, Signal, Goto
<1>9. ASSUME NEW r \in Routines, waitUnpause(r) PROVE TypeCtx'
  BY <1>9 DEF waitUnpause, Goto
<1>10. CASE UpdateRead
  BY <1>10 DEF UpdateRead, TakeCtx
<1>11. CASE UpdateWake \/ SendUpdate
  BY <1>11 DEF UpdateWake, SendUpdate, Goto
<1>12. CASE SendUpdateOK \/ SendUpdateFails
  BY <1>12 DEF SendUpdateOK, SendUpdateFails, Goto
<1>13. CASE AuthRead
  BY <1>13 DEF AuthRead, TakeCtx
<1>14. CASE AuthWake \/ restartMap
  BY <1>14 DEF AuthWake, restartMap, Goto, Cancel
<1>15. CASE LoginFails
  BY <1>15 DEF LoginFails, Goto
<1>16. CASE LoginGetsURL
  BY <1>16 DEF LoginGetsURL, Goto
<1>17. CASE LoginSucceeds
  BY <1>17 DEF LoginSucceeds, Goto
<1>18. CASE MapRead
  BY <1>18 DEF MapRead, TakeCtx
<1>19. CASE MapWake \/ MapResponse \/ DeltaTimeout \/ PollEnds
  BY <1>19 DEF MapWake, MapResponse, DeltaTimeout, PollEnds, Goto
<1>20. CASE UpdateNetmapDelta
  BY <1>20 DEF UpdateNetmapDelta, Goto
<1>21. CASE UpdateFullNetmap
  BY <1>21 DEF UpdateFullNetmap, Goto
<1>22. CASE MapReport
  BY <1>22 DEF MapReport, Goto
<1>23. ASSUME NEW s \in Senders, Snapshot(s) PROVE TypeCtx'
  BY <1>23 DEF Snapshot, Goto
<1>24. ASSUME NEW s \in Senders, StoreStatus(s) \/ EnqueueStatus(s)
      PROVE  TypeCtx'
  BY <1>24 DEF StoreStatus, EnqueueStatus, Goto
<1>25. CASE StartNext \/ RunStatus \/ RunDelta
  BY <1>25 DEF StartNext, RunStatus, RunDelta, Goto
<1>26. CASE UNCHANGED vars
  BY <1>26 DEF vars, authVars, updateVars, statusVars
<1> QED
  BY <1>1, <1>2, <1>3, <1>4, <1>5, <1>6, <1>7, <1>8, <1>9, <1>10, <1>11, <1>12, <1>13,
     <1>14, <1>15, <1>16, <1>17, <1>18, <1>19, <1>20, <1>21, <1>22, <1>23, <1>24, <1>25,
     <1>26
  DEF Next, Methods, authRoutine, authAnswer, mapRoutine, updateRoutine, updateAnswer,
      updateControl, sendStatus, observerQueue, Terminated, Informers, Routines, Senders

\* Every step keeps the types of the statuses and of observerQueue.
LEMMA StatusStep == TypeStatus /\ TypeFields /\ [Next]_vars => TypeStatus'
<1> SUFFICES ASSUME TypeStatus, TypeFields, [Next]_vars PROVE TypeStatus'
  OBVIOUS
<1>0. Blank \in Statuses /\ Torn \in Nat
  BY Bounds DEF Blank, Statuses, NoPersist, Torn
<1>send. \A s \in Senders : \A st \in Statuses : Send(s, st) => TypeStatus'
  BY DEF Send, TypeStatus
<1>same. UNCHANGED statusVars => TypeStatus'
  BY DEF TypeStatus, statusVars
<1>who. "auth" \in Senders /\ "map" \in Senders /\ "logout" \in Senders
  BY DEF Senders
<1> USE <1>0 DEF TypeStatus, statusVars
<1>1. CASE Login
  BY <1>1 DEF Login
<1>2. CASE Logout
  BY <1>2 DEF Logout
<1>3. CASE LogoutFails \/ ShutdownReturns
  BY <1>3 DEF LogoutFails, ShutdownReturns
<1>4. CASE LogoutSucceeds
  BY ONLY <1>0, <1>4, <1>send, <1>who DEF LogoutSucceeds
<1>5. ASSUME NEW b \in BOOLEAN, SetPaused(b) PROVE TypeStatus'
  BY <1>5 DEF SetPaused
<1>6. CASE Shutdown
  BY <1>6 DEF Shutdown
<1>7. ASSUME NEW p \in Callers, SetInfo(p) PROVE TypeStatus'
  BY <1>7 DEF SetInfo
<1>8. ASSUME NEW p \in Informers, nextUpdateGen(p) \/ SetUpdateGen(p) \/ Signal(p)
      PROVE  TypeStatus'
  BY <1>8 DEF nextUpdateGen, SetUpdateGen, Signal
<1>9. ASSUME NEW r \in Routines, waitUnpause(r) PROVE TypeStatus'
  BY <1>9 DEF waitUnpause
<1>10. CASE UpdateRead
  BY <1>10 DEF UpdateRead
<1>11. CASE UpdateWake \/ SendUpdate
  BY <1>11 DEF UpdateWake, SendUpdate
<1>12. CASE SendUpdateOK \/ SendUpdateFails
  BY <1>12 DEF SendUpdateOK, SendUpdateFails
<1>13. CASE AuthRead
  BY <1>13 DEF AuthRead
<1>14. CASE AuthWake \/ restartMap
  BY <1>14 DEF AuthWake, restartMap
<1>15. CASE LoginFails
  <2>1. [Blank EXCEPT !.err = TRUE] \in Statuses
    BY DEF Statuses
  <2> QED BY ONLY <1>15, <2>1, <1>send, <1>same, <1>who DEF LoginFails
<1>16. CASE LoginGetsURL
  <2>1. [Blank EXCEPT !.url = TRUE] \in Statuses
    BY DEF Statuses
  <2> QED BY ONLY <1>16, <2>1, <1>send, <1>who DEF LoginGetsURL
<1>17. CASE LoginSucceeds
  <2>1. UNCHANGED <<loggedIn, loginGoal, statusVars>> => UNCHANGED statusVars
    OBVIOUS
  <2> QED BY ONLY <1>0, <1>17, <2>1, <1>send, <1>same, <1>who DEF LoginSucceeds
<1>18. CASE MapRead
  BY <1>18 DEF MapRead
<1>19. CASE MapWake \/ MapResponse \/ DeltaTimeout \/ PollEnds
  BY <1>19 DEF MapWake, MapResponse, DeltaTimeout, PollEnds
<1>20. CASE UpdateNetmapDelta
  <2>1. [kind |-> "delta", nm |-> served] \in Items
    BY DEF Items, TypeFields
  <2>2. queue' = queue \/ queue' = Append(queue, [kind |-> "delta", nm |-> served])
    BY <1>20 DEF UpdateNetmapDelta
  <2>3. queue \in Seq(Items)
    OBVIOUS
  <2>4. queue' \in Seq(Items)
    BY ONLY <2>1, <2>2, <2>3
  <2> QED BY <1>20, <2>4 DEF UpdateNetmapDelta
<1>21. CASE UpdateFullNetmap
  <2>1. [Blank EXCEPT !.nm = served] \in Statuses
    BY DEF Statuses, TypeFields
  <2> QED BY ONLY <1>21, <2>1, <1>send, <1>same, <1>who DEF UpdateFullNetmap
<1>22. CASE MapReport
  <2>1. [Blank EXCEPT !.err = TRUE] \in Statuses
    BY DEF Statuses
  <2> QED BY ONLY <1>22, <2>1, <1>send, <1>same, <1>who DEF MapReport
<1>23. ASSUME NEW s \in Senders, Snapshot(s) PROVE TypeStatus'
  <2> DEFINE d == draft[s]
             withNm == d.nm # 0 /\ loggedIn /\ inMapPoll
             filled(p) == [d EXCEPT !.nm = IF withNm THEN d.nm ELSE 0, !.persist = p,
                                    !.loggedIn = loggedIn /\ loginGoal = NoGoal,
                                    !.inMapPoll = inMapPoll]
  <2>1. d \in Statuses
    OBVIOUS
  <2>2. \A p \in Persists \cup {NoPersist} : filled(p) \in Statuses
    BY <2>1 DEF Statuses, TypeFields
  <2>3. \E st \in Statuses : draft' = [draft EXCEPT ![s] = st]
    <3>1. CASE closed \/ ~HasObserver
      BY <1>23, <3>1 DEF Snapshot
    <3>2. CASE ~(closed \/ ~HasObserver)
      <4>1. PICK p \in (IF withNm THEN Persists ELSE {NoPersist}) :
                 draft' = [draft EXCEPT ![s] = filled(p)]
        BY <1>23, <3>2 DEF Snapshot
      <4> QED BY <4>1, <2>2
    <3> QED BY <3>1, <3>2
  <2> QED BY <1>23, <2>3 DEF Snapshot
<1>24. ASSUME NEW s \in Senders, StoreStatus(s) PROVE TypeStatus'
  BY <1>24 DEF StoreStatus
<1>25. ASSUME NEW s \in Senders, EnqueueStatus(s) PROVE TypeStatus'
  BY <1>25 DEF EnqueueStatus, Items
<1>26. CASE StartNext
  BY <1>26 DEF StartNext
<1>27. CASE RunStatus
  <2>1. running[1] \in Items /\ running[1].kind = "status"
    BY <1>27 DEF RunStatus
  <2>2. running[1].st \in Statuses
    BY <2>1 DEF Items
  <2>3. running[1].st.loggedIn \in BOOLEAN /\ running[1].st.nm \in Nat
    BY <2>2 DEF Statuses
  <2>4. lastStatus' \in Seq(Statuses) /\ Len(lastStatus') <= 1
    <3>1. lastStatus' = lastStatus \/ lastStatus' = <<>>
      BY <1>27 DEF RunStatus
    <3>2. CASE lastStatus' = lastStatus
      BY <3>2
    <3>3. CASE lastStatus' = <<>>
      BY <3>3
    <3> QED BY <3>1, <3>2, <3>3
  <2>5. obsLoggedIn' \in BOOLEAN /\ obsNm' \in Nat
    BY <1>27, <2>3 DEF RunStatus
  <2> QED BY <1>27, <2>4, <2>5 DEF RunStatus
<1>28. CASE RunDelta
  <2>1. running[1] \in Items /\ running[1].kind = "delta"
    BY <1>28 DEF RunDelta
  <2>2. running[1].nm \in Nat
    BY <2>1 DEF Items
  <2> QED BY <1>28, <2>2 DEF RunDelta
<1>29. CASE UNCHANGED vars
  BY <1>29 DEF vars, authVars, updateVars, statusVars
<1> QED
  BY <1>1, <1>2, <1>3, <1>4, <1>5, <1>6, <1>7, <1>8, <1>9, <1>10, <1>11, <1>12, <1>13,
     <1>14, <1>15, <1>16, <1>17, <1>18, <1>19, <1>20, <1>21, <1>22, <1>23, <1>24, <1>25,
     <1>26, <1>27, <1>28, <1>29
  DEF Next, Methods, authRoutine, authAnswer, mapRoutine, updateRoutine, updateAnswer,
      updateControl, sendStatus, observerQueue, Terminated, Informers, Routines, Senders

\* Every variable keeps its type, whatever the goroutines and the server do.
THEOREM TypeCorrect == Spec => []TypeOK
<1>1. TypeOK /\ [Next]_vars => TypeOK'
  BY FieldsStep, PcStep, CtxStep, StatusStep DEF TypeOK
<1> QED BY InitType, <1>1, PTL DEF Spec

-----------------------------------------------------------------------------
(* The routines are never stranded.                                        *)

\* pc is a function, and the goroutines are distinct.
LEMMA PcFun ==
  /\ {"auth", "map", "update", "logout", "shutdown"} \subseteq Procs
  /\ Callers \subseteq Procs /\ Routines \subseteq Procs
  /\ Informers \subseteq Procs /\ Senders \subseteq Procs
  /\ \A p \in Callers : p \notin {"auth", "map", "update", "logout", "shutdown"}
  /\ TypePc => pc = [p \in Procs |-> pc[p]]
  BY CallersDistinct DEF Procs, Routines, Informers, Senders, TypePc

\* NoLostWakeup is inductive.
LEMMA WakeStep == TypeOK /\ NoLostWakeup /\ [Next]_vars => NoLostWakeup'
<1> SUFFICES ASSUME TypeOK, NoLostWakeup, [Next]_vars PROVE NoLostWakeup'
  OBVIOUS
<1>0. pc = [p \in Procs |-> pc[p]] /\ ctxDone = [r \in Routines |-> ctxDone[r]]
  BY PcFun DEF TypeOK, TypeCtx
<1> USE <1>0, PcFun
<1> USE DEF NoLostWakeup, AuthAwake, MapAwake, UpdateAwake, RestartPending, NeedsUpdate,
            InSendStatus, SendLabels, AfterStatus, At, Goto, Jump, authVars, updateVars, Routines
<1>1. CASE Login
  BY <1>1 DEF Login, Cancel, HoldsCtx, MapCtx, statusVars
<1>2. CASE Logout
  BY <1>2 DEF Logout, statusVars
<1>3. CASE LogoutFails \/ ShutdownReturns
  BY <1>3 DEF LogoutFails, ShutdownReturns, statusVars
<1>4. CASE LogoutSucceeds
  BY <1>4 DEF LogoutSucceeds, Send, Cancel, HoldsCtx, MapCtx, statusVars
<1>5. ASSUME NEW b \in BOOLEAN, SetPaused(b) PROVE NoLostWakeup'
  BY <1>5 DEF SetPaused, Wake, unpauseWaiters, Cancel, HoldsCtx, MapCtx, statusVars
<1>6. CASE Shutdown
  BY <1>6 DEF Shutdown, unpauseWaiters, Cancel, HoldsCtx, MapCtx, statusVars
<1>7. ASSUME NEW p \in Callers, SetInfo(p) PROVE NoLostWakeup'
  BY <1>7 DEF SetInfo, statusVars
<1>8. ASSUME NEW p \in Informers, nextUpdateGen(p) \/ SetUpdateGen(p) \/ Signal(p)
      PROVE  NoLostWakeup'
  BY <1>8 DEF nextUpdateGen, SetUpdateGen, Signal, AfterUpdate, Informers, statusVars
<1>9. ASSUME NEW r \in Routines, waitUnpause(r) PROVE NoLostWakeup'
  BY <1>9 DEF waitUnpause, statusVars
<1>10. CASE UpdateRead
  BY <1>10 DEF UpdateRead, TakeCtx, statusVars
<1>11. CASE UpdateWake \/ SendUpdate
  BY <1>11 DEF UpdateWake, SendUpdate, statusVars
<1>12. CASE SendUpdateOK \/ SendUpdateFails
  BY <1>12 DEF SendUpdateOK, SendUpdateFails, statusVars
<1>13. CASE AuthRead
  BY <1>13 DEF AuthRead, TakeCtx, statusVars
<1>14. CASE AuthWake
  BY <1>14 DEF AuthWake, statusVars
<1>15. CASE restartMap
  BY <1>15 DEF restartMap, Cancel, HoldsCtx, MapCtx, statusVars
<1>16. CASE LoginFails
  BY <1>16 DEF LoginFails, Send, statusVars
<1>17. CASE LoginGetsURL
  BY <1>17 DEF LoginGetsURL, Send, NoGoal, Goals, TypeOK, TypeFields, statusVars
<1>18. CASE LoginSucceeds
  <2>1. draft = [q \in Senders |-> draft[q]]
    BY DEF TypeOK, TypeStatus
  <2> QED BY <1>18, <2>1 DEF LoginSucceeds, Send, Senders, statusVars, Blank
<1>19. CASE MapRead
  BY <1>19 DEF MapRead, TakeCtx, statusVars
<1>20. CASE MapWake \/ MapResponse \/ DeltaTimeout \/ PollEnds
  BY <1>20 DEF MapWake, MapResponse, DeltaTimeout, PollEnds, statusVars
<1>21. CASE UpdateNetmapDelta
  BY <1>21 DEF UpdateNetmapDelta, statusVars
<1>22. CASE UpdateFullNetmap
  <2>1. draft = [q \in Senders |-> draft[q]]
    BY DEF TypeOK, TypeStatus
  <2> QED BY <1>22, <2>1 DEF UpdateFullNetmap, Send, Senders, statusVars
<1>23. CASE MapReport
  <2>1. draft = [q \in Senders |-> draft[q]]
    BY DEF TypeOK, TypeStatus
  <2> QED BY <1>23, <2>1 DEF MapReport, Send, Senders, statusVars
<1>24. ASSUME NEW s \in Senders, Snapshot(s) PROVE NoLostWakeup'
  <2>1. draft \in [Senders -> Statuses]
    BY DEF TypeOK, TypeStatus
  <2>2. pc[s] = "status" /\ (Goto(s, AfterStatus(s)) \/ Goto(s, "store"))
    BY <1>24 DEF Snapshot
  <2>3. Goto(s, "store") => draft'[s].err = draft[s].err /\ draft'[s].url = draft[s].url
    <3>1. ASSUME Goto(s, "store"), ~(closed \/ ~HasObserver)
          PROVE  draft'[s].err = draft[s].err /\ draft'[s].url = draft[s].url
      <4>1. draft[s] \in Statuses
        BY <2>1
      <4>2. PICK p : draft' = [draft EXCEPT ![s] =
                      [draft[s] EXCEPT
                                !.nm = IF draft[s].nm # 0 /\ loggedIn /\ inMapPoll
                                         THEN draft[s].nm ELSE 0,
                                !.persist = p,
                                !.loggedIn = loggedIn /\ loginGoal = NoGoal,
                                !.inMapPoll = inMapPoll]]
        BY <1>24, <3>1 DEF Snapshot
      <4> QED BY <2>1, <4>1, <4>2 DEF Statuses
    <3>2. ASSUME Goto(s, "store"), closed \/ ~HasObserver
          PROVE  FALSE
      BY <1>24, <3>2 DEF Snapshot, Senders
    <3> QED BY <3>1, <3>2
  <2>4. \A q \in Senders : q # s => draft'[q] = draft[q]
    BY <1>24, <2>1 DEF Snapshot
  <2>5. UNCHANGED <<closed, paused, authVars, updateVars>>
    BY <1>24 DEF Snapshot
  <2> QED BY <2>2, <2>3, <2>4, <2>5 DEF Senders
<1>25. ASSUME NEW s \in Senders, StoreStatus(s) PROVE NoLostWakeup'
  BY <1>25 DEF StoreStatus, Senders, statusVars
<1>26. ASSUME NEW s \in Senders, EnqueueStatus(s) PROVE NoLostWakeup'
  BY <1>26 DEF EnqueueStatus, Senders, statusVars
<1>27. CASE StartNext \/ RunStatus \/ RunDelta
  BY <1>27 DEF StartNext, RunStatus, RunDelta, statusVars
<1>28. CASE UNCHANGED vars
  BY <1>28 DEF vars, authVars, updateVars, statusVars
<1> QED
  BY <1>1, <1>2, <1>3, <1>4, <1>5, <1>6, <1>7, <1>8, <1>9, <1>10, <1>11, <1>12, <1>13,
     <1>14, <1>15, <1>16, <1>17, <1>18, <1>19, <1>20, <1>21, <1>22, <1>23, <1>24, <1>25,
     <1>26, <1>27, <1>28
  DEF Next, Methods, authRoutine, authAnswer, mapRoutine, updateRoutine, updateAnswer,
      updateControl, sendStatus, observerQueue, Terminated, Informers, Routines, Senders

\* No interleaving of Login, Logout, SetPaused, Shutdown, setters and answers
\* leaves a routine waiting for something that has already happened.
THEOREM NoLostWakeupHolds == Spec => []NoLostWakeup
<1>1. Init => NoLostWakeup
  BY PcFun DEF Init, NoLostWakeup, AuthAwake, MapAwake, UpdateAwake, NeedsUpdate, At, Routines
<1> QED BY TypeCorrect, <1>1, WakeStep, PTL DEF Spec

-----------------------------------------------------------------------------
(* Logging out.                                                            *)

\* OnlyWhileLoggedIn is inductive.
LEMMA LoggedInStep == TypeOK /\ OnlyWhileLoggedIn /\ [Next]_vars => OnlyWhileLoggedIn'
<1> SUFFICES ASSUME TypeOK, OnlyWhileLoggedIn, [Next]_vars PROVE OnlyWhileLoggedIn'
  OBVIOUS
<1>0. pc = [p \in Procs |-> pc[p]] /\ ctxDone = [r \in Routines |-> ctxDone[r]]
  BY PcFun DEF TypeOK, TypeCtx
<1> USE <1>0, PcFun DEF OnlyWhileLoggedIn, LoopLabels, At, Goto, Jump, authVars, Routines
<1>1. CASE Login
  BY <1>1 DEF Login, Cancel, HoldsCtx, MapCtx
<1>2. CASE Logout
  BY <1>2 DEF Logout
<1>3. CASE LogoutFails \/ ShutdownReturns
  BY <1>3 DEF LogoutFails, ShutdownReturns
<1>4. CASE LogoutSucceeds
  BY <1>4 DEF LogoutSucceeds, Send, Cancel, HoldsCtx, MapCtx
<1>5. ASSUME NEW b \in BOOLEAN, SetPaused(b) PROVE OnlyWhileLoggedIn'
  BY <1>5 DEF SetPaused, Wake, unpauseWaiters, Cancel, HoldsCtx, MapCtx
<1>6. CASE Shutdown
  BY <1>6 DEF Shutdown, unpauseWaiters, Cancel, HoldsCtx, MapCtx
<1>7. ASSUME NEW p \in Callers, SetInfo(p) PROVE OnlyWhileLoggedIn'
  BY <1>7 DEF SetInfo
<1>8. ASSUME NEW p \in Informers, nextUpdateGen(p) \/ SetUpdateGen(p) \/ Signal(p)
      PROVE  OnlyWhileLoggedIn'
  BY <1>8 DEF nextUpdateGen, SetUpdateGen, Signal, AfterUpdate, Informers
<1>9. ASSUME NEW r \in Routines, waitUnpause(r) PROVE OnlyWhileLoggedIn'
  BY <1>9 DEF waitUnpause
<1>10. CASE UpdateRead
  BY <1>10 DEF UpdateRead, TakeCtx
<1>11. CASE UpdateWake \/ SendUpdate
  BY <1>11 DEF UpdateWake, SendUpdate
<1>12. CASE SendUpdateOK \/ SendUpdateFails
  BY <1>12 DEF SendUpdateOK, SendUpdateFails
<1>13. CASE AuthRead
  BY <1>13 DEF AuthRead, TakeCtx
<1>14. CASE AuthWake \/ restartMap
  BY <1>14 DEF AuthWake, restartMap, Cancel, HoldsCtx, MapCtx
<1>15. CASE LoginFails
  BY <1>15 DEF LoginFails, Send
<1>16. CASE LoginGetsURL
  BY <1>16 DEF LoginGetsURL, Send, NoGoal, Goals, TypeOK, TypeFields
<1>17. CASE LoginSucceeds
  BY <1>17 DEF LoginSucceeds, Send
<1>18. CASE MapRead
  BY <1>18 DEF MapRead, TakeCtx
<1>19. CASE MapWake \/ MapResponse \/ DeltaTimeout \/ PollEnds
  BY <1>19 DEF MapWake, MapResponse, DeltaTimeout, PollEnds
<1>20. CASE UpdateNetmapDelta
  BY <1>20 DEF UpdateNetmapDelta
<1>21. CASE UpdateFullNetmap
  BY <1>21 DEF UpdateFullNetmap, Send
<1>22. CASE MapReport
  BY <1>22 DEF MapReport, Send
<1>23. ASSUME NEW s \in Senders, Snapshot(s) PROVE OnlyWhileLoggedIn'
  BY <1>23 DEF Snapshot, AfterStatus, Senders
<1>24. ASSUME NEW s \in Senders, StoreStatus(s) \/ EnqueueStatus(s)
      PROVE  OnlyWhileLoggedIn'
  BY <1>24 DEF StoreStatus, EnqueueStatus, AfterStatus, Senders
<1>25. CASE StartNext \/ RunStatus \/ RunDelta
  BY <1>25 DEF StartNext, RunStatus, RunDelta
<1>26. CASE UNCHANGED vars
  BY <1>26 DEF vars, authVars, updateVars, statusVars
<1> QED
  BY <1>1, <1>2, <1>3, <1>4, <1>5, <1>6, <1>7, <1>8, <1>9, <1>10, <1>11, <1>12, <1>13,
     <1>14, <1>15, <1>16, <1>17, <1>18, <1>19, <1>20, <1>21, <1>22, <1>23, <1>24, <1>25,
     <1>26
  DEF Next, Methods, authRoutine, authAnswer, mapRoutine, updateRoutine, updateAnswer,
      updateControl, sendStatus, observerQueue, Terminated, Informers, Routines, Senders

\* After a logout mapRoutine and updateRoutine are on cancelled contexts.
THEOREM OnlyWhileLoggedInHolds == Spec => []OnlyWhileLoggedIn
<1>1. Init => OnlyWhileLoggedIn
  BY PcFun DEF Init, OnlyWhileLoggedIn, LoopLabels, Routines
<1> QED BY TypeCorrect, <1>1, LoggedInStep, PTL DEF Spec

\* A login goal exists only while a login is wanted, and a login request is
\* made for a goal.
GoalWanted ==
  /\ loginGoal # NoGoal => wantLoggedIn
  /\ At("auth", "request") => goal # NoGoal

\* GoalWanted is inductive.
LEMMA GoalStep == TypeOK /\ GoalWanted /\ [Next]_vars => GoalWanted'
<1> SUFFICES ASSUME TypeOK, GoalWanted, [Next]_vars PROVE GoalWanted'
  OBVIOUS
<1>0. pc = [p \in Procs |-> pc[p]]
  BY PcFun DEF TypeOK
<1> USE <1>0, PcFun DEF GoalWanted, At, Goto, Jump, authVars
<1>1. CASE Login
  BY <1>1 DEF Login
<1>2. CASE Logout
  BY <1>2 DEF Logout
<1>3. CASE LogoutFails \/ ShutdownReturns
  BY <1>3 DEF LogoutFails, ShutdownReturns
<1>4. CASE LogoutSucceeds
  BY <1>4 DEF LogoutSucceeds, Send
<1>5. ASSUME NEW b \in BOOLEAN, SetPaused(b) PROVE GoalWanted'
  BY <1>5 DEF SetPaused, Wake, unpauseWaiters, Routines
<1>6. CASE Shutdown
  BY <1>6 DEF Shutdown, unpauseWaiters, Routines
<1>7. ASSUME NEW p \in Callers, SetInfo(p) PROVE GoalWanted'
  BY <1>7 DEF SetInfo
<1>8. ASSUME NEW p \in Informers, nextUpdateGen(p) \/ SetUpdateGen(p) \/ Signal(p)
      PROVE  GoalWanted'
  BY <1>8 DEF nextUpdateGen, SetUpdateGen, Signal, AfterUpdate, Informers
<1>9. ASSUME NEW r \in Routines, waitUnpause(r) PROVE GoalWanted'
  BY <1>9 DEF waitUnpause, Routines
<1>10. CASE UpdateRead
  BY <1>10 DEF UpdateRead
<1>11. CASE UpdateWake \/ SendUpdate
  BY <1>11 DEF UpdateWake, SendUpdate
<1>12. CASE SendUpdateOK \/ SendUpdateFails
  BY <1>12 DEF SendUpdateOK, SendUpdateFails
<1>13. CASE AuthRead
  BY <1>13 DEF AuthRead
<1>14. CASE AuthWake \/ restartMap
  BY <1>14 DEF AuthWake, restartMap
<1>15. CASE LoginFails
  BY <1>15 DEF LoginFails, Send
<1>16. CASE LoginGetsURL
  BY <1>16 DEF LoginGetsURL, Send, NoGoal, Goals, TypeOK, TypeFields
<1>17. CASE LoginSucceeds
  BY <1>17 DEF LoginSucceeds, Send
<1>18. CASE MapRead
  BY <1>18 DEF MapRead
<1>19. CASE MapWake \/ MapResponse \/ DeltaTimeout \/ PollEnds
  BY <1>19 DEF MapWake, MapResponse, DeltaTimeout, PollEnds
<1>20. CASE UpdateNetmapDelta
  BY <1>20 DEF UpdateNetmapDelta
<1>21. CASE UpdateFullNetmap
  BY <1>21 DEF UpdateFullNetmap, Send
<1>22. CASE MapReport
  BY <1>22 DEF MapReport, Send
<1>23. ASSUME NEW s \in Senders, Snapshot(s) PROVE GoalWanted'
  BY <1>23 DEF Snapshot, AfterStatus, Senders
<1>24. ASSUME NEW s \in Senders, StoreStatus(s) \/ EnqueueStatus(s)
      PROVE  GoalWanted'
  BY <1>24 DEF StoreStatus, EnqueueStatus, AfterStatus, Senders
<1>25. CASE StartNext \/ RunStatus \/ RunDelta
  BY <1>25 DEF StartNext, RunStatus, RunDelta
<1>26. CASE UNCHANGED vars
  BY <1>26 DEF vars, authVars, updateVars, statusVars
<1> QED
  BY <1>1, <1>2, <1>3, <1>4, <1>5, <1>6, <1>7, <1>8, <1>9, <1>10, <1>11, <1>12, <1>13,
     <1>14, <1>15, <1>16, <1>17, <1>18, <1>19, <1>20, <1>21, <1>22, <1>23, <1>24, <1>25,
     <1>26
  DEF Next, Methods, authRoutine, authAnswer, mapRoutine, updateRoutine, updateAnswer,
      updateControl, sendStatus, observerQueue, Terminated, Informers, Routines, Senders

\* Only LoginSucceeds logs in, and only for the current goal.
LEMMA LoginStep ==
  ASSUME GoalWanted, [Next]_vars, ~loggedIn, loggedIn'
  PROVE  wantLoggedIn
<1> USE DEF authVars
<1>1. CASE LoginSucceeds
  BY <1>1 DEF LoginSucceeds, GoalWanted
<1>2. CASE LogoutSucceeds
  BY <1>2 DEF LogoutSucceeds
<1>3. CASE Login \/ Logout \/ Shutdown \/ LogoutFails \/ ShutdownReturns
  BY <1>3 DEF Login, Logout, Shutdown, LogoutFails, ShutdownReturns
<1>4. ASSUME NEW b \in BOOLEAN, SetPaused(b) PROVE FALSE
  BY <1>4 DEF SetPaused
<1>5. ASSUME NEW p \in Informers, SetInfo(p) \/ updateControl(p) PROVE FALSE
  BY <1>5 DEF SetInfo, updateControl, nextUpdateGen, SetUpdateGen, Signal
<1>6. CASE updateAnswer \/ updateRoutine
  BY <1>6 DEF updateAnswer, updateRoutine, SendUpdateOK, SendUpdateFails, waitUnpause, UpdateRead,
              UpdateWake, SendUpdate
<1>7. ASSUME NEW s \in Senders, sendStatus(s) PROVE FALSE
  BY <1>7 DEF sendStatus, Snapshot, StoreStatus, EnqueueStatus
<1>8. CASE \/ waitUnpause("auth") \/ AuthRead \/ AuthWake \/ restartMap
           \/ LoginFails \/ LoginGetsURL
  BY <1>8 DEF waitUnpause, AuthRead, AuthWake, restartMap, LoginFails, LoginGetsURL
<1>9. CASE \/ waitUnpause("map") \/ MapRead \/ MapWake \/ MapResponse \/ UpdateNetmapDelta
           \/ DeltaTimeout \/ UpdateFullNetmap \/ PollEnds \/ MapReport
  BY <1>9 DEF waitUnpause, MapRead, MapWake, MapResponse, UpdateNetmapDelta, DeltaTimeout,
              UpdateFullNetmap, PollEnds, MapReport
<1>10. CASE observerQueue \/ UNCHANGED vars
  BY <1>10 DEF observerQueue, StartNext, RunStatus, RunDelta, vars
<1> QED
  BY <1>1, <1>2, <1>3, <1>4, <1>5, <1>6, <1>7, <1>8, <1>9, <1>10
  DEF Next, Methods, authRoutine, authAnswer, mapRoutine, Informers, Senders, Terminated

\* A late answer to a login request that Logout has overtaken is not committed.
THEOREM LoginWantedHolds == Spec => LoginWanted
<1>1. Init => GoalWanted
  BY PcFun DEF Init, GoalWanted, At, Routines
<1>2. GoalWanted /\ [Next]_vars => [~loggedIn /\ loggedIn' => wantLoggedIn]_vars
  BY LoginStep
<1> QED BY TypeCorrect, <1>1, <1>2, GoalStep, PTL DEF Spec, LoginWanted

-----------------------------------------------------------------------------
(* The server is informed.                                                 *)

\* Somebody has changed the information and will store a newer generation.
Ahead ==
  \E p \in Informers : At(p, "nextGen") \/ (At(p, "setGen") /\ myGen[p] > lastUpdateGen)

\* Generations only grow, and updateRoutine sends one that is news.
GenInv ==
  /\ informed <= lastUpdateGen /\ lastUpdateGen <= atomicGen
  /\ \A p \in Informers : At(p, "setGen") => myGen[p] <= atomicGen
  /\ pc["update"] \in {"send", "sent"} => informed < gen /\ gen <= lastUpdateGen

\* The server knows, or is being told, what the last generation stands for.
InfoInv ==
  /\ informed = lastUpdateGen => serverInfo = info \/ Ahead
  /\ At("update", "sent") /\ gen = lastUpdateGen => sentInfo = info \/ Ahead

\* GenInv is inductive.
LEMMA GenStep == TypeOK /\ GenInv /\ [Next]_vars => GenInv'
<1> SUFFICES ASSUME TypeOK, GenInv, [Next]_vars PROVE GenInv'
  OBVIOUS
<1>0. /\ pc = [p \in Procs |-> pc[p]]
      /\ lastUpdateGen \in Nat /\ atomicGen \in Nat /\ gen \in Nat /\ informed \in Nat
      /\ myGen \in [Informers -> Nat]
  BY PcFun DEF TypeOK, TypeFields
<1> USE <1>0, PcFun DEF GenInv, At, Goto, Jump, updateVars, Informers
<1>1. CASE Login
  BY <1>1 DEF Login
<1>2. CASE Logout
  BY <1>2 DEF Logout
<1>3. CASE LogoutFails \/ ShutdownReturns
  BY <1>3 DEF LogoutFails, ShutdownReturns
<1>4. CASE LogoutSucceeds
  BY <1>4 DEF LogoutSucceeds, Send
<1>5. ASSUME NEW b \in BOOLEAN, SetPaused(b) PROVE GenInv'
  BY <1>5 DEF SetPaused, Wake, unpauseWaiters, Routines
<1>6. CASE Shutdown
  BY <1>6 DEF Shutdown, unpauseWaiters, Routines
<1>7. ASSUME NEW p \in Callers, SetInfo(p) PROVE GenInv'
  BY <1>7 DEF SetInfo
<1>8. ASSUME NEW p \in Informers, nextUpdateGen(p) \/ SetUpdateGen(p) \/ Signal(p)
      PROVE  GenInv'
  BY <1>8 DEF nextUpdateGen, SetUpdateGen, Signal, AfterUpdate
<1>9. ASSUME NEW r \in Routines, waitUnpause(r) PROVE GenInv'
  BY <1>9 DEF waitUnpause, Routines
<1>10. CASE UpdateRead
  BY <1>10 DEF UpdateRead
<1>11. CASE UpdateWake \/ SendUpdate
  BY <1>11 DEF UpdateWake, SendUpdate
<1>12. CASE SendUpdateOK \/ SendUpdateFails
  BY <1>12 DEF SendUpdateOK, SendUpdateFails
<1>13. CASE AuthRead
  BY <1>13 DEF AuthRead
<1>14. CASE AuthWake \/ restartMap
  BY <1>14 DEF AuthWake, restartMap
<1>15. CASE LoginFails
  BY <1>15 DEF LoginFails, Send
<1>16. CASE LoginGetsURL
  BY <1>16 DEF LoginGetsURL, Send
<1>17. CASE LoginSucceeds
  BY <1>17 DEF LoginSucceeds, Send
<1>18. CASE MapRead
  BY <1>18 DEF MapRead
<1>19. CASE MapWake \/ MapResponse \/ DeltaTimeout \/ PollEnds
  BY <1>19 DEF MapWake, MapResponse, DeltaTimeout, PollEnds
<1>20. CASE UpdateNetmapDelta
  BY <1>20 DEF UpdateNetmapDelta
<1>21. CASE UpdateFullNetmap
  BY <1>21 DEF UpdateFullNetmap, Send
<1>22. CASE MapReport
  BY <1>22 DEF MapReport, Send
<1>23. ASSUME NEW s \in Senders, Snapshot(s) PROVE GenInv'
  BY <1>23 DEF Snapshot, AfterStatus, Senders
<1>24. ASSUME NEW s \in Senders, StoreStatus(s) PROVE GenInv'
  BY <1>24 DEF StoreStatus, AfterStatus, Senders
<1>25. ASSUME NEW s \in Senders, EnqueueStatus(s) PROVE GenInv'
  BY <1>25 DEF EnqueueStatus, AfterStatus, Senders
<1>26. CASE StartNext \/ RunStatus \/ RunDelta
  BY <1>26 DEF StartNext, RunStatus, RunDelta
<1>27. CASE UNCHANGED vars
  BY <1>27 DEF vars, authVars, updateVars, statusVars
<1> QED
  BY <1>1, <1>2, <1>3, <1>4, <1>5, <1>6, <1>7, <1>8, <1>9, <1>10, <1>11, <1>12, <1>13,
     <1>14, <1>15, <1>16, <1>17, <1>18, <1>19, <1>20, <1>21, <1>22, <1>23, <1>24, <1>25,
     <1>26, <1>27
  DEF Next, Methods, authRoutine, authAnswer, mapRoutine, updateRoutine, updateAnswer,
      updateControl, sendStatus, observerQueue, Terminated, Informers, Routines, Senders

\* InfoInv is inductive relative to GenInv.
LEMMA InfoStep == TypeOK /\ GenInv /\ InfoInv /\ [Next]_vars => InfoInv'
<1> SUFFICES ASSUME TypeOK, GenInv, InfoInv, [Next]_vars PROVE InfoInv'
  OBVIOUS
<1>0. /\ pc = [p \in Procs |-> pc[p]]
      /\ lastUpdateGen \in Nat /\ atomicGen \in Nat /\ gen \in Nat /\ informed \in Nat
      /\ myGen \in [Informers -> Nat]
  BY PcFun DEF TypeOK, TypeFields
<1> USE <1>0, PcFun DEF GenInv, InfoInv, Ahead, At, Goto, Jump, updateVars, Informers
<1>1. CASE Login
  BY <1>1 DEF Login
<1>2. CASE Logout
  BY <1>2 DEF Logout
<1>3. CASE LogoutFails \/ ShutdownReturns
  BY <1>3 DEF LogoutFails, ShutdownReturns
<1>4. CASE LogoutSucceeds
  BY <1>4 DEF LogoutSucceeds, Send
<1>5. ASSUME NEW b \in BOOLEAN, SetPaused(b) PROVE InfoInv'
  BY <1>5 DEF SetPaused, Wake, unpauseWaiters, Routines
<1>6. CASE Shutdown
  BY <1>6 DEF Shutdown, unpauseWaiters, Routines
<1>7. ASSUME NEW p \in Callers, SetInfo(p) PROVE InfoInv'
  BY <1>7 DEF SetInfo
<1>8. ASSUME NEW p \in Informers, nextUpdateGen(p) \/ SetUpdateGen(p) \/ Signal(p)
      PROVE  InfoInv'
  BY <1>8 DEF nextUpdateGen, SetUpdateGen, Signal, AfterUpdate
<1>9. ASSUME NEW r \in Routines, waitUnpause(r) PROVE InfoInv'
  BY <1>9 DEF waitUnpause, Routines
<1>10. CASE UpdateRead
  BY <1>10 DEF UpdateRead
<1>11. CASE UpdateWake \/ SendUpdate
  BY <1>11 DEF UpdateWake, SendUpdate
<1>12. CASE SendUpdateOK \/ SendUpdateFails
  BY <1>12 DEF SendUpdateOK, SendUpdateFails
<1>13. CASE AuthRead
  BY <1>13 DEF AuthRead
<1>14. CASE AuthWake \/ restartMap
  BY <1>14 DEF AuthWake, restartMap
<1>15. CASE LoginFails
  BY <1>15 DEF LoginFails, Send
<1>16. CASE LoginGetsURL
  BY <1>16 DEF LoginGetsURL, Send
<1>17. CASE LoginSucceeds
  BY <1>17 DEF LoginSucceeds, Send
<1>18. CASE MapRead
  BY <1>18 DEF MapRead
<1>19. CASE MapWake \/ MapResponse \/ DeltaTimeout \/ PollEnds
  BY <1>19 DEF MapWake, MapResponse, DeltaTimeout, PollEnds
<1>20. CASE UpdateNetmapDelta
  BY <1>20 DEF UpdateNetmapDelta
<1>21. CASE UpdateFullNetmap
  BY <1>21 DEF UpdateFullNetmap, Send
<1>22. CASE MapReport
  BY <1>22 DEF MapReport, Send
<1>23. ASSUME NEW s \in Senders, Snapshot(s) PROVE InfoInv'
  BY <1>23 DEF Snapshot, AfterStatus, Senders
<1>24. ASSUME NEW s \in Senders, StoreStatus(s) \/ EnqueueStatus(s)
      PROVE  InfoInv'
  BY <1>24 DEF StoreStatus, EnqueueStatus, AfterStatus, Senders
<1>25. CASE StartNext \/ RunStatus \/ RunDelta
  BY <1>25 DEF StartNext, RunStatus, RunDelta
<1>26. CASE UNCHANGED vars
  BY <1>26 DEF vars, authVars, updateVars, statusVars
<1> QED
  BY <1>1, <1>2, <1>3, <1>4, <1>5, <1>6, <1>7, <1>8, <1>9, <1>10, <1>11, <1>12, <1>13,
     <1>14, <1>15, <1>16, <1>17, <1>18, <1>19, <1>20, <1>21, <1>22, <1>23, <1>24, <1>25,
     <1>26
  DEF Next, Methods, authRoutine, authAnswer, mapRoutine, updateRoutine, updateAnswer,
      updateControl, sendStatus, observerQueue, Terminated, Informers, Routines, Senders

\* When updateRoutine sleeps and nothing is on its way to it, the server knows
\* the latest hostinfo, endpoints, ...
THEOREM ServerInformedHolds == Spec => []ServerInformed
<1>1. Init => GenInv /\ InfoInv
  BY PcFun DEF Init, GenInv, InfoInv, At, Informers, Routines
<1>2. TypeOK /\ NoLostWakeup /\ GenInv /\ InfoInv => ServerInformed
  <2> SUFFICES ASSUME TypeOK, NoLostWakeup, GenInv, InfoInv,
                      At("update", "idle"), loggedIn, ~ctxDone["update"], ~updateCh,
                      ~SignalPending, \A p \in Callers : At(p, "idle")
               PROVE  serverInfo = info
    BY DEF ServerInformed
  <2>1. lastUpdateGen \in Nat /\ informed \in Nat
    BY DEF TypeOK, TypeFields
  <2>2. \A p \in Informers : pc[p] \notin {"nextGen", "setGen", "signal"}
    BY DEF SignalPending, InformLabels
  <2>3. ~NeedsUpdate
    BY <2>2 DEF NoLostWakeup, UpdateAwake, SignalPending, At
  <2>4. informed = lastUpdateGen
    BY <2>1, <2>3 DEF NeedsUpdate, GenInv
  <2> QED BY <2>2, <2>4 DEF InfoInv, Ahead, At
<1> QED
  BY TypeCorrect, NoLostWakeupHolds, <1>1, <1>2, GenStep, InfoStep, PTL DEF Spec

-----------------------------------------------------------------------------
(* The netmaps of the observer.                                            *)

\* What observerQueue has yet to finish, and the version of an item, 0 if it
\* brings no netmap.
Pending == running \o queue
NmOf(x) == IF x.kind = "status" THEN x.st.nm ELSE x.nm

\* Netmaps come from mapRoutine, which does not ask for the next one before it
\* has sent the last.
DraftInv ==
  /\ served <= MaxNm
  /\ draft["auth"].nm = 0 /\ draft["logout"].nm = 0
  /\ draft["map"].nm # 0 => InSendStatus("map") /\ draft["map"].nm = served
  /\ pc["map"] \in {"delta", "pushed", "full"} => served > 0

\* inMapPoll is set while mapRoutine is in PollNetMap and has had a netmap, and
\* a closed client has cancelled its context.
PollInv ==
  /\ inMapPoll => /\ served > 0
                  /\ \/ pc["map"] \in {"poll", "delta", "pushed", "full"}
                     \/ InSendStatus("map") /\ ~draft["map"].err
  /\ InSendStatus("map") /\ ~draft["map"].err => inMapPoll
  /\ closed /\ HoldsCtx("map") => ctxDone["map"]

\* Netmaps wait in order, and none is older than the one the observer has.
OrderInv ==
  /\ \A i \in 1..Len(Pending) : /\ NmOf(Pending[i]) <= served
                                /\ Pending[i].kind = "delta" => Pending[i].nm > 0
  /\ \A i, j \in 1..Len(Pending) :
       i < j /\ NmOf(Pending[j]) # 0 => NmOf(Pending[i]) <= NmOf(Pending[j])
  /\ obsNm # Torn => /\ obsNm <= served
                     /\ \A i \in 1..Len(Pending) :
                          NmOf(Pending[i]) # 0 => obsNm <= NmOf(Pending[i])

\* After the first n items of p the observer will have netmap b: it has it and none
\* of them brings another, or the last that does is a status with b that will not be
\* skipped.
Settled(p, n, b) ==
  \/ obsNm = b /\ \A i \in 1..n : NmOf(p[i]) = 0
  \/ \E i \in 1..n :
       /\ p[i].kind = "status" /\ p[i].st.nm = b /\ b > 0
       /\ ~canSkipStatus(p[i].st, lastStatus)
       /\ \A j \in (i + 1)..n : NmOf(p[j]) = 0

\* The delta that mapRoutine waits for is on its way, behind what it is a delta to.
DeltaComing ==
  \E d \in 1..Len(Pending) :
    /\ Pending[d].kind = "delta" /\ Pending[d].nm = served
    /\ \A j \in (d + 1)..Len(Pending) : NmOf(Pending[j]) = 0
    /\ Settled(Pending, d - 1, served - 1)

\* The observer has the last netmap or will have it: a status is on its way to it, or a
\* delta is, or mapRoutine has yet to send it.
CatchesUp ==
  /\ At("map", "poll") => Settled(Pending, Len(Pending), served)
  /\ At("map", "delta") => Settled(Pending, Len(Pending), served - 1)
  /\ At("map", "pushed") => DeltaComing
  /\ InSendStatus("map") => draft["map"].nm = served
  /\ At("map", "enqueue") => ~canSkipStatus(draft["map"], lastStatus)

\* The observer catches up while the poll is live.
CurrentInv == HasObserver /\ inMapPoll /\ ~ctxDone["map"] => CatchesUp

\* The inductive invariant, relative to TypeOK and OnlyWhileLoggedIn.
ObserverInv == DraftInv /\ PollInv /\ OrderInv /\ CurrentInv

\* A step that concerns neither the netmaps nor mapRoutine's poll: it leaves observerQueue,
\* the observer and mapRoutine alone, except that it may cancel the map context or move
\* mapRoutine outside its poll.
Elsewhere ==
  /\ UNCHANGED <<closed, served, inMapPoll, lastStatus, queue, running, obsNm>>
  /\ draft'["map"] = draft["map"]
  /\ \A s \in {"auth", "logout"} : draft'[s].nm \in {0, draft[s].nm}
  /\ \/ pc'["map"] = pc["map"] /\ (ctxDone["map"] => ctxDone'["map"])
     \/ pc["map"] \in LoopLabels /\ pc'["map"] \in LoopLabels \ {"idle"}

NetmapStep ==
  \/ Shutdown \/ MapRead \/ MapResponse \/ UpdateNetmapDelta \/ DeltaTimeout
  \/ UpdateFullNetmap \/ PollEnds \/ MapReport \/ Snapshot("map")
  \/ \E s \in Senders : StoreStatus(s) \/ EnqueueStatus(s)
  \/ StartNext \/ RunStatus \/ RunDelta

\* What a call of sendStatus by s does to the drafts.
LEMMA SendDrafts ==
  ASSUME TypeOK, NEW s \in {"auth", "logout"}, NEW st, st.nm = 0,
         draft' = [draft EXCEPT ![s] = st]
  PROVE  /\ draft'["map"] = draft["map"]
         /\ \A t \in {"auth", "logout"} : draft'[t].nm \in {0, draft[t].nm}
  BY DEF TypeOK, TypeStatus, Senders

\* Every step that is not about netmaps is elsewhere.
LEMMA StepKinds ==
  ASSUME TypeOK, [Next]_vars
  PROVE  Elsewhere \/ NetmapStep
<1>0. /\ pc = [p \in Procs |-> pc[p]] /\ ctxDone = [r \in Routines |-> ctxDone[r]]
      /\ draft \in [Senders -> Statuses]
  BY PcFun DEF TypeOK, TypeCtx, TypeStatus
<1>d. UNCHANGED draft => /\ draft'["map"] = draft["map"]
                         /\ \A s \in {"auth", "logout"} : draft'[s].nm \in {0, draft[s].nm}
  OBVIOUS
<1>b. /\ Blank.nm = 0 /\ [Blank EXCEPT !.err = TRUE].nm = 0
      /\ [Blank EXCEPT !.url = TRUE].nm = 0
  BY DEF Blank
<1> USE <1>0, PcFun DEF Elsewhere, LoopLabels, At, Goto, Jump, Routines, statusVars
<1>1. CASE Login
  BY <1>1, <1>d DEF Login, Cancel
<1>2. CASE Logout \/ LogoutFails \/ ShutdownReturns
  BY <1>2, <1>d DEF Logout, LogoutFails, ShutdownReturns
<1>4. CASE LogoutSucceeds
  BY <1>4, <1>b, SendDrafts DEF LogoutSucceeds, Send, Cancel
<1>5. ASSUME NEW b \in BOOLEAN, SetPaused(b) PROVE Elsewhere
  BY <1>5, <1>d DEF SetPaused, Wake, unpauseWaiters, Cancel
<1>7. ASSUME NEW p \in Callers, SetInfo(p) PROVE Elsewhere
  BY <1>7, <1>d DEF SetInfo
<1>8. ASSUME NEW p \in Informers, nextUpdateGen(p) \/ SetUpdateGen(p) \/ Signal(p)
      PROVE  Elsewhere
  BY <1>8, <1>d DEF nextUpdateGen, SetUpdateGen, Signal, AfterUpdate, Informers
<1>9. ASSUME NEW r \in Routines, waitUnpause(r) PROVE Elsewhere
  BY <1>9, <1>d DEF waitUnpause
<1>10. CASE UpdateRead
  BY <1>10, <1>d DEF UpdateRead, TakeCtx
<1>11. CASE UpdateWake \/ SendUpdate \/ SendUpdateOK \/ SendUpdateFails
  BY <1>11, <1>d DEF UpdateWake, SendUpdate, SendUpdateOK, SendUpdateFails
<1>13. CASE AuthRead
  BY <1>13, <1>d DEF AuthRead, TakeCtx
<1>14. CASE AuthWake \/ restartMap
  BY <1>14, <1>d DEF AuthWake, restartMap, Cancel
<1>15. CASE LoginFails
  BY <1>15, <1>b, <1>d, SendDrafts DEF LoginFails, Send
<1>16. CASE LoginGetsURL
  BY <1>16, <1>b, <1>d, SendDrafts DEF LoginGetsURL, Send
<1>17. CASE LoginSucceeds
  BY <1>17, <1>b, <1>d, SendDrafts DEF LoginSucceeds, Send
<1>18. CASE MapWake
  BY <1>18, <1>d DEF MapWake
<1>19. ASSUME NEW s \in {"auth", "logout"}, Snapshot(s) PROVE Elsewhere
  <2>1. /\ draft'["map"] = draft["map"]
        /\ \A t \in {"auth", "logout"} : draft'[t].nm \in {0, draft[t].nm}
    <3>1. CASE closed \/ ~HasObserver
      BY <1>19, <1>b, <3>1 DEF Snapshot, Senders
    <3>2. CASE ~(closed \/ ~HasObserver)
      <4> DEFINE d == draft[s]
                 withNm == d.nm # 0 /\ loggedIn /\ inMapPoll
                 nm == IF withNm THEN d.nm ELSE 0
                 filled(p) == [d EXCEPT !.nm = nm, !.persist = p,
                                        !.loggedIn = loggedIn /\ loginGoal = NoGoal,
                                        !.inMapPoll = inMapPoll]
      <4>1. PICK p \in (IF withNm THEN Persists ELSE {NoPersist}) :
                 draft' = [draft EXCEPT ![s] = filled(p)]
        BY <1>19, <3>2 DEF Snapshot
      <4>2. d \in Statuses
        BY DEF Senders
      <4>3. filled(p).nm = nm
        BY <4>2 DEF Statuses
      <4>4. nm \in {0, draft[s].nm}
        OBVIOUS
      <4> HIDE DEF filled, nm
      <4> QED BY <4>1, <4>3, <4>4 DEF Senders
    <3> QED BY <3>1, <3>2
  <2>2. /\ UNCHANGED <<closed, served, inMapPoll, lastStatus, queue, running, obsNm>>
        /\ pc'["map"] = pc["map"] /\ (ctxDone["map"] => ctxDone'["map"])
    BY <1>19 DEF Snapshot
  <2> QED BY <2>1, <2>2
<1>20. CASE UNCHANGED vars
  BY <1>20, <1>d DEF vars
<1> QED
  BY <1>1, <1>2, <1>4, <1>5, <1>7, <1>8, <1>9, <1>10, <1>11, <1>13, <1>14, <1>15, <1>16,
     <1>17, <1>18, <1>19, <1>20
  DEF NetmapStep, Next, Methods, authRoutine, authAnswer, mapRoutine, updateRoutine,
      updateAnswer, updateControl, sendStatus, observerQueue, Terminated, Informers, Routines,
      Senders

-----------------------------------------------------------------------------
(* What waits for the observer.                                            *)

\* The types of what waits.
LEMMA PendingType ==
  ASSUME TypeOK
  PROVE  /\ Pending \in Seq(Items) /\ Len(Pending) \in Nat
         /\ \A i \in 1..Len(Pending) : Pending[i] \in Items /\ NmOf(Pending[i]) \in Nat
         /\ running = <<>> => Pending = queue
         /\ running # <<>> => Pending # <<>> /\ Pending[1] = running[1] /\ Tail(Pending) = queue
<1>1. /\ queue \in Seq(Items) /\ running \in Seq(Items) /\ Len(running) <= 1
  BY DEF TypeOK, TypeStatus
<1>2. Pending \in Seq(Items) /\ Len(Pending) \in Nat
  BY <1>1 DEF Pending
<1>3. \A x \in Items : NmOf(x) \in Nat
  BY DEF Items, Statuses, NmOf
<1>4. running = <<>> => Pending = queue
  BY <1>1 DEF Pending
<1>5. ASSUME running # <<>>
      PROVE  Pending # <<>> /\ Pending[1] = running[1] /\ Tail(Pending) = queue
  <2>1. Len(running) = 1 /\ Len(queue) \in Nat
    <3>1. Len(running) \in Nat \ {0}
      BY <1>1, <1>5, EmptySeq, Zenon
    <3>2. Len(queue) \in Nat /\ Len(running) <= 1
      BY <1>1, LenProperties, Zenon
    <3> QED BY ONLY <3>1, <3>2
  <2>2. /\ Len(Pending) = 1 + Len(queue)
        /\ \A i \in 1..Len(Pending) : Pending[i] = IF i <= 1 THEN running[1] ELSE queue[i - 1]
    <3>1. /\ Len(Pending) = Len(running) + Len(queue)
          /\ \A i \in 1..Len(running) + Len(queue) :
               Pending[i] = IF i <= Len(running) THEN running[i] ELSE queue[i - Len(running)]
      BY <1>1, ConcatProperties, Zenon DEF Pending
    <3> HIDE DEF Pending
    <3> QED BY <2>1, <3>1
  <2>3. Len(Tail(Pending)) = Len(queue) /\ \A i \in 1..Len(queue) : Tail(Pending)[i] = queue[i]
    BY <1>1, <1>2, <2>2
  <2>4. Tail(Pending) \in Seq(Items)
    BY <1>2, <2>2
  <2>5. Tail(Pending) = queue
    BY <1>1, <2>3, <2>4, SeqEqual
  <2>6. Pending # <<>> /\ Pending[1] = running[1]
    BY <1>1, <2>2
  <2> QED BY <2>5, <2>6
<1> QED BY <1>2, <1>3, <1>4, <1>5

\* What a function added to observerQueue does to it.
LEMMA PendingAppend ==
  ASSUME TypeOK, NEW x \in Items, queue' = Append(queue, x), running' = running
  PROVE  Pending' = Append(Pending, x)
<1>1. /\ queue \in Seq(Items) /\ running \in Seq(Items)
  BY DEF TypeOK, TypeStatus
<1> QED BY <1>1 DEF Pending

\* Taking a function from the queue to execute it changes nothing.
LEMMA PendingStart ==
  ASSUME TypeOK, StartNext
  PROVE  Pending' = Pending
<1>1. /\ queue \in Seq(Items) /\ queue # <<>> /\ running = <<>>
      /\ running' = <<Head(queue)>> /\ queue' = Tail(queue)
  BY DEF TypeOK, TypeStatus, StartNext
<1>2. /\ Head(queue) \in Items /\ Tail(queue) \in Seq(Items) /\ Len(queue) \in Nat \ {0}
      /\ Len(Tail(queue)) = Len(queue) - 1 /\ Head(queue) = queue[1]
      /\ \A i \in 1..Len(queue) - 1 : Tail(queue)[i] = queue[i + 1]
  BY <1>1, TailProperties
<1>3. PICK h \in Items, t \in Seq(Items) : h = Head(queue) /\ t = Tail(queue)
  BY <1>2
<1>4. Len(<<h>> \o t) = Len(queue) /\ \A i \in 1..Len(queue) : (<<h>> \o t)[i] = queue[i]
  <2>1. /\ Len(<<h>> \o t) = 1 + Len(t)
        /\ \A i \in 1..1 + Len(t) : (<<h>> \o t)[i] = IF i <= 1 THEN h ELSE t[i - 1]
    OBVIOUS
  <2> QED BY <1>2, <1>3, <2>1
<1>5. <<h>> \o t \in Seq(Items)
  OBVIOUS
<1>6. <<h>> \o t = queue
  BY <1>1, <1>4, <1>5, SeqEqual, Zenon
<1>7. Pending = queue
  BY <1>1 DEF Pending
<1> QED BY <1>1, <1>3, <1>6, <1>7 DEF Pending

\* The end of a function takes it from the front.
LEMMA PendingRun ==
  ASSUME TypeOK, RunStatus \/ RunDelta
  PROVE  /\ Pending # <<>> /\ Pending[1] = running[1] /\ Pending' = Tail(Pending)
         /\ Len(Pending) \in Nat \ {0} /\ Len(Pending') = Len(Pending) - 1
         /\ \A i \in 1..Len(Pending) - 1 : Pending'[i] = Pending[i + 1]
         /\ Pending[1] \in Items /\ NmOf(Pending[1]) \in Nat
<1>1. running # <<>> /\ running' = <<>> /\ queue' = queue
  BY DEF RunStatus, RunDelta
<1>2. /\ Pending # <<>> /\ Pending[1] = running[1] /\ Tail(Pending) = queue
      /\ Pending \in Seq(Items)
      /\ \A i \in 1..Len(Pending) : Pending[i] \in Items /\ NmOf(Pending[i]) \in Nat
  BY <1>1, PendingType
<1>3. queue \in Seq(Items)
  BY DEF TypeOK, TypeStatus
<1>4. Pending' = queue
  BY <1>1, <1>3 DEF Pending
<1>5. /\ Len(Pending) \in Nat \ {0} /\ Len(Tail(Pending)) = Len(Pending) - 1
      /\ \A i \in 1..Len(Pending) - 1 : Tail(Pending)[i] = Pending[i + 1]
  BY <1>2, TailProperties
<1>6. 1 \in 1..Len(Pending)
  BY <1>5
<1> QED BY <1>2, <1>4, <1>5, <1>6

\* When a status is never skipped.
LEMMA NotSkipped ==
  /\ \A s : ~canSkipStatus(s, <<>>)
  /\ \A s, t : t.nm = 0 => ~canSkipStatus(s, <<t>>)
  /\ \A s : ~canSkipStatus(s, <<s>>)
  /\ \A s, l : canSkipStatus(s, l) => s.nm # 0
  BY DEF canSkipStatus

-----------------------------------------------------------------------------
(* The drafts and the poll.                                                *)

\* What the snapshot of sendStatus makes of mapRoutine's status.
LEMMA SnapshotOfMap ==
  ASSUME TypeOK, Snapshot("map")
  PROVE  /\ pc["map"] = "status"
         /\ UNCHANGED <<closed, served, inMapPoll, loggedIn, lastStatus, queue, running, obsNm>>
         /\ draft'["auth"] = draft["auth"] /\ draft'["logout"] = draft["logout"]
         /\ \/ /\ closed \/ ~HasObserver
               /\ Goto("map", AfterStatus("map"))
               /\ draft'["map"] = Blank
            \/ /\ ~closed /\ HasObserver
               /\ Goto("map", "store")
               /\ draft'["map"].err = draft["map"].err
               /\ draft'["map"].nm \in {0, draft["map"].nm}
               /\ loggedIn /\ inMapPoll => draft'["map"].nm = draft["map"].nm
<1>0. draft \in [Senders -> Statuses] /\ "map" \in Senders
  BY DEF TypeOK, TypeStatus, Senders
<1>1. /\ pc["map"] = "status"
      /\ UNCHANGED <<closed, served, inMapPoll, loggedIn, lastStatus, queue, running, obsNm>>
  BY DEF Snapshot, At, authVars
<1>2. CASE closed \/ ~HasObserver
  BY <1>0, <1>1, <1>2 DEF Snapshot, Senders
<1>3. CASE ~(closed \/ ~HasObserver)
  <2> DEFINE d == draft["map"]
             withNm == d.nm # 0 /\ loggedIn /\ inMapPoll
             nm == IF withNm THEN d.nm ELSE 0
             filled(p) == [d EXCEPT !.nm = nm, !.persist = p,
                                    !.loggedIn = loggedIn /\ loginGoal = NoGoal,
                                    !.inMapPoll = inMapPoll]
  <2>1. PICK p \in (IF withNm THEN Persists ELSE {NoPersist}) :
             draft' = [draft EXCEPT !["map"] = filled(p)]
    BY <1>3 DEF Snapshot
  <2>2. d \in Statuses
    BY <1>0
  <2>3. filled(p).nm = nm /\ filled(p).err = d.err
    BY <2>2 DEF Statuses
  <2>4. nm \in {0, d.nm} /\ (loggedIn /\ inMapPoll => nm = d.nm)
    OBVIOUS
  <2>5. Goto("map", "store")
    BY <1>3 DEF Snapshot
  <2> HIDE DEF filled, nm
  <2> QED BY <1>0, <1>1, <1>3, <2>1, <2>3, <2>4, <2>5 DEF Senders
<1> QED BY <1>2, <1>3

\* DraftInv and PollInv are inductive.
LEMMA PollStep ==
  ASSUME TypeOK, DraftInv, PollInv, [Next]_vars
  PROVE  DraftInv' /\ PollInv'
<1>0. /\ pc = [p \in Procs |-> pc[p]] /\ ctxDone = [r \in Routines |-> ctxDone[r]]
      /\ draft = [s \in Senders |-> draft[s]] /\ served \in Nat /\ closed \in BOOLEAN
      /\ MaxNm \in Nat
  BY PcFun, Bounds DEF TypeOK, TypeCtx, TypeStatus, TypeFields
<1>b. /\ Blank.nm = 0 /\ [Blank EXCEPT !.err = TRUE].nm = 0 /\ [Blank EXCEPT !.err = TRUE].err
      /\ [Blank EXCEPT !.nm = served].nm = served /\ ~[Blank EXCEPT !.nm = served].err
  BY DEF Blank
<1> USE <1>0, <1>b, PcFun
    DEF DraftInv, PollInv, InSendStatus, SendLabels, HoldsCtx, At, Goto, Jump, Routines, Senders,
        statusVars
<1>1. CASE Elsewhere
  BY <1>1 DEF Elsewhere, LoopLabels
<1>2. CASE Shutdown
  BY <1>2 DEF Shutdown, Cancel, unpauseWaiters
<1>3. CASE MapRead
  BY <1>3 DEF MapRead, TakeCtx
<1>4. CASE MapResponse
  BY <1>4 DEF MapResponse
<1>5. CASE UpdateNetmapDelta
  BY <1>5 DEF UpdateNetmapDelta
<1>6. CASE DeltaTimeout
  BY <1>6 DEF DeltaTimeout
<1>7. CASE UpdateFullNetmap
  BY <1>7 DEF UpdateFullNetmap, Send
<1>8. CASE PollEnds
  BY <1>8 DEF PollEnds
<1>9. CASE MapReport
  BY <1>9 DEF MapReport, Send
<1>10. CASE Snapshot("map")
  <2> HIDE DEF Goto
  <2>1. CASE closed \/ ~HasObserver
    BY <1>10, <2>1, SnapshotOfMap DEF AfterStatus, Goto
  <2>2. CASE ~(closed \/ ~HasObserver)
    BY <1>10, <2>2, SnapshotOfMap DEF Goto
  <2> QED BY <2>1, <2>2
<1>11. ASSUME NEW s \in Senders, StoreStatus(s) PROVE DraftInv' /\ PollInv'
  BY <1>11 DEF StoreStatus
<1>12. ASSUME NEW s \in Senders, EnqueueStatus(s) PROVE DraftInv' /\ PollInv'
  BY <1>12 DEF EnqueueStatus, AfterStatus
<1>13. CASE StartNext \/ RunStatus \/ RunDelta
  BY <1>13 DEF StartNext, RunStatus, RunDelta
<1> QED
  BY <1>1, <1>2, <1>3, <1>4, <1>5, <1>6, <1>7, <1>8, <1>9, <1>10, <1>11, <1>12, <1>13,
     StepKinds DEF NetmapStep

-----------------------------------------------------------------------------
(* The order of the netmaps.                                               *)

\* A netmap that is not older than any other may be added to the queue.
LEMMA OrderAppend ==
  ASSUME TypeOK, OrderInv, NEW x \in Items, Pending' = Append(Pending, x),
         x.kind = "delta" => x.nm > 0, NmOf(x) \in {0, served},
         UNCHANGED <<served, obsNm>>
  PROVE  OrderInv'
<1> DEFINE n == Len(Pending)
<1>1. /\ Pending \in Seq(Items) /\ n \in Nat
      /\ \A i \in 1..n : Pending[i] \in Items /\ NmOf(Pending[i]) \in Nat
  BY PendingType
<1>2. /\ Len(Pending') = n + 1 /\ Pending'[n + 1] = x
      /\ \A i \in 1..n : Pending'[i] = Pending[i]
  BY <1>1, AppendFacts
<1>3. served \in Nat /\ obsNm \in Nat
  BY DEF TypeOK, TypeFields, TypeStatus
<1> HIDE DEF n
<1>4. \A i \in 1..n + 1 : i \in 1..n \/ i = n + 1
  BY <1>1
<1> QED BY <1>1, <1>2, <1>3, <1>4 DEF OrderInv, n

\* A step that keeps what waits, the observer's netmap and the last netmap keeps the order.
LEMMA OrderSame ==
  ASSUME OrderInv, Pending' = Pending, UNCHANGED <<served, obsNm>>
  PROVE  OrderInv'
  BY DEF OrderInv

\* What the end of a status or a delta does to the order.
LEMMA OrderRun ==
  ASSUME TypeOK, OrderInv, served <= MaxNm, RunStatus \/ RunDelta
  PROVE  /\ OrderInv'
         /\ obsNm' \in {obsNm, Torn} \/ obsNm = Torn \/ obsNm' > obsNm
<1> DEFINE n == Len(Pending)
           x == Pending[1]
<1>1. /\ x = running[1] /\ n \in Nat \ {0} /\ Len(Pending') = n - 1
      /\ \A i \in 1..n - 1 : Pending'[i] = Pending[i + 1]
      /\ NmOf(x) \in Nat
  BY PendingRun
<1>2. \A i \in 1..n : NmOf(Pending[i]) \in Nat
  BY PendingType
<1>3. served \in Nat /\ obsNm \in Nat /\ MaxNm \in Nat /\ served' = served /\ Torn = MaxNm + 1
  BY Bounds DEF TypeOK, TypeFields, TypeStatus, RunStatus, RunDelta, Torn
<1>4. obsNm' \in {obsNm, Torn} \/ (NmOf(x) # 0 /\ obsNm' = NmOf(x))
  <2>1. CASE RunStatus
    BY <1>1, <2>1 DEF RunStatus, NmOf
  <2>2. CASE RunDelta
    <3>1. x.kind = "delta" /\ obsNm' \in {obsNm, x.nm, Torn}
      BY <1>1, <2>2 DEF RunDelta
    <3>2. NmOf(x) = x.nm
      BY <3>1 DEF NmOf
    <3>3. x.nm > 0
      BY <1>1, <3>1 DEF OrderInv
    <3> QED BY <1>1, <3>1, <3>2, <3>3
  <2> QED BY <2>1, <2>2
<1>5. Torn' = Torn
  BY DEF Torn
<1> HIDE DEF n, x
<1>6. 1 \in 1..n /\ \A i \in 1..n - 1 : i + 1 \in 1..n /\ 1 < i + 1
  BY <1>1
<1>7. NmOf(x) <= served /\ (obsNm # Torn /\ NmOf(x) # 0 => obsNm <= NmOf(x))
  BY <1>6 DEF OrderInv, n, x
<1>8. OrderInv'
  <2>1. \A i \in 1..Len(Pending') : /\ NmOf(Pending'[i]) <= served
                                    /\ Pending'[i].kind = "delta" => Pending'[i].nm > 0
    BY <1>1, <1>6 DEF OrderInv, n
  <2>2. \A i, j \in 1..Len(Pending') :
          i < j /\ NmOf(Pending'[j]) # 0 => NmOf(Pending'[i]) <= NmOf(Pending'[j])
    <3>1. ASSUME NEW i \in 1..n - 1, NEW j \in 1..n - 1, i < j, NmOf(Pending[j + 1]) # 0
          PROVE  NmOf(Pending[i + 1]) <= NmOf(Pending[j + 1])
      BY <1>1, <1>6, <3>1 DEF OrderInv, n
    <3> QED BY <1>1, <3>1
  <2>3. obsNm # Torn => \A i \in 1..Len(Pending') :
                          NmOf(Pending'[i]) # 0 => obsNm <= NmOf(Pending'[i])
    BY <1>1, <1>6 DEF OrderInv, n
  <2>4. \A i \in 1..Len(Pending') : NmOf(Pending'[i]) # 0 => NmOf(x) <= NmOf(Pending'[i])
    BY <1>1, <1>6 DEF OrderInv, n, x
  <2>5. obsNm # Torn => obsNm <= served
    BY DEF OrderInv
  <2> QED BY <1>3, <1>4, <1>5, <1>7, <2>1, <2>2, <2>3, <2>4, <2>5 DEF OrderInv
<1>9. NmOf(x) \in Nat
  BY <1>1
<1> QED BY ONLY <1>3, <1>4, <1>7, <1>8, <1>9

\* OrderInv is inductive, and the observer never goes back.
LEMMA OrderStep ==
  ASSUME TypeOK, DraftInv, OrderInv, [Next]_vars
  PROVE  /\ OrderInv'
         /\ obsNm' \in {obsNm, Torn} \/ obsNm = Torn \/ obsNm' > obsNm
<1>0. /\ served \in Nat /\ draft \in [Senders -> Statuses]
      /\ queue \in Seq(Items) /\ running \in Seq(Items)
      /\ \A i \in 1..Len(Pending) : NmOf(Pending[i]) \in Nat
  BY PendingType DEF TypeOK, TypeFields, TypeStatus
<1>p. UNCHANGED <<queue, running>> => Pending' = Pending
  BY DEF Pending
<1>1. CASE Elsewhere
  BY <1>1, <1>p, OrderSame DEF Elsewhere
<1>2. CASE Shutdown
  <2>1. queue' = <<>> /\ running' = running /\ UNCHANGED <<served, obsNm>>
    BY <1>2 DEF Shutdown
  <2>2. Pending' = running
    BY <1>0, <2>1 DEF Pending
  <2>3. CASE running = <<>>
    <3>1. Len(Pending') = 0
      BY <2>2, <2>3
    <3> HIDE DEF Pending
    <3> QED BY <2>1, <3>1 DEF OrderInv, Torn
  <2>4. CASE running # <<>>
    <3>1. Pending # <<>> /\ Pending[1] = running[1] /\ Pending \in Seq(Items)
      BY <2>4, PendingType
    <3>2. Len(running) = 1 /\ 1 \in 1..Len(Pending)
      <4>1. Len(running) \in Nat \ {0} /\ Len(Pending) \in Nat \ {0}
        BY <1>0, <2>4, <3>1, EmptySeq, Zenon
      <4>2. Len(running) <= 1
        BY DEF TypeOK, TypeStatus
      <4>3. \A k \in Nat \ {0} : 1 \in 1..k /\ (k <= 1 => k = 1)
        OBVIOUS
      <4> QED BY ONLY <4>1, <4>2, <4>3, Zenon
    <3>3. \A i \in 1..Len(Pending') : i = 1 /\ Pending'[i] = Pending[1]
      BY <2>2, <3>1, <3>2
    <3>4. Torn' = Torn
      BY DEF Torn
    <3> HIDE DEF Pending
    <3> QED BY <2>1, <3>2, <3>3, <3>4 DEF OrderInv
  <2> QED BY <2>1, <2>3, <2>4
<1>3. CASE MapRead \/ DeltaTimeout \/ PollEnds
  BY <1>3, <1>p, OrderSame DEF MapRead, DeltaTimeout, PollEnds, statusVars
<1>4. CASE MapResponse
  <2>1. UNCHANGED <<queue, running, obsNm>> /\ served' = served + 1
    BY <1>4 DEF MapResponse, statusVars
  <2>2. obsNm \in Nat /\ Torn' = Torn
    BY DEF TypeOK, TypeStatus, Torn
  <2> QED BY <1>0, <1>p, <2>1, <2>2 DEF OrderInv
<1>5. CASE UpdateNetmapDelta
  <2> DEFINE x == [kind |-> "delta", nm |-> served]
  <2>1. /\ UNCHANGED <<running, served, obsNm>>
        /\ queue' = queue \/ queue' = Append(queue, x)
    BY <1>5 DEF UpdateNetmapDelta
  <2>2. x \in Items /\ NmOf(x) = served /\ served > 0 /\ x.nm = served
    BY <1>0, <1>5 DEF Items, NmOf, DraftInv, UpdateNetmapDelta, At
  <2> HIDE DEF x
  <2>3. CASE queue' = queue
    BY <1>p, <2>1, <2>3, OrderSame
  <2>4. CASE queue' = Append(queue, x)
    <3>1. Pending' = Append(Pending, x)
      BY <2>1, <2>2, <2>4, PendingAppend
    <3> QED BY <2>1, <2>2, <3>1, OrderAppend
  <2> QED BY <2>1, <2>3, <2>4
<1>6. CASE UpdateFullNetmap \/ MapReport
  BY <1>6, <1>p, OrderSame DEF UpdateFullNetmap, MapReport, Send, statusVars
<1>7. CASE Snapshot("map")
  BY <1>7, <1>p, OrderSame DEF Snapshot
<1>8. ASSUME NEW s \in Senders, StoreStatus(s)
      PROVE  OrderInv' /\ obsNm' = obsNm
  BY <1>8, <1>p, OrderSame DEF StoreStatus
<1>9. ASSUME NEW s \in Senders, EnqueueStatus(s)
      PROVE  OrderInv' /\ obsNm' = obsNm
  <2> DEFINE x == [kind |-> "status", st |-> draft[s]]
  <2>1. /\ UNCHANGED <<running, served, obsNm>>
        /\ queue' = queue \/ queue' = Append(queue, x)
    BY <1>9 DEF EnqueueStatus
  <2>2. x \in Items /\ NmOf(x) \in {0, served} /\ x.kind # "delta"
    BY <1>0 DEF Items, NmOf, DraftInv, Senders
  <2> HIDE DEF x
  <2>3. CASE queue' = queue
    BY <1>p, <2>1, <2>3, OrderSame
  <2>4. CASE queue' = Append(queue, x)
    <3>1. Pending' = Append(Pending, x)
      BY <2>1, <2>2, <2>4, PendingAppend
    <3> QED BY <2>1, <2>2, <3>1, OrderAppend
  <2> QED BY <2>1, <2>3, <2>4
<1>10. CASE StartNext
  BY <1>10, PendingStart, OrderSame DEF StartNext
<1>11. CASE RunStatus \/ RunDelta
  BY <1>11, OrderRun DEF DraftInv
<1> QED
  BY <1>1, <1>2, <1>3, <1>4, <1>5, <1>6, <1>7, <1>8, <1>9, <1>10, <1>11, StepKinds
  DEF NetmapStep

-----------------------------------------------------------------------------
(* The observer catches up.                                                *)

\* Settled depends on what waits, the observer's netmap and lastStatus only, and it stays
\* true when statuses without a netmap are stored.
LEMMA SettledSame ==
  ASSUME NEW n, NEW b, Settled(Pending, n, b), Pending' = Pending, obsNm' = obsNm,
         \A s : canSkipStatus(s, lastStatus') => canSkipStatus(s, lastStatus)
  PROVE  Settled(Pending, n, b)'
  BY DEF Settled

\* A function added to the queue does not disturb those before it, and one that brings no
\* netmap does not unsettle them.
LEMMA SettledAppend ==
  ASSUME TypeOK, NEW x \in Items, Pending' = Append(Pending, x),
         UNCHANGED <<obsNm, lastStatus>>,
         NEW n \in 0..Len(Pending), NEW b, Settled(Pending, n, b)
  PROVE  /\ Settled(Pending, n, b)'
         /\ n = Len(Pending) /\ NmOf(x) = 0 => Settled(Pending, n + 1, b)'
<1> DEFINE m == Len(Pending)
<1>1. Pending \in Seq(Items) /\ m \in Nat
  BY PendingType
<1>2. /\ Pending'[m + 1] = x
      /\ \A i \in 1..m : Pending'[i] = Pending[i]
  BY <1>1, AppendFacts
<1> HIDE DEF m
<1>3. n \in 0..m /\ \A i \in 1..n : i \in 1..m
  BY <1>1 DEF m
<1>4. ASSUME NEW i \in 1..n PROVE Pending'[i] = Pending[i] /\ \A j \in (i + 1)..n : j \in 1..n
  BY <1>2, <1>3
<1>5. Settled(Pending, n, b)'
  BY <1>4 DEF Settled
<1>6. ASSUME n = m, NmOf(x) = 0 PROVE Settled(Pending, n + 1, b)'
  <2>1. Pending'[n + 1] = x /\ n \in Nat
    BY <1>1, <1>2, <1>6
  <2>2. \A i \in 1..n + 1 : i \in 1..n \/ i = n + 1
    BY <2>1
  <2>3. CASE obsNm' = b /\ \A i \in 1..n : NmOf(Pending'[i]) = 0
    BY <1>6, <2>1, <2>2, <2>3 DEF Settled
  <2>4. ASSUME NEW i \in 1..n,
               Pending'[i].kind = "status", Pending'[i].st.nm = b, b > 0,
               ~canSkipStatus(Pending'[i].st, lastStatus'),
               \A j \in (i + 1)..n : NmOf(Pending'[j]) = 0
        PROVE  Settled(Pending, n + 1, b)'
    <3>1. i \in 1..n + 1 /\ \A j \in (i + 1)..(n + 1) : j \in (i + 1)..n \/ j = n + 1
      BY <2>1
    <3>2. \A j \in (i + 1)..(n + 1) : NmOf(Pending'[j]) = 0
      BY <1>6, <2>1, <2>4, <3>1
    <3> QED BY <2>4, <3>1, <3>2 DEF Settled
  <2> QED BY <1>5, <2>3, <2>4 DEF Settled
<1> QED BY <1>5, <1>6 DEF m

\* After a status or a delta the rest is settled as it was: a status without a netmap changes
\* nothing, one that settled the rest is given to the observer, any other does not count.
LEMMA SettledRun ==
  ASSUME TypeOK, OrderInv, RunStatus \/ RunDelta, ~closed,
         NEW n \in 1..Len(Pending), NEW b \in Nat, Settled(Pending, n, b)
  PROVE  Settled(Pending, n - 1, b)'
<1> DEFINE x == Pending[1]
<1>1. /\ x = running[1] /\ Len(Pending) \in Nat \ {0}
      /\ \A i \in 1..Len(Pending) - 1 : Pending'[i] = Pending[i + 1]
  BY PendingRun
<1> HIDE DEF x
<1>2. /\ n - 1 \in Nat /\ 1 \in 1..n /\ x = Pending[1]
      /\ \A i \in 1..n - 1 : Pending'[i] = Pending[i + 1] /\ i + 1 \in 1..n
  BY <1>1 DEF x
<1>3. \A s : canSkipStatus(s, lastStatus') => canSkipStatus(s, lastStatus)
  <2>1. lastStatus' \in {lastStatus, <<>>}
    BY DEF RunStatus, RunDelta
  <2> QED BY <2>1, NotSkipped
<1>4. /\ NmOf(x) = 0 => obsNm' = obsNm
      /\ x.kind = "status" /\ x.st.nm = b /\ b > 0 /\ ~canSkipStatus(x.st, lastStatus)
           => obsNm' = b
  <2>1. CASE RunStatus
    BY <1>1, <2>1 DEF RunStatus, NmOf
  <2>2. CASE RunDelta
    <3>1. x.kind = "delta"
      BY <1>1, <2>2 DEF RunDelta
    <3>2. NmOf(x) # 0
      BY <1>1, <1>2, <3>1 DEF OrderInv, NmOf
    <3> QED BY <3>1, <3>2
  <2> QED BY <2>1, <2>2
<1>5. CASE obsNm = b /\ \A i \in 1..n : NmOf(Pending[i]) = 0
  BY <1>2, <1>4, <1>5 DEF Settled
<1>6. ASSUME NEW i \in 1..n, Pending[i].kind = "status", Pending[i].st.nm = b, b > 0,
             ~canSkipStatus(Pending[i].st, lastStatus),
             \A j \in (i + 1)..n : NmOf(Pending[j]) = 0
      PROVE  Settled(Pending, n - 1, b)'
  <2>1. CASE i = 1
    <3>1. \A j \in 1..n - 1 : NmOf(Pending'[j]) = 0
      BY <1>2, <1>6, <2>1
    <3> QED BY <1>2, <1>4, <1>6, <2>1, <3>1 DEF Settled
  <2>2. CASE i # 1
    <3>1. i - 1 \in 1..n - 1 /\ Pending'[i - 1] = Pending[i]
      BY <1>2, <2>2
    <3>2. \A j \in ((i - 1) + 1)..(n - 1) : NmOf(Pending'[j]) = 0
      BY <1>2, <1>6, <2>2
    <3> QED BY <1>3, <1>6, <3>1, <3>2 DEF Settled
  <2> QED BY <2>1, <2>2
<1> QED BY <1>5, <1>6 DEF Settled

\* A step that leaves mapRoutine at its label, keeps what waits, and stores no status that
\* would make another skippable, keeps CatchesUp.
LEMMA CatchesUpSame ==
  ASSUME TypeOK, CatchesUp, Pending' = Pending, UNCHANGED <<served, obsNm>>,
         draft'["map"] = draft["map"], pc'["map"] = pc["map"],
         \A s : canSkipStatus(s, lastStatus') => canSkipStatus(s, lastStatus)
  PROVE  CatchesUp'
<1>1. \A n, b : Settled(Pending, n, b) => Settled(Pending, n, b)'
  BY SettledSame
<1>2. At("map", "poll")' => Settled(Pending, Len(Pending), served)'
  BY <1>1 DEF CatchesUp, At
<1>3. At("map", "delta")' => Settled(Pending, Len(Pending), served - 1)'
  BY <1>1 DEF CatchesUp, At
<1>4. At("map", "pushed")' => DeltaComing'
  BY <1>1 DEF CatchesUp, At, DeltaComing
<1>5. InSendStatus("map")' => draft'["map"].nm = served'
  BY DEF CatchesUp, InSendStatus
<1>6. At("map", "enqueue")' => ~canSkipStatus(draft["map"], lastStatus)'
  BY DEF CatchesUp, At
<1> QED BY <1>2, <1>3, <1>4, <1>5, <1>6 DEF CatchesUp

\* CurrentInv is inductive relative to the other invariants.
LEMMA CurrentStep ==
  ASSUME TypeOK, OnlyWhileLoggedIn, DraftInv, PollInv, OrderInv, CurrentInv, [Next]_vars
  PROVE  CurrentInv'
<1> SUFFICES ASSUME HasObserver, inMapPoll', ~ctxDone'["map"] PROVE CatchesUp'
  BY DEF CurrentInv
<1>0. /\ pc = [p \in Procs |-> pc[p]] /\ ctxDone \in [Routines -> BOOLEAN]
      /\ draft \in [Senders -> Statuses] /\ served \in Nat /\ closed \in BOOLEAN
      /\ "map" \in Procs /\ "map" \in Routines
  BY PcFun DEF TypeOK, TypeCtx, TypeStatus, TypeFields, Routines
<1>h. inMapPoll => HoldsCtx("map") /\ pc["map"] \notin LoopLabels /\ pc["map"] # "report"
  BY DEF PollInv, HoldsCtx, LoopLabels, InSendStatus, SendLabels
<1>c. closed /\ inMapPoll => ctxDone["map"]
  BY <1>h DEF PollInv
<1>l. inMapPoll /\ ~ctxDone["map"] => loggedIn
  BY <1>h DEF OnlyWhileLoggedIn
<1>u. inMapPoll /\ ~ctxDone["map"] => CatchesUp
  BY DEF CurrentInv
<1>p. UNCHANGED <<queue, running>> => Pending' = Pending
  BY DEF Pending
<1>n. Len(Pending) \in Nat /\ Pending \in Seq(Items)
  BY PendingType
<1>1. CASE Elsewhere
  <2>1. pc'["map"] = pc["map"] /\ (ctxDone["map"] => ctxDone'["map"])
    BY <1>1, <1>h DEF Elsewhere
  <2> QED BY <1>1, <1>p, <1>u, <2>1, CatchesUpSame DEF Elsewhere
<1>2. CASE Shutdown
  BY <1>2, <1>0, <1>h DEF Shutdown, Cancel
<1>3. CASE MapRead
  BY <1>3, <1>h DEF MapRead, At, LoopLabels
<1>4. CASE MapResponse
  <2>1. /\ pc["map"] = "poll" /\ pc'["map"] \in {"delta", "full"} /\ ctxDone' = ctxDone
        /\ served' = served + 1
        /\ UNCHANGED <<inMapPoll, lastStatus, draft, queue, running, obsNm>>
    BY <1>4, <1>0 DEF MapResponse, Goto, Jump, At, statusVars
  <2>2. Settled(Pending, Len(Pending), served)
    BY <1>u, <2>1 DEF CatchesUp, At
  <2>3. Pending' = Pending /\ served' - 1 = served
    BY <1>0, <1>p, <2>1
  <2>4. Settled(Pending, Len(Pending), served - 1)'
    BY <2>1, <2>2, <2>3 DEF Settled
  <2> QED BY <2>1, <2>4 DEF CatchesUp, At, InSendStatus, SendLabels
<1>5. CASE UpdateNetmapDelta
  <2>1. /\ pc["map"] = "delta" /\ ctxDone' = ctxDone
        /\ UNCHANGED <<closed, served, inMapPoll, lastStatus, draft, running, obsNm>>
    BY <1>5 DEF UpdateNetmapDelta, Goto, At
  <2>2. CASE loggedIn /\ inMapPoll
    <3> DEFINE x == [kind |-> "delta", nm |-> served]
    <3>0. PICK n \in Nat : n = Len(Pending)
      BY <1>n
    <3>1. ~closed /\ pc'["map"] = "pushed" /\ queue' = Append(queue, x)
      BY <1>0, <1>5, <1>c, <2>1, <2>2 DEF UpdateNetmapDelta, Goto, Jump
    <3>2. x \in Items /\ x.kind = "delta" /\ x.nm = served
      BY <1>0 DEF Items
    <3> HIDE DEF x
    <3>3. Pending' = Append(Pending, x)
      BY <2>1, <3>1, <3>2, PendingAppend
    <3>4. Len(Pending') = n + 1 /\ Pending'[n + 1] = x
      BY <1>n, <3>0, <3>2, <3>3, AppendFacts
    <3>5. PICK b \in Int : b = served - 1 /\ Settled(Pending, n, b)
      BY <1>0, <1>u, <2>1, <3>0 DEF CatchesUp, At
    <3>6. Settled(Pending, n, b)'
      <4>1. n \in 0..Len(Pending)
        BY <3>0
      <4> QED BY <2>1, <3>2, <3>3, <3>5, <4>1, SettledAppend
    <3>7. DeltaComing'
      <4>1. /\ n + 1 \in 1..n + 1 /\ (n + 1) - 1 = n
            /\ \A j \in ((n + 1) + 1)..(n + 1) : FALSE
        BY <3>0
      <4>2. Settled(Pending, (n + 1) - 1, served - 1)'
        BY <2>1, <3>5, <3>6, <4>1
      <4> QED BY <2>1, <3>2, <3>4, <4>1, <4>2 DEF DeltaComing
    <3> QED BY <3>1, <3>7 DEF CatchesUp, At, InSendStatus, SendLabels
  <2> QED BY <1>l, <2>1, <2>2
<1>6. CASE DeltaTimeout
  <2>1. pc'["map"] = "full"
    BY <1>0, <1>6 DEF DeltaTimeout, Goto, Jump
  <2> QED BY <2>1 DEF CatchesUp, At, InSendStatus, SendLabels
<1>7. CASE UpdateFullNetmap
  <2>1. pc["map"] = "full" /\ ctxDone' = ctxDone /\ served' = served
    BY <1>7 DEF UpdateFullNetmap, At
  <2>2. loggedIn
    BY <2>1 DEF OnlyWhileLoggedIn, LoopLabels
  <2>3. pc'["map"] = "status" /\ draft'["map"] = [Blank EXCEPT !.nm = served]
    BY <1>0, <1>7, <2>2 DEF UpdateFullNetmap, Send, Jump, Senders
  <2>4. draft'["map"].nm = served
    BY <2>3 DEF Blank
  <2> QED BY <2>1, <2>3, <2>4 DEF CatchesUp, At, InSendStatus, SendLabels
<1>8. CASE PollEnds
  BY <1>8 DEF PollEnds
<1>9. CASE MapReport
  BY <1>9, <1>h DEF MapReport, At
<1>10. CASE Snapshot("map")
  <2>1. /\ pc["map"] = "status" /\ UNCHANGED <<closed, served, inMapPoll>>
    BY <1>10, SnapshotOfMap
  <2>2. ctxDone["map"] => ctxDone'["map"]
    <3>1. ~draft["map"].err
      BY <2>1 DEF PollInv, InSendStatus, SendLabels
    <3> QED BY <1>10, <2>1, <3>1, SnapshotOfMap DEF Goto, AfterStatus
  <2>3. ~closed
    BY <1>c, <2>1, <2>2
  <2>4. pc'["map"] = "store" /\ draft'["map"].nm = draft["map"].nm
    BY <1>0, <1>10, <1>l, <2>1, <2>2, <2>3, SnapshotOfMap DEF Goto, Jump
  <2>5. draft["map"].nm = served
    BY <1>u, <2>1, <2>2 DEF CatchesUp, InSendStatus, SendLabels
  <2> QED BY <2>1, <2>4, <2>5 DEF CatchesUp, At, InSendStatus, SendLabels
<1>11. ASSUME NEW s \in Senders, StoreStatus(s) PROVE CatchesUp'
  <2>1. /\ pc[s] = "store" /\ pc' = [pc EXCEPT ![s] = "enqueue"] /\ ctxDone' = ctxDone
        /\ lastStatus' = <<draft[s]>>
        /\ UNCHANGED <<closed, served, inMapPoll, draft, queue, running, obsNm>>
    BY <1>11 DEF StoreStatus, At, Goto, Jump
  <2>2. CatchesUp /\ Pending' = Pending
    BY <1>p, <1>u, <2>1
  <2>3. CASE s = "map"
    <3>1. pc'["map"] = "enqueue" /\ ~canSkipStatus(draft["map"], lastStatus')
      BY <1>0, <2>1, <2>3, NotSkipped
    <3>2. draft["map"].nm = served
      BY <2>1, <2>2, <2>3 DEF CatchesUp, InSendStatus, SendLabels
    <3> QED BY <2>1, <3>1, <3>2 DEF CatchesUp, At, InSendStatus, SendLabels
  <2>4. CASE s # "map"
    <3>1. draft[s].nm = 0
      BY <2>4 DEF DraftInv, Senders
    <3>2. \A t : ~canSkipStatus(t, lastStatus')
      BY <2>1, <3>1, NotSkipped
    <3> QED BY <1>0, <2>1, <2>2, <2>4, <3>2, CatchesUpSame
  <2> QED BY <2>3, <2>4
<1>12. ASSUME NEW s \in Senders, EnqueueStatus(s) PROVE CatchesUp'
  <2> DEFINE x == [kind |-> "status", st |-> draft[s]]
  <2>1. /\ pc[s] = "enqueue" /\ Goto(s, AfterStatus(s))
        /\ UNCHANGED <<closed, served, inMapPoll, lastStatus, running, obsNm>>
        /\ draft' = [draft EXCEPT ![s] = Blank]
        /\ queue' = IF closed THEN queue ELSE Append(queue, x)
    BY <1>12 DEF EnqueueStatus, At
  <2>2. ctxDone["map"] => ctxDone'["map"]
    <3>1. CASE s = "map"
      <4>1. ~draft["map"].err
        BY <2>1, <3>1 DEF PollInv, InSendStatus, SendLabels
      <4> QED BY <2>1, <3>1, <4>1 DEF Goto, AfterStatus
    <3>2. CASE s # "map"
      BY <1>0, <2>1, <3>2 DEF Goto
    <3> QED BY <3>1, <3>2
  <2>3. CatchesUp /\ ~closed
    BY <1>c, <1>u, <2>1, <2>2
  <2>4. x \in Items /\ x.kind = "status" /\ x.st = draft[s] /\ NmOf(x) = draft[s].nm
    BY <1>0 DEF Items, NmOf
  <2> HIDE DEF x
  <2>n. PICK n \in Nat : n = Len(Pending)
    BY <1>n
  <2>5. Pending' = Append(Pending, x)
    BY <2>1, <2>3, <2>4, PendingAppend
  <2>6. /\ Len(Pending') = n + 1 /\ Pending'[n + 1] = x
        /\ \A i \in 1..n : Pending'[i] = Pending[i]
    BY <1>n, <2>n, <2>4, <2>5, AppendFacts
  <2>7. CASE s = "map"
    <3>1. ~draft["map"].err
      BY <2>1, <2>7 DEF PollInv, InSendStatus, SendLabels
    <3>2. pc'["map"] = "poll"
      BY <1>0, <2>1, <2>7, <3>1 DEF Goto, Jump, AfterStatus
    <3>3. /\ draft["map"].nm = served /\ served > 0
          /\ ~canSkipStatus(draft["map"], lastStatus)
      BY <2>1, <2>3, <2>7 DEF CatchesUp, At, InSendStatus, SendLabels, PollInv
    <3>4. Settled(Pending, Len(Pending), served)'
      <4>1. n + 1 \in 1..n + 1 /\ \A j \in ((n + 1) + 1)..(n + 1) : FALSE
        BY <2>n
      <4> QED BY <2>1, <2>4, <2>6, <2>7, <3>3, <4>1 DEF Settled
    <3> QED BY <3>2, <3>4 DEF CatchesUp, At, InSendStatus, SendLabels
  <2>8. CASE s # "map"
    <3>1. NmOf(x) = 0
      BY <2>4, <2>8 DEF DraftInv, Senders
    <3>2. pc'["map"] = pc["map"] /\ draft'["map"] = draft["map"]
      BY <1>0, <2>1, <2>8 DEF Goto, Jump
    <3>3. \A k \in 0..n : \A b : Settled(Pending, k, b) => Settled(Pending, k, b)'
      BY <2>n, <2>1, <2>4, <2>5, SettledAppend
    <3>4. \A b : Settled(Pending, n, b) => Settled(Pending, n + 1, b)'
      <4>1. n \in 0..Len(Pending) /\ n = Len(Pending)
        BY <2>n
      <4> QED BY <2>1, <2>4, <2>5, <3>1, <4>1, SettledAppend
    <3>5. At("map", "poll")' => Settled(Pending, Len(Pending), served)'
      BY <2>n, <2>1, <2>3, <2>6, <3>2, <3>4 DEF CatchesUp, At
    <3>6. At("map", "delta")' => Settled(Pending, Len(Pending), served - 1)'
      BY <2>n, <2>1, <2>3, <2>6, <3>2, <3>4 DEF CatchesUp, At
    <3>7. ASSUME At("map", "pushed")' PROVE DeltaComing'
      <4>1. DeltaComing
        BY <2>3, <3>2, <3>7 DEF CatchesUp, At
      <4>2. PICK d \in 1..n : /\ Pending[d].kind = "delta" /\ Pending[d].nm = served
                              /\ \A j \in (d + 1)..n : NmOf(Pending[j]) = 0
                              /\ Settled(Pending, d - 1, served - 1)
        BY <2>n, <4>1 DEF DeltaComing
      <4>3. /\ d - 1 \in 0..n /\ d \in 1..n + 1
            /\ \A j \in (d + 1)..(n + 1) : j \in (d + 1)..n \/ j = n + 1
            /\ \A j \in (d + 1)..n : j \in 1..n
        BY <2>n
      <4>4. Settled(Pending, d - 1, served - 1)'
        BY <2>1, <3>3, <4>2, <4>3
      <4>5. \A j \in (d + 1)..(n + 1) : NmOf(Pending'[j]) = 0
        BY <2>6, <3>1, <4>2, <4>3
      <4> QED BY <2>1, <2>6, <4>2, <4>3, <4>4, <4>5 DEF DeltaComing
    <3>8. InSendStatus("map")' => draft'["map"].nm = served'
      BY <2>1, <2>3, <3>2 DEF CatchesUp, InSendStatus
    <3>9. At("map", "enqueue")' => ~canSkipStatus(draft["map"], lastStatus)'
      BY <2>1, <2>3, <3>2 DEF CatchesUp, At
    <3> QED BY <3>5, <3>6, <3>7, <3>8, <3>9 DEF CatchesUp
  <2> QED BY <2>7, <2>8
<1>13. CASE StartNext
  BY <1>13, <1>u, PendingStart, CatchesUpSame DEF StartNext
<1>14. CASE RunStatus
  <2> DEFINE n == Len(Pending)
  <2>1. /\ UNCHANGED <<closed, served, inMapPoll, pc, ctxDone, draft>>
        /\ lastStatus' \in {lastStatus, <<>>} /\ running[1].kind = "status"
    BY <1>14 DEF RunStatus
  <2>2. CatchesUp /\ ~closed
    BY <1>c, <1>u, <2>1
  <2>3. /\ Pending[1] = running[1] /\ n \in Nat \ {0} /\ Len(Pending') = n - 1
        /\ \A i \in 1..n - 1 : Pending'[i] = Pending[i + 1]
    BY <1>14, PendingRun
  <2>4. \A k \in 1..n, b \in Nat : Settled(Pending, k, b) => Settled(Pending, k - 1, b)'
    BY <1>14, <2>2, SettledRun
  <2>5. inMapPoll => served \in Nat /\ served - 1 \in Nat
    BY <1>0 DEF PollInv
  <2> HIDE DEF n
  <2>6. n \in 1..n
    BY <2>3
  <2>7. At("map", "poll")' => Settled(Pending, Len(Pending), served)'
    BY <2>1, <2>2, <2>3, <2>4, <2>5, <2>6 DEF CatchesUp, At, n
  <2>8. At("map", "delta")' => Settled(Pending, Len(Pending), served - 1)'
    BY <2>1, <2>2, <2>3, <2>4, <2>5, <2>6 DEF CatchesUp, At, n
  <2>9. ASSUME At("map", "pushed")' PROVE DeltaComing'
    <3>1. DeltaComing
      BY <2>1, <2>2, <2>9 DEF CatchesUp, At
    <3>2. PICK d \in 1..n : /\ Pending[d].kind = "delta" /\ Pending[d].nm = served
                            /\ \A j \in (d + 1)..n : NmOf(Pending[j]) = 0
                            /\ Settled(Pending, d - 1, served - 1)
      BY <3>1 DEF DeltaComing, n
    <3>3. d # 1
      BY <2>1, <2>3, <3>2
    <3>4. /\ d - 1 \in 1..n /\ d - 1 \in 1..n - 1 /\ (d - 1) + 1 = d
          /\ \A j \in ((d - 1) + 1)..(n - 1) : j \in 1..n - 1 /\ j + 1 \in (d + 1)..n
      BY <2>3, <3>3
    <3>5. Settled(Pending, (d - 1) - 1, served - 1)'
      BY <2>1, <2>4, <2>5, <3>2, <3>4
    <3>6. Pending'[d - 1] = Pending[d] /\ \A j \in ((d - 1) + 1)..(n - 1) : NmOf(Pending'[j]) = 0
      BY <2>3, <3>2, <3>4
    <3> QED BY <2>1, <2>3, <3>2, <3>4, <3>5, <3>6 DEF DeltaComing
  <2>10. InSendStatus("map")' => draft'["map"].nm = served'
    BY <2>1, <2>2 DEF CatchesUp, InSendStatus
  <2>11. At("map", "enqueue")' => ~canSkipStatus(draft["map"], lastStatus)'
    BY <2>1, <2>2, NotSkipped DEF CatchesUp, At
  <2> QED BY <2>7, <2>8, <2>9, <2>10, <2>11 DEF CatchesUp
<1>15. CASE RunDelta
  <2> DEFINE n == Len(Pending)
             v == running[1].nm
  <2>1. /\ UNCHANGED <<closed, served, inMapPoll, ctxDone, draft, lastStatus>>
        /\ running[1].kind = "delta"
    BY <1>15 DEF RunDelta
  <2>2. CatchesUp /\ ~closed
    BY <1>c, <1>u, <2>1
  <2>3. /\ Pending[1] = running[1] /\ n \in Nat \ {0} /\ Len(Pending') = n - 1
        /\ \A i \in 1..n - 1 : Pending'[i] = Pending[i + 1]
    BY <1>15, PendingRun
  <2>4. \A k \in 1..n, b \in Nat : Settled(Pending, k, b) => Settled(Pending, k - 1, b)'
    BY <1>15, <2>2, SettledRun
  <2>5. served \in Nat /\ served > 0 /\ served - 1 \in Nat
    BY <1>0, <2>1 DEF PollInv
  <2>a. /\ ~(pc["map"] = "pushed" /\ served = v) => pc' = pc
        /\ pc["map"] = "pushed" /\ served = v =>
             \/ pc'["map"] = "full"
             \/ pc'["map"] = "poll" /\ obsNm' = (IF obsNm = v - 1 THEN v ELSE Torn)
    BY <1>0, <1>15 DEF RunDelta, At, Jump
  <2> HIDE DEF n, v
  <2>6. n \in 1..n /\ 1 \in 1..n
    BY <2>3
  <2>7. CASE pc["map"] = "pushed" /\ served = v
    <3>1. CASE pc'["map"] = "full"
      BY <3>1 DEF CatchesUp, At, InSendStatus, SendLabels
    <3>2. CASE pc'["map"] = "poll" /\ obsNm' = (IF obsNm = v - 1 THEN v ELSE Torn)
      <4>1. PICK d \in 1..n : /\ Pending[d].kind = "delta" /\ Pending[d].nm = served
                              /\ \A j \in (d + 1)..n : NmOf(Pending[j]) = 0
                              /\ Settled(Pending, d - 1, served - 1)
        BY <2>2, <2>7 DEF CatchesUp, At, DeltaComing, n
      <4>2. NmOf(Pending[1]) = served
        BY <2>1, <2>3, <2>7 DEF NmOf, v
      <4>3. d = 1
        <5> SUFFICES ASSUME d # 1 PROVE FALSE
          OBVIOUS
        <5>1. 1 \in 1..d - 1 /\ d - 1 \in 1..n
          BY <2>3
        <5>2. PICK i \in 1..d - 1 : /\ Pending[i].kind = "status"
                                    /\ Pending[i].st.nm = served - 1 /\ served - 1 > 0
          BY <2>5, <4>1, <4>2, <5>1 DEF Settled
        <5>3. NmOf(Pending[i]) = served - 1 /\ i # 1
          BY <2>1, <2>3, <5>2 DEF NmOf
        <5>4. i \in 1..n /\ 1 < i
          BY <2>3, <5>2, <5>3
        <5>5. served <= served - 1
          BY <2>6, <4>2, <5>2, <5>3, <5>4 DEF OrderInv, n
        <5> QED BY <2>5, <5>5
      <4>4. obsNm = served - 1
        BY <4>1, <4>3 DEF Settled
      <4>5. obsNm' = served
        BY <2>7, <3>2, <4>4
      <4>6. \A j \in 1..n - 1 : NmOf(Pending'[j]) = 0
        BY <2>3, <4>1, <4>3
      <4>7. Settled(Pending, Len(Pending), served)'
        BY <2>1, <2>3, <4>5, <4>6 DEF Settled
      <4> QED BY <3>2, <4>7 DEF CatchesUp, At, InSendStatus, SendLabels
    <3> QED BY <2>7, <2>a, <3>1, <3>2
  <2>8. CASE ~(pc["map"] = "pushed" /\ served = v)
    <3>0. pc' = pc
      BY <2>8, <2>a
    <3>1. At("map", "poll")' => Settled(Pending, Len(Pending), served)'
      BY <2>1, <2>2, <2>3, <2>4, <2>5, <2>6, <3>0 DEF CatchesUp, At, n
    <3>2. At("map", "delta")' => Settled(Pending, Len(Pending), served - 1)'
      BY <2>1, <2>2, <2>3, <2>4, <2>5, <2>6, <3>0 DEF CatchesUp, At, n
    <3>3. ASSUME At("map", "pushed")' PROVE DeltaComing'
      <4>1. PICK d \in 1..n : /\ Pending[d].kind = "delta" /\ Pending[d].nm = served
                              /\ \A j \in (d + 1)..n : NmOf(Pending[j]) = 0
                              /\ Settled(Pending, d - 1, served - 1)
        BY <2>2, <3>0, <3>3 DEF CatchesUp, At, DeltaComing, n
      <4>2. d # 1
        BY <2>3, <2>8, <3>0, <3>3, <4>1 DEF At, v
      <4>3. /\ d - 1 \in 1..n /\ d - 1 \in 1..n - 1 /\ (d - 1) + 1 = d
            /\ \A j \in ((d - 1) + 1)..(n - 1) : j \in 1..n - 1 /\ j + 1 \in (d + 1)..n
        BY <2>3, <4>2
      <4>4. Settled(Pending, (d - 1) - 1, served - 1)'
        BY <2>1, <2>4, <2>5, <4>1, <4>3
      <4>5. /\ Pending'[d - 1] = Pending[d]
            /\ \A j \in ((d - 1) + 1)..(n - 1) : NmOf(Pending'[j]) = 0
        BY <2>3, <4>1, <4>3
      <4> QED BY <2>1, <2>3, <4>1, <4>3, <4>4, <4>5 DEF DeltaComing
    <3>4. InSendStatus("map")' => draft'["map"].nm = served'
      BY <2>1, <2>2, <3>0 DEF CatchesUp, InSendStatus
    <3>5. At("map", "enqueue")' => ~canSkipStatus(draft["map"], lastStatus)'
      BY <2>1, <2>2, <3>0 DEF CatchesUp, At
    <3> QED BY <3>1, <3>2, <3>3, <3>4, <3>5 DEF CatchesUp
  <2> QED BY <2>7, <2>8
<1> QED
  BY <1>1, <1>2, <1>3, <1>4, <1>5, <1>6, <1>7, <1>8, <1>9, <1>10, <1>11, <1>12, <1>13, <1>14,
     <1>15, StepKinds DEF NetmapStep

\* The initial states satisfy ObserverInv.
LEMMA ObserverInit == Init => ObserverInv
<1> SUFFICES ASSUME Init PROVE ObserverInv
  OBVIOUS
<1>1. /\ pc["map"] = "top" /\ inMapPoll = FALSE /\ served = 0 /\ obsNm = 0 /\ closed = FALSE
      /\ Pending = <<>> /\ MaxNm \in Nat
      /\ \A s \in Senders : draft[s] = Blank
  BY PcFun, Bounds DEF Init, Routines, Pending
<1>2. Blank.nm = 0
  BY DEF Blank
<1>3. DraftInv
  BY <1>1, <1>2 DEF DraftInv, Senders
<1>4. PollInv
  BY <1>1 DEF PollInv, InSendStatus, SendLabels
<1>5. OrderInv
  BY <1>1 DEF OrderInv
<1>6. CurrentInv
  BY <1>1 DEF CurrentInv
<1> QED BY <1>3, <1>4, <1>5, <1>6 DEF ObserverInv

\* ObserverInv is an invariant.
LEMMA ObserverInvariant == Spec => []ObserverInv
<1>1. TypeOK /\ OnlyWhileLoggedIn /\ ObserverInv /\ [Next]_vars => ObserverInv'
  BY PollStep, OrderStep, CurrentStep DEF ObserverInv
<1> QED BY TypeCorrect, OnlyWhileLoggedInHolds, ObserverInit, <1>1, PTL DEF Spec

\* An observer that has caught up with a live map poll has the netmap of the last map
\* response, whatever was skipped, timed out or declined.
THEOREM ObserverCurrentHolds == Spec => []ObserverCurrent
<1>1. TypeOK /\ ObserverInv => ObserverCurrent
  <2> SUFFICES ASSUME TypeOK, ObserverInv, queue = <<>>, running = <<>>, HasObserver,
                      At("map", "poll"), inMapPoll, ~ctxDone["map"]
               PROVE  obsNm = served
    BY DEF ObserverCurrent, Quiet
  <2>1. Settled(Pending, Len(Pending), served)
    BY DEF ObserverInv, CurrentInv, CatchesUp
  <2>2. Len(Pending) = 0
    BY DEF Pending
  <2> QED BY <2>1, <2>2 DEF Settled
<1> QED BY TypeCorrect, ObserverInvariant, <1>1, PTL

\* The observer never goes back to an older netmap.
THEOREM NetmapsInOrderHolds == Spec => NetmapsInOrder
<1>1. TypeOK /\ ObserverInv /\ [Next]_vars
        => [obsNm' \in {obsNm, Torn} \/ obsNm = Torn \/ obsNm' > obsNm]_vars
  BY OrderStep DEF ObserverInv
<1> QED BY TypeCorrect, ObserverInvariant, <1>1, PTL DEF Spec, NetmapsInOrder
=============================================================================
