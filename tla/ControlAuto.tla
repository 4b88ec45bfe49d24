---------------------------- MODULE ControlAuto ----------------------------
(***************************************************************************)
(* controlclient.Auto: the client of the control plane.  Three goroutines  *)
(* (authRoutine, mapRoutine, updateRoutine) make HTTP requests; the        *)
(* methods Login, Logout, SetPaused, Shutdown and the setters that end in  *)
(* updateControl steer them through fields guarded by c.mu, through two    *)
(* cancellable contexts and through the channels updateCh and              *)
(* unpauseWaiters.  What happens is reported to the observer (LocalBackend)*)
(* by sendStatus, through observerQueue.                                   *)
(*                                                                         *)
(* One action is one critical section of c.mu, one operation on a channel  *)
(* or an atomic, or one answer of the server.  What the server answers is  *)
(* chosen freely; the sleeps of backoff and waitRetryAfter take no step.   *)
(***************************************************************************)
EXTENDS Naturals, Sequences

CONSTANTS
  Callers,      \* goroutines that call SetHostinfo, SetNetInfo, UpdateEndpoints, ...
  Persists,     \* the values of Direct.GetPersist
  HasObserver,  \* whether Options.Observer is set
  MayPause,     \* whether SetPaused is called
  MaxLogins, MaxLogouts, MaxChanges, MaxNm,  \* bounds on the calls and map responses
  MaxQueue      \* failures are reported only while observerQueue is this short

Routines == {"auth", "map", "update"}
Senders == {"auth", "map", "logout"}
Informers == Callers \cup {"auth"}
Procs == Routines \cup Informers \cup {"logout", "shutdown"}

ASSUME Bounds ==
  /\ {MaxLogins, MaxLogouts, MaxChanges, MaxNm, MaxQueue} \subseteq Nat
  /\ HasObserver \in BOOLEAN /\ MayPause \in BOOLEAN

ASSUME CallersDistinct ==
  Callers \cap {"auth", "map", "update", "logout", "shutdown"} = {}

VARIABLES
  \* Fields of Auto.
  closed, paused, wantLoggedIn, loggedIn, inMapPoll,
  loginGoal,      \* the number of the Login call, and whether an auth URL is known
  lastUpdateGen,
  atomicGen,      \* the package variable behind nextUpdateGen
  updateCh,       \* whether the channel holds its one token
  lastStatus,     \* <<>> for nil, <<s>> for a pointer to s
  \* Goroutines.
  pc,             \* pc[p]: where goroutine p is
  ctxDone,        \* ctxDone[r]: routine r holds a context that is cancelled
  goal,           \* authRoutine's local goal
  gen, informed,  \* updateRoutine's gen and lastUpdateGenInformed
  myGen,          \* myGen[p]: the gen that updateControl took for p
  \* What is told to the server: versions of Direct's hostinfo, endpoints, ...
  info, sentInfo, serverInfo,
  \* Calls made so far, and the version of the last map response.
  logins, logouts, served,
  \* sendStatus and the observer.
  draft,          \* draft[s]: the status that sender s is sending
  queue, running, \* observerQueue: waiting, and <<>> or the one being executed
  obsLoggedIn,    \* the observer: LoggedIn of the last status it was given
  obsNm           \* the observer: the netmap it has

authVars == <<wantLoggedIn, loggedIn, loginGoal, goal, logins>>
updateVars == <<lastUpdateGen, atomicGen, updateCh, gen, informed, myGen,
                info, sentInfo, serverInfo>>
statusVars == <<lastStatus, draft, queue, running, obsLoggedIn, obsNm>>
vars == <<closed, paused, inMapPoll, pc, ctxDone, logouts, served,
          authVars, updateVars, statusVars>>

NoGoal == [login |-> 0, url |-> FALSE]
Goals == [login : Nat, url : BOOLEAN]
NoPersist == 0

\* A Status: url and err stand for URL # "" and Err # nil; nm is a version, 0 for nil.
Blank == [url |-> FALSE, err |-> FALSE, nm |-> 0, persist |-> NoPersist,
          loggedIn |-> FALSE, inMapPoll |-> FALSE]

Torn == MaxNm + 1  \* a netmap to which a delta for another one was applied

Init ==
  /\ closed = FALSE
  /\ paused \in (IF MayPause THEN BOOLEAN ELSE {FALSE})  \* Options.StartPaused
  /\ wantLoggedIn = FALSE /\ loggedIn = FALSE /\ inMapPoll = FALSE
  /\ loginGoal = NoGoal /\ goal = NoGoal
  /\ lastUpdateGen = 0 /\ atomicGen = 0 /\ gen = 0 /\ informed = 0
  /\ updateCh = FALSE
  /\ lastStatus = <<>> /\ queue = <<>> /\ running = <<>>
  /\ pc = [p \in Procs |-> IF p \in Routines THEN "top" ELSE "idle"]
  /\ ctxDone = [r \in Routines |-> FALSE]
  /\ myGen = [p \in Informers |-> 0]
  /\ info = 0 /\ sentInfo = 0 /\ serverInfo = 0
  /\ logins = 0 /\ logouts = 0 /\ served = 0
  /\ draft = [s \in Senders |-> Blank]
  /\ obsLoggedIn = FALSE /\ obsNm = 0

-----------------------------------------------------------------------------
(* Contexts, and pieces of critical sections.                              *)

At(p, label) == pc[p] = label
Jump(p, label) == pc' = [pc EXCEPT ![p] = label]

\* A routine that goes back to the top of its loop drops its context.
Goto(p, label) ==
  /\ Jump(p, label)
  /\ ctxDone' = IF label = "top" THEN [ctxDone EXCEPT ![p] = FALSE] ELSE ctxDone

\* cancelMapCtxLocked, cancelAuthCtxLocked: whoever holds the old context sees
\* it cancelled.  The new context is live unless the client is closed.
HoldsCtx(r) == pc[r] \notin {"top", "await", "read", "exited"}
Cancel(rs) == ctxDone' = [r \in Routines |-> ctxDone[r] \/ (r \in rs /\ HoldsCtx(r))]
TakeCtx(r) == ctxDone' = [ctxDone EXCEPT ![r] = closed]
MapCtx == {"map", "update"}

\* The routines blocked on a channel of unpauseWaiters.
unpauseWaiters == {r \in Routines : pc[r] = "await"}
Wake(label) == pc' = [p \in Procs |-> IF p \in unpauseWaiters THEN label ELSE pc[p]]

waitUnpause(r) ==
  /\ At(r, "top")
  /\ Goto(r, IF closed THEN "exited" ELSE IF paused THEN "await" ELSE "read")
  /\ UNCHANGED <<closed, paused, inMapPoll, logouts, served,
                 authVars, updateVars, statusVars>>

\* A call of sendStatus by s.
Send(s, status) ==
  /\ Jump(s, "status")
  /\ draft' = [draft EXCEPT ![s] = status]
  /\ UNCHANGED <<lastStatus, queue, running, obsLoggedIn, obsNm>>

-----------------------------------------------------------------------------
(* The methods.                                                            *)

\* Faulty: the context of authRoutine is not cancelled.
LoginKeepsAuthCtx ==
  /\ logins < MaxLogins
  /\ ~closed
  /\ logins' = logins + 1
  /\ wantLoggedIn' = TRUE
  /\ loginGoal' = [login |-> logins + 1, url |-> FALSE]
  /\ Cancel(MapCtx)
  /\ UNCHANGED <<closed, paused, loggedIn, inMapPoll, goal, pc, logouts, served,
                 updateVars, statusVars>>

Login ==
  /\ logins < MaxLogins
  /\ ~closed
  /\ logins' = logins + 1
  /\ wantLoggedIn' = TRUE
  /\ loginGoal' = [login |-> logins + 1, url |-> FALSE]
  /\ Cancel(Routines)
  /\ UNCHANGED <<closed, paused, loggedIn, inMapPoll, goal, pc, logouts, served,
                 updateVars, statusVars>>

Logout ==
  /\ At("logout", "idle") /\ logouts < MaxLogouts
  /\ logouts' = logouts + 1
  /\ wantLoggedIn' = FALSE
  /\ loginGoal' = NoGoal
  /\ Goto("logout", IF closed THEN "idle" ELSE "request")
  /\ UNCHANGED <<closed, paused, loggedIn, inMapPoll, goal, logins, served,
                 updateVars, statusVars>>

LogoutFails ==
  /\ At("logout", "request")
  /\ Goto("logout", "idle")
  /\ UNCHANGED <<closed, paused, inMapPoll, logouts, served,
                 authVars, updateVars, statusVars>>

\* Faulty: the map poll goes on.
LogoutKeepsMapCtx ==
  /\ At("logout", "request")
  /\ loggedIn' = FALSE
  /\ Cancel({"auth"})
  /\ Send("logout", Blank)
  /\ UNCHANGED <<closed, paused, wantLoggedIn, loginGoal, inMapPoll, goal, logins,
                 logouts, served, updateVars>>

LogoutSucceeds ==
  /\ At("logout", "request")
  /\ loggedIn' = FALSE
  /\ Cancel(Routines)
  /\ Send("logout", Blank)
  /\ UNCHANGED <<closed, paused, wantLoggedIn, loginGoal, inMapPoll, goal, logins,
                 logouts, served, updateVars>>

SetPaused(p) ==
  /\ MayPause
  /\ p # paused /\ ~closed
  /\ paused' = p
  /\ IF p THEN Cancel(Routines) /\ UNCHANGED pc
          ELSE Wake("read") /\ UNCHANGED ctxDone
  /\ UNCHANGED <<closed, inMapPoll, logouts, served, authVars, updateVars, statusVars>>

\* Faulty: the routines that wait to be unpaused are forgotten.
ShutdownForgetsWaiters ==
  /\ At("shutdown", "idle") /\ ~closed
  /\ closed' = TRUE
  /\ queue' = <<>>
  /\ Cancel(Routines)
  /\ Jump("shutdown", "join")
  /\ UNCHANGED <<paused, inMapPoll, logouts, served, authVars, updateVars,
                 lastStatus, draft, running, obsLoggedIn, obsNm>>

\* Shutdown closes observerQueue too: what waits there is never started.
Shutdown ==
  /\ At("shutdown", "idle") /\ ~closed
  /\ closed' = TRUE
  /\ queue' = <<>>
  /\ Cancel(Routines)
  /\ pc' = [p \in Procs |-> CASE p = "shutdown" -> "join"
                              [] p \in unpauseWaiters -> "exited"
                              [] OTHER -> pc[p]]
  /\ UNCHANGED <<paused, inMapPoll, logouts, served, authVars, updateVars,
                 lastStatus, draft, running, obsLoggedIn, obsNm>>

\* <-c.authDone, <-c.mapDone, <-c.updateDone.
ShutdownReturns ==
  /\ At("shutdown", "join")
  /\ \A r \in Routines : At(r, "exited")
  /\ Goto("shutdown", "returned")
  /\ UNCHANGED <<closed, paused, inMapPoll, logouts, served,
                 authVars, updateVars, statusVars>>

-----------------------------------------------------------------------------
(* updateControl, in a setter (p in Callers) or in restartMap (p = "auth").*)

SetInfo(p) ==
  /\ At(p, "idle") /\ info < MaxChanges
  /\ info' = info + 1
  /\ Goto(p, "nextGen")
  /\ UNCHANGED <<closed, paused, inMapPoll, logouts, served, authVars, statusVars,
                 lastUpdateGen, atomicGen, updateCh, gen, informed, myGen,
                 sentInfo, serverInfo>>

nextUpdateGen(p) ==
  /\ At(p, "nextGen")
  /\ atomicGen' = atomicGen + 1
  /\ myGen' = [myGen EXCEPT ![p] = atomicGen']
  /\ Goto(p, "setGen")
  /\ UNCHANGED <<closed, paused, inMapPoll, logouts, served, authVars, statusVars,
                 lastUpdateGen, updateCh, gen, informed, info, sentInfo, serverInfo>>

AfterUpdate(p) == IF p = "auth" THEN "top" ELSE "idle"

SetUpdateGen(p) ==
  /\ At(p, "setGen")
  /\ IF myGen[p] < lastUpdateGen
       THEN Goto(p, AfterUpdate(p)) /\ UNCHANGED lastUpdateGen
       ELSE Goto(p, "signal") /\ lastUpdateGen' = myGen[p]
  /\ myGen' = [myGen EXCEPT ![p] = 0]
  /\ UNCHANGED <<closed, paused, inMapPoll, logouts, served, authVars, statusVars,
                 atomicGen, updateCh, gen, informed, info, sentInfo, serverInfo>>

\* Faulty: nothing is put into updateCh.
SignalNothing(p) ==
  /\ At(p, "signal")
  /\ Goto(p, AfterUpdate(p))
  /\ UNCHANGED <<closed, paused, inMapPoll, logouts, served, authVars, statusVars, updateVars>>

Signal(p) ==
  /\ At(p, "signal")
  /\ updateCh' = TRUE
  /\ Goto(p, AfterUpdate(p))
  /\ UNCHANGED <<closed, paused, inMapPoll, logouts, served, authVars, statusVars,
                 lastUpdateGen, atomicGen, gen, informed, myGen, info, sentInfo, serverInfo>>

-----------------------------------------------------------------------------
(* updateRoutine.                                                          *)

UpdateRead ==
  /\ At("update", "read")
  /\ TakeCtx("update")
  /\ IF lastUpdateGen > 0 /\ lastUpdateGen # informed /\ loggedIn
       THEN Jump("update", "send") /\ gen' = lastUpdateGen
       ELSE Jump("update", "idle") /\ UNCHANGED gen
  /\ UNCHANGED <<closed, paused, inMapPoll, logouts, served, authVars, statusVars,
                 lastUpdateGen, atomicGen, updateCh, informed, myGen,
                 info, sentInfo, serverInfo>>

\* The select: mapCtx is cancelled, or there is a token in updateCh.
UpdateWake ==
  /\ At("update", "idle")
  /\ \/ ctxDone["update"] /\ UNCHANGED updateCh
     \/ updateCh /\ updateCh' = FALSE
  /\ Goto("update", "top")
  /\ UNCHANGED <<closed, paused, inMapPoll, logouts, served, authVars, statusVars,
                 lastUpdateGen, atomicGen, gen, informed, myGen, info, sentInfo, serverInfo>>

\* SendUpdate: the request is made from Direct's current fields, ...
SendUpdate ==
  /\ At("update", "send")
  /\ sentInfo' = info
  /\ Goto("update", "sent")
  /\ UNCHANGED <<closed, paused, inMapPoll, logouts, served, authVars, statusVars,
                 lastUpdateGen, atomicGen, updateCh, gen, informed, myGen, info, serverInfo>>

\* Faulty: the generation is read again after the request.
SendUpdateOKRereads ==
  /\ At("update", "sent")
  /\ informed' = lastUpdateGen
  /\ serverInfo' = sentInfo
  /\ gen' = 0 /\ sentInfo' = 0
  /\ Goto("update", "top")
  /\ UNCHANGED <<closed, paused, inMapPoll, logouts, served, authVars, statusVars,
                 lastUpdateGen, atomicGen, updateCh, myGen, info>>

\* ... and it succeeds ...
SendUpdateOK ==
  /\ At("update", "sent")
  /\ informed' = gen
  /\ serverInfo' = sentInfo
  /\ gen' = 0 /\ sentInfo' = 0
  /\ Goto("update", "top")
  /\ UNCHANGED <<closed, paused, inMapPoll, logouts, served, authVars, statusVars,
                 lastUpdateGen, atomicGen, updateCh, myGen, info>>

\* ... or fails, whether or not the server has seen it.
SendUpdateFails ==
  /\ At("update", "sent")
  /\ serverInfo' \in {serverInfo, sentInfo}
  /\ gen' = 0 /\ sentInfo' = 0
  /\ Goto("update", "top")
  /\ UNCHANGED <<closed, paused, inMapPoll, logouts, served, authVars, statusVars,
                 lastUpdateGen, atomicGen, updateCh, informed, myGen, info>>

-----------------------------------------------------------------------------
(* authRoutine.                                                            *)

AuthRead ==
  /\ At("auth", "read")
  /\ goal' = loginGoal
  /\ TakeCtx("auth")
  /\ Jump("auth", IF loginGoal = NoGoal THEN "idle" ELSE "request")
  /\ UNCHANGED <<closed, paused, wantLoggedIn, loggedIn, loginGoal, inMapPoll,
                 logins, logouts, served, updateVars, statusVars>>

AuthWake ==
  /\ At("auth", "idle") /\ ctxDone["auth"]
  /\ Goto("auth", "top")
  /\ UNCHANGED <<closed, paused, inMapPoll, logouts, served,
                 authVars, updateVars, statusVars>>

\* Bounds the number of reports in flight; the server or the backoff is slow.
Room == Len(queue) < MaxQueue

\* TryLogin or WaitLoginURL fails: report, unless the context was cancelled.
LoginFails ==
  /\ At("auth", "request") /\ (ctxDone["auth"] \/ Room)
  /\ goal' = NoGoal
  /\ IF ctxDone["auth"]
       THEN Goto("auth", "top") /\ UNCHANGED statusVars
       ELSE Send("auth", [Blank EXCEPT !.err = TRUE]) /\ UNCHANGED ctxDone
  /\ UNCHANGED <<closed, paused, wantLoggedIn, loggedIn, loginGoal, inMapPoll,
                 logins, logouts, served, updateVars>>

\* The server wants the user to visit a URL: wait for that next.
LoginGetsURL ==
  /\ At("auth", "request") /\ Room
  /\ loginGoal' = IF loginGoal = goal THEN [goal EXCEPT !.url = TRUE] ELSE loginGoal
  /\ goal' = NoGoal
  /\ Send("auth", [Blank EXCEPT !.url = TRUE])
  /\ UNCHANGED <<closed, paused, wantLoggedIn, loggedIn, inMapPoll, ctxDone,
                 logins, logouts, served, updateVars>>

\* Faulty: the login is committed even if the goal has changed.
LoginSucceedsUnchecked ==
  /\ At("auth", "request")
  /\ goal' = NoGoal
  /\ loggedIn' = TRUE
  /\ loginGoal' = NoGoal
  /\ Send("auth", Blank) /\ UNCHANGED ctxDone
  /\ UNCHANGED <<closed, paused, wantLoggedIn, inMapPoll, logins, logouts, served,
                 updateVars>>

LoginSucceeds ==
  /\ At("auth", "request")
  /\ goal' = NoGoal
  /\ IF loginGoal = goal
       THEN /\ loggedIn' = TRUE
            /\ loginGoal' = NoGoal
            /\ Send("auth", Blank) /\ UNCHANGED ctxDone
       ELSE /\ Goto("auth", "top")
            /\ UNCHANGED <<loggedIn, loginGoal, statusVars>>
  /\ UNCHANGED <<closed, paused, wantLoggedIn, inMapPoll, logins, logouts, served,
                 updateVars>>

restartMap ==
  /\ At("auth", "restartMap")
  /\ Cancel(MapCtx)
  /\ Jump("auth", "nextGen")
  /\ UNCHANGED <<closed, paused, inMapPoll, logouts, served, authVars, updateVars, statusVars>>

-----------------------------------------------------------------------------
(* mapRoutine, and the callbacks of the map session that PollNetMap runs.  *)

MapRead ==
  /\ At("map", "read")
  /\ TakeCtx("map")
  /\ IF loggedIn
       THEN Jump("map", "poll") /\ UNCHANGED inMapPoll
       ELSE Jump("map", "idle") /\ inMapPoll' = FALSE
  /\ UNCHANGED <<closed, paused, logouts, served, authVars, updateVars, statusVars>>

MapWake ==
  /\ At("map", "idle") /\ ctxDone["map"]
  /\ Goto("map", "top")
  /\ UNCHANGED <<closed, paused, inMapPoll, logouts, served,
                 authVars, updateVars, statusVars>>

\* A map response comes: the session tries to push it as a delta, or makes a
\* full netmap of it.
MapResponse ==
  /\ At("map", "poll") /\ served < MaxNm
  /\ served' = served + 1
  /\ \E how \in {"delta", "full"} : Goto("map", how)
  /\ UNCHANGED <<closed, paused, inMapPoll, logouts,
                 authVars, updateVars, statusVars>>

\* UpdateNetmapDelta, UpdatePacketFilter, UpdateUserProfiles: hand the change
\* to the observer and wait; FALSE makes the session build a full netmap.
UpdateNetmapDelta ==
  /\ At("map", "delta")
  /\ IF loggedIn /\ inMapPoll /\ HasObserver
       THEN /\ Goto("map", "pushed")
            /\ queue' = IF closed THEN queue
                        ELSE Append(queue, [kind |-> "delta", nm |-> served])
       ELSE Goto("map", "full") /\ UNCHANGED queue
  /\ UNCHANGED <<closed, paused, inMapPoll, logouts, served, authVars, updateVars,
                 lastStatus, draft, running, obsLoggedIn, obsNm>>

\* Faulty: a timeout counts as success.
DeltaTimeoutIgnored ==
  /\ At("map", "pushed")
  /\ Goto("map", "poll")
  /\ UNCHANGED <<closed, paused, inMapPoll, logouts, served,
                 authVars, updateVars, statusVars>>

\* Two seconds have passed, or mapCtx was cancelled.
DeltaTimeout ==
  /\ At("map", "pushed")
  /\ Goto("map", "full")
  /\ UNCHANGED <<closed, paused, inMapPoll, logouts, served,
                 authVars, updateVars, statusVars>>

UpdateFullNetmap ==
  /\ At("map", "full")
  /\ inMapPoll' = TRUE
  /\ IF loggedIn
       THEN Send("map", [Blank EXCEPT !.nm = served])
       ELSE Jump("map", "poll") /\ UNCHANGED statusVars
  /\ UNCHANGED <<closed, paused, ctxDone, logouts, served, authVars, updateVars>>

\* PollNetMap returns, always with an error.
PollEnds ==
  /\ At("map", "poll")
  /\ inMapPoll' = FALSE
  /\ Goto("map", IF paused THEN "top" ELSE "report")
  /\ UNCHANGED <<closed, paused, logouts, served, authVars, updateVars, statusVars>>

\* After the backoff: report, unless the context was cancelled.
MapReport ==
  /\ At("map", "report") /\ (ctxDone["map"] \/ Room)
  /\ IF ctxDone["map"]
       THEN Goto("map", "top") /\ UNCHANGED statusVars
       ELSE Send("map", [Blank EXCEPT !.err = TRUE]) /\ UNCHANGED ctxDone
  /\ UNCHANGED <<closed, paused, inMapPoll, logouts, served, authVars, updateVars>>

-----------------------------------------------------------------------------
(* sendStatus, and the function it adds to observerQueue.                  *)

\* Where a sender goes on: authRoutine restarts the map poll after a success,
\* mapRoutine goes back to its poll after a netmap.
AfterStatus(s) ==
  CASE s = "auth" -> IF draft[s].err \/ draft[s].url THEN "top" ELSE "restartMap"
    [] s = "map" -> IF draft[s].err THEN "top" ELSE "poll"
    [] OTHER -> "idle"

\* Take a snapshot; a netmap is only sent while logged in and polling.
Snapshot(s) ==
  /\ At(s, "status")
  /\ LET d == draft[s]
         withNm == d.nm # 0 /\ loggedIn /\ inMapPoll
     IN IF closed \/ ~HasObserver
          THEN Goto(s, AfterStatus(s)) /\ draft' = [draft EXCEPT ![s] = Blank]
          ELSE /\ Goto(s, "store")
               /\ \E p \in (IF withNm THEN Persists ELSE {NoPersist}) :
                    draft' = [draft EXCEPT ![s] =
                      [d EXCEPT !.nm = IF withNm THEN d.nm ELSE 0,
                                !.persist = p,
                                !.loggedIn = loggedIn /\ loginGoal = NoGoal,
                                !.inMapPoll = inMapPoll]]
  /\ UNCHANGED <<closed, paused, inMapPoll, logouts, served, authVars, updateVars,
                 lastStatus, queue, running, obsLoggedIn, obsNm>>

StoreStatus(s) ==
  /\ At(s, "store")
  /\ lastStatus' = <<draft[s]>>
  /\ Goto(s, "enqueue")
  /\ UNCHANGED <<closed, paused, inMapPoll, logouts, served, authVars, updateVars,
                 draft, queue, running, obsLoggedIn, obsNm>>

EnqueueStatus(s) ==
  /\ At(s, "enqueue")
  /\ queue' = IF closed THEN queue
              ELSE Append(queue, [kind |-> "status", st |-> draft[s]])
  /\ draft' = [draft EXCEPT ![s] = Blank]
  /\ Goto(s, AfterStatus(s))
  /\ UNCHANGED <<closed, paused, inMapPoll, logouts, served, authVars, updateVars,
                 lastStatus, running, obsLoggedIn, obsNm>>

\* Faulty: functions are run in any order, as by goroutines of their own.
StartAny ==
  /\ running = <<>>
  /\ \E i \in 1..Len(queue) :
       /\ running' = <<queue[i]>>
       /\ queue' = SubSeq(queue, 1, i - 1) \o SubSeq(queue, i + 1, Len(queue))
  /\ UNCHANGED <<closed, paused, inMapPoll, pc, ctxDone, logouts, served, authVars, updateVars,
                 lastStatus, draft, obsLoggedIn, obsNm>>

\* observerQueue runs one function at a time, in order, while it is open.
StartNext ==
  /\ running = <<>> /\ queue # <<>>
  /\ running' = <<Head(queue)>>
  /\ queue' = Tail(queue)
  /\ UNCHANGED <<closed, paused, inMapPoll, pc, ctxDone, logouts, served, authVars, updateVars,
                 lastStatus, draft, obsLoggedIn, obsNm>>

\* s2 is lastStatus: <<>> or <<a status>>.
canSkipStatus(s1, s2) ==
  /\ s2 # <<>>
  /\ LET t == s2[1] IN
       /\ s1 # t
       /\ ~s1.err /\ ~s1.url /\ ~t.url
       /\ s1.persist = t.persist /\ s1.loggedIn = t.loggedIn /\ s1.inMapPoll = t.inMapPoll
       /\ s1.nm # 0 /\ t.nm # 0

RunStatus ==
  /\ running # <<>> /\ running[1].kind = "status"
  /\ running' = <<>>
  /\ LET st == running[1].st IN
       IF closed \/ canSkipStatus(st, lastStatus)
         THEN UNCHANGED <<lastStatus, obsLoggedIn, obsNm>>
         ELSE /\ obsLoggedIn' = st.loggedIn
              /\ obsNm' = IF st.nm # 0 THEN st.nm ELSE obsNm
              /\ lastStatus' = IF lastStatus = <<st>> THEN <<>> ELSE lastStatus
  /\ UNCHANGED <<closed, paused, inMapPoll, pc, ctxDone, logouts, served, authVars, updateVars,
                 draft, queue>>

\* The observer applies the delta or declines; the answer counts if the map
\* session is still waiting for it.
RunDelta ==
  /\ running # <<>> /\ running[1].kind = "delta"
  /\ running' = <<>>
  /\ LET v == running[1].nm
         Answer(label) == IF At("map", "pushed") /\ served = v
                            THEN Jump("map", label) ELSE UNCHANGED pc
     IN \/ obsNm' = (IF obsNm = v - 1 THEN v ELSE Torn) /\ Answer("poll")
        \/ UNCHANGED obsNm /\ Answer("full")
  /\ UNCHANGED <<closed, paused, inMapPoll, ctxDone, logouts, served, authVars, updateVars,
                 lastStatus, draft, queue, obsLoggedIn>>

-----------------------------------------------------------------------------
Methods ==
  \/ Login \/ Logout \/ Shutdown
  \/ \E p \in BOOLEAN : SetPaused(p)
  \/ \E p \in Callers : SetInfo(p)

updateControl(p) == nextUpdateGen(p) \/ SetUpdateGen(p) \/ Signal(p)
sendStatus(s) == Snapshot(s) \/ StoreStatus(s) \/ EnqueueStatus(s)

authAnswer == LoginFails \/ LoginGetsURL \/ LoginSucceeds
authRoutine ==
  \/ waitUnpause("auth") \/ AuthRead \/ AuthWake \/ restartMap
  \/ updateControl("auth") \/ sendStatus("auth")

mapRoutine ==
  \/ waitUnpause("map") \/ MapRead \/ MapWake
  \/ UpdateNetmapDelta \/ DeltaTimeout \/ UpdateFullNetmap \/ MapReport
  \/ sendStatus("map")

updateAnswer == SendUpdateOK \/ SendUpdateFails
updateRoutine == waitUnpause("update") \/ UpdateRead \/ UpdateWake \/ SendUpdate

observerQueue == StartNext \/ RunStatus \/ RunDelta

\* Shutdown has returned and nothing is left to do.
Terminated ==
  /\ At("shutdown", "returned")
  /\ At("logout", "idle") /\ \A p \in Callers : At(p, "idle")
  /\ running = <<>>
  /\ UNCHANGED vars

Next ==
  \/ Methods
  \/ authRoutine \/ authAnswer
  \/ mapRoutine \/ MapResponse \/ PollEnds
  \/ updateRoutine \/ updateAnswer
  \/ LogoutFails \/ LogoutSucceeds \/ sendStatus("logout")
  \/ \E p \in Callers : updateControl(p)
  \/ observerQueue
  \/ ShutdownReturns
  \/ Terminated

Spec == Init /\ [][Next]_vars

\* The Go scheduler runs every goroutine that can run, queued functions return,
\* and a request whose context is cancelled returns.  Nobody is obliged to call
\* a method, and the server is not obliged to answer.
Fairness ==
  /\ WF_vars(authRoutine) /\ WF_vars(mapRoutine) /\ WF_vars(updateRoutine)
  /\ WF_vars(sendStatus("logout"))
  /\ \A p \in Callers : WF_vars(updateControl(p))
  /\ WF_vars(observerQueue)
  /\ WF_vars(ShutdownReturns)
  /\ WF_vars(ctxDone["auth"] /\ authAnswer)
  /\ WF_vars(ctxDone["map"] /\ PollEnds)
  /\ WF_vars(ctxDone["update"] /\ updateAnswer)

FairSpec == Spec /\ Fairness

\* In addition the server answers every request, and does not fail for ever.
ServerFairness ==
  /\ WF_vars(authAnswer) /\ WF_vars(updateAnswer)
  /\ SF_vars(LoginGetsURL \/ LoginSucceeds)
  /\ SF_vars(SendUpdateOK)

FairServerSpec == FairSpec /\ ServerFairness

-----------------------------------------------------------------------------
(* Properties.                                                             *)

LoopLabels == {"top", "await", "read", "exited", "idle"}
SendLabels == {"status", "store", "enqueue"}
InformLabels == {"nextGen", "setGen", "signal"}
AuthLabels == LoopLabels \cup {"request", "restartMap"} \cup SendLabels \cup InformLabels
MapLabels == LoopLabels \cup {"poll", "delta", "pushed", "full", "report"} \cup SendLabels
UpdateLabels == LoopLabels \cup {"send", "sent"}
LogoutLabels == {"idle", "request"} \cup SendLabels
ShutdownLabels == {"idle", "join", "returned"}
CallerLabels == {"idle"} \cup InformLabels
LabelsOf(p) ==
  CASE p = "auth" -> AuthLabels
    [] p = "map" -> MapLabels
    [] p = "update" -> UpdateLabels
    [] p = "logout" -> LogoutLabels
    [] p = "shutdown" -> ShutdownLabels
    [] OTHER -> CallerLabels

Statuses == [url : BOOLEAN, err : BOOLEAN, nm : Nat, persist : Persists \cup {NoPersist},
             loggedIn : BOOLEAN, inMapPoll : BOOLEAN]
Items == [kind : {"status"}, st : Statuses] \cup [kind : {"delta"}, nm : Nat]

TypeFields ==
  /\ closed \in BOOLEAN /\ paused \in BOOLEAN /\ inMapPoll \in BOOLEAN
  /\ wantLoggedIn \in BOOLEAN /\ loggedIn \in BOOLEAN
  /\ loginGoal \in Goals /\ goal \in Goals
  /\ updateCh \in BOOLEAN
  /\ lastUpdateGen \in Nat /\ atomicGen \in Nat /\ gen \in Nat /\ informed \in Nat
  /\ myGen \in [Informers -> Nat]
  /\ info \in Nat /\ sentInfo \in Nat /\ serverInfo \in Nat
  /\ logins \in Nat /\ logouts \in Nat /\ served \in Nat

TypePc ==
  /\ pc \in [Procs -> UNION {LabelsOf(p) : p \in Procs}]
  /\ \A p \in Procs : pc[p] \in LabelsOf(p)

TypeCtx == ctxDone \in [Routines -> BOOLEAN]

TypeStatus ==
  /\ draft \in [Senders -> Statuses]
  /\ lastStatus \in Seq(Statuses) /\ Len(lastStatus) <= 1
  /\ queue \in Seq(Items)
  /\ running \in Seq(Items) /\ Len(running) <= 1
  /\ obsLoggedIn \in BOOLEAN /\ obsNm \in Nat

\* The type of every variable; each goroutine is at a label of its own code.
TypeOK == TypeFields /\ TypePc /\ TypeCtx /\ TypeStatus

InSendStatus(s) == pc[s] \in SendLabels

\* authRoutine has committed a login and has yet to cancel the map context ...
RestartPending ==
  At("auth", "restartMap") \/ (InSendStatus("auth") /\ AfterStatus("auth") = "restartMap")
\* ... or somebody has yet to put a token into updateCh.
SignalPending ==
  RestartPending \/ \E p \in Informers : pc[p] \in InformLabels

NeedsUpdate == lastUpdateGen > 0 /\ lastUpdateGen # informed /\ loggedIn

AuthAwake == At("auth", "idle") /\ loginGoal # NoGoal => ctxDone["auth"]
MapAwake == At("map", "idle") /\ loggedIn => ctxDone["map"] \/ RestartPending
UpdateAwake ==
  At("update", "idle") /\ NeedsUpdate =>
    ctxDone["update"] \/ updateCh \/ RestartPending \/ \E p \in Informers : At(p, "signal")

\* No routine sleeps through what it waits for.  One that waits in waitUnpause
\* is woken when the client is unpaused or closed.  authRoutine does not wait
\* while there is a login goal, mapRoutine while the client is logged in, and
\* updateRoutine while the server has to be informed, unless the wakeup is on
\* its way; and none waits on a live context of a closed client.
NoLostWakeup ==
  /\ \A r \in Routines : /\ At(r, "await") => paused /\ ~closed
                         /\ At(r, "idle") /\ closed => ctxDone[r]
  /\ AuthAwake /\ MapAwake /\ UpdateAwake

\* What mapRoutine and updateRoutine do after a logout (finish a poll, hand out
\* a netmap, report an error, finish a lite update) they do with a cancelled
\* context, so that it comes to an end and no error is reported.
OnlyWhileLoggedIn ==
  /\ pc["map"] \notin LoopLabels /\ ~loggedIn => ctxDone["map"]
  /\ pc["update"] \notin LoopLabels /\ ~loggedIn => ctxDone["update"]

\* An answer to a login request that was overtaken by Logout does not log the
\* client in: the client becomes logged in only while the last method called
\* wants it.
LoginWanted == [][~loggedIn /\ loggedIn' => wantLoggedIn]_vars

\* When updateRoutine has gone to sleep and no change is on its way to it, the
\* server has been told of the latest hostinfo, endpoints, ...
ServerInformed ==
  /\ At("update", "idle") /\ loggedIn
  /\ ~ctxDone["update"] /\ ~updateCh /\ ~SignalPending
  /\ \A p \in Callers : At(p, "idle")
  => serverInfo = info

Quiet ==
  queue = <<>> /\ running = <<>> /\ \A s \in Senders : ~InSendStatus(s)

\* Statuses may be skipped and deltas may time out or be applied to a netmap
\* they were not made for, but once the observer has caught up with a live map
\* poll it has the netmap of the last map response.
ObserverCurrent ==
  /\ Quiet /\ HasObserver
  /\ At("map", "poll") /\ inMapPoll /\ ~ctxDone["map"]
  => obsNm = served

\* The observer never goes back to an older netmap.
NetmapsInOrder ==
  [][obsNm' \in {obsNm, Torn} \/ obsNm = Torn \/ obsNm' > obsNm]_vars

\* Shutdown does not wait for ever for the three routines.
ShutdownCompletes == At("shutdown", "join") ~> At("shutdown", "returned")

\* A change is made known to the server, unless the client is paused, logged
\* out or closed meanwhile.
EventuallyInformed ==
  info # serverInfo ~> info = serverInfo \/ paused \/ ~loggedIn \/ closed

\* A login request ends with success or with an auth URL, unless the client is
\* paused or closed meanwhile.
LoginResolves ==
  loginGoal # NoGoal /\ ~loginGoal.url
    ~> loginGoal = NoGoal \/ loginGoal.url \/ paused \/ closed

\* The comment on Status.LoggedIn: "if true, indicates that serveRegister has
\* completed and no other login change is in progress": once every status has
\* been delivered, the observer does not take a logged out client for a logged
\* in one.
ObserverNotMisled == Quiet /\ ~closed /\ obsLoggedIn => loggedIn
=============================================================================
