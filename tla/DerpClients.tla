---------------------------- MODULE DerpClients ----------------------------
(***************************************************************************)
(* derp/derpserver: which connections a DERP server has, what it does with *)
(* several connections of one key, who forwards for keys that are          *)
(* connected to other servers of the region, and who is told that a key    *)
(* came or went.                                                           *)
(*                                                                         *)
(* Everything here is guarded by Server.mu, so a method that holds it is   *)
(* one action; noteClientActivity looks at its connection before it takes  *)
(* the lock.  A connection is one sclient: it is registered once.  Frames  *)
(* are written by the writer of DerpWriter.                                *)
(***************************************************************************)
EXTENDS Naturals, Sequences, SequencesExt, FiniteSets

CONSTANTS
  Keys,       \* node keys
  Conns,      \* connections
  KeyOf,      \* KeyOf[c]: the key of connection c
  MeshConns,  \* connections of mesh peers (canMesh)
  Forwarders, \* packet forwarders to other servers
  Remote,     \* keys that forwarders may be registered for
  Dests,      \* keys that packets are sent to
  Policies,   \* the values of Server.dupPolicy to consider
  IdxMod      \* 2^8: the numbers of multiForwarder.all are bytes

None == "none"

ASSUME ConnsAssumption == KeyOf \in [Conns -> Keys] /\ MeshConns \subseteq Conns
ASSUME FiniteAssumption == IsFiniteSet(Keys) /\ IsFiniteSet(Conns)
ASSUME RemoteAssumption == Remote \subseteq Keys /\ Dests \subseteq Keys
ASSUME NoneIsNothing == None \notin Conns \cup Forwarders
ASSUME PoliciesAssumption == Policies \subseteq {"lastWriterIsActive", "disableFighters"}
ASSUME IdxModAssumption == IdxMod \in Nat \ {0}

VARIABLES
  policy,     \* dupPolicy
  st,         \* st[c]: "new", "up", "stopped" (stopWriter has ended), "gone"
  clients,    \* the keys of Server.clients
  active,     \* active[k]: activeClient
  dup,        \* dup[k]: dupClientSet.set, {} if the set has no dup
  last,       \* dupClientSet.last
  history,    \* dupClientSet.sendHistory
  isDup, isDisabled,
  frame,      \* frame[c]: "none" (reading), "note" (before the lock), "handle"
  meshKeys,   \* the keys of clientsMesh
  fwds,       \* fwds[k]: the forwarders of k and their numbers; none for nil
  preferred,  \* preferred[k]: the forwarder that is used
  watchers,   \* connections that are told who comes and goes
  view,       \* view[w]: the keys present by the peerStateChanges given to w
  sent,       \* packets queued: <<key of the source, connection>>
  sawSrc,     \* sawSrc[c]: keys whose packets were written to c
  goneWatch,  \* goneWatch[k]: peerGoneWatchers
  told,       \* history: told[c], the keys that c was told have gone
  curClients, numLocalClientKeys, dupClientKeys, dupClientConns

setVars == <<clients, active, dup, last, history, isDup, isDisabled>>
gauges == <<curClients, numLocalClientKeys, dupClientKeys, dupClientConns>>
meshVars == <<meshKeys, fwds, preferred>>
goneVars == <<goneWatch, told>>
vars == <<policy, st, setVars, gauges, frame, meshVars, watchers, view, sent, sawSrc,
          goneVars>>

NoForwarders == [f \in {} |-> 0]

Init ==
  /\ policy \in Policies
  /\ st = [c \in Conns |-> "new"]
  /\ clients = {} /\ active = [k \in Keys |-> None]
  /\ dup = [k \in Keys |-> {}] /\ last = [k \in Keys |-> None]
  /\ history = [k \in Keys |-> <<>>]
  /\ isDup = [c \in Conns |-> FALSE] /\ isDisabled = [c \in Conns |-> FALSE]
  /\ frame = [c \in Conns |-> "none"]
  /\ meshKeys = {} /\ fwds = [k \in Keys |-> NoForwarders]
  /\ preferred = [k \in Keys |-> None]
  /\ watchers = {} /\ view = [c \in MeshConns |-> {}]
  /\ sent = {} /\ sawSrc = [c \in Conns |-> {}]
  /\ goneWatch = [k \in Keys |-> {}] /\ told = [c \in Conns |-> {}]
  /\ curClients = 0 /\ numLocalClientKeys = 0
  /\ dupClientKeys = 0 /\ dupClientConns = 0

-----------------------------------------------------------------------------

\* broadcastPeerStateChangeLocked: present and gone are sets of keys.
Broadcast(present, gone) ==
  view' = [w \in MeshConns |-> IF w \in watchers THEN (view[w] \cup present) \ gone
                                                 ELSE view[w]]

\* notePeerGoneFromRegionLocked.
NotePeerGone(k) ==
  /\ told' = [c \in Conns |-> IF c \in goneWatch[k] THEN told[c] \cup {k} ELSE told[c]]
  /\ goneWatch' = [goneWatch EXCEPT ![k] = {}]

-----------------------------------------------------------------------------
(* registerClient and unregisterClient. *)

\* Mutant of RegisterClient: only the new connection counts.
RegisterClientOneDup(c) ==
  LET k == KeyOf[c]  was == active[k] IN
  /\ st[c] = "new" /\ st' = [st EXCEPT ![c] = "up"]
  /\ clients' = clients \cup {k}
  /\ numLocalClientKeys' = numLocalClientKeys + (IF k \in clients THEN 0 ELSE 1)
  /\ isDup' = IF was = None THEN isDup ELSE [isDup EXCEPT ![was] = TRUE, ![c] = TRUE]
  /\ \/ /\ dup[k] = {} /\ was = None
        /\ UNCHANGED <<dup, last, history, dupClientKeys, dupClientConns>>
     \/ /\ dup[k] = {} /\ was # None
        /\ dup' = [dup EXCEPT ![k] = {c, was}]
        /\ last' = [last EXCEPT ![k] = c]
        /\ history' = [history EXCEPT ![k] = <<was>>]
        /\ dupClientKeys' = dupClientKeys + 1 /\ dupClientConns' = dupClientConns + 1
     \/ /\ dup[k] # {}
        /\ dup' = [dup EXCEPT ![k] = @ \cup {c}]
        /\ last' = [last EXCEPT ![k] = c]
        /\ history' = [history EXCEPT ![k] = Append(@, c)]
        /\ dupClientConns' = dupClientConns + 1 /\ UNCHANGED dupClientKeys
  /\ active' = [active EXCEPT ![k] = c]
  /\ meshKeys' = meshKeys \cup {k}
  /\ curClients' = curClients + 1
  /\ Broadcast({k}, {})
  /\ UNCHANGED <<policy, isDisabled, frame, fwds, preferred, watchers, sent, sawSrc,
                 goneVars>>

RegisterClient(c) ==
  LET k == KeyOf[c]  was == active[k] IN
  /\ st[c] = "new" /\ st' = [st EXCEPT ![c] = "up"]
  /\ clients' = clients \cup {k}
  /\ numLocalClientKeys' = numLocalClientKeys + (IF k \in clients THEN 0 ELSE 1)
  /\ isDup' = IF was = None THEN isDup ELSE [isDup EXCEPT ![was] = TRUE, ![c] = TRUE]
  /\ \/ /\ dup[k] = {} /\ was = None
        /\ UNCHANGED <<dup, last, history, dupClientKeys, dupClientConns>>
     \/ /\ dup[k] = {} /\ was # None
        /\ dup' = [dup EXCEPT ![k] = {c, was}]
        /\ last' = [last EXCEPT ![k] = c]
        /\ history' = [history EXCEPT ![k] = <<was>>]
        /\ dupClientKeys' = dupClientKeys + 1 /\ dupClientConns' = dupClientConns + 2
     \/ /\ dup[k] # {}
        /\ dup' = [dup EXCEPT ![k] = @ \cup {c}]
        /\ last' = [last EXCEPT ![k] = c]
        /\ history' = [history EXCEPT ![k] = Append(@, c)]
        /\ dupClientConns' = dupClientConns + 1 /\ UNCHANGED dupClientKeys
  /\ active' = [active EXCEPT ![k] = c]
  /\ meshKeys' = meshKeys \cup {k}
  /\ curClients' = curClients + 1
  /\ Broadcast({k}, {})
  /\ UNCHANGED <<policy, isDisabled, frame, fwds, preferred, watchers, sent, sawSrc,
                 goneVars>>

\* Mutant of StopWriter: the watches stay.
StopWriterKeepsWatches(c) ==
  /\ st[c] = "up" /\ frame[c] = "none"
  /\ st' = [st EXCEPT ![c] = "stopped"]
  /\ sent' = {p \in sent : p[2] # c}
  /\ UNCHANGED <<policy, setVars, gauges, frame, meshVars, watchers, view, sawSrc, goneVars>>

\* stopWriter: the watches of c are removed and its queues closed.
StopWriter(c) ==
  /\ st[c] = "up" /\ frame[c] = "none"
  /\ st' = [st EXCEPT ![c] = "stopped"]
  /\ goneWatch' = [k \in Keys |-> goneWatch[k] \ {c}]
  /\ sent' = {p \in sent : p[2] # c}
  /\ UNCHANGED <<policy, setVars, gauges, frame, meshVars, watchers, view, sawSrc, told>>

\* The last connection of its key.  If no forwarder has the key, it is gone from the
\* region.
UnregisterSingle(c) ==
  LET k == KeyOf[c] IN
  /\ dup[k] = {} /\ active[k] = c
  /\ active' = [active EXCEPT ![k] = None]
  /\ clients' = clients \ {k} /\ numLocalClientKeys' = numLocalClientKeys - 1
  /\ IF k \in meshKeys /\ fwds[k] = NoForwarders
       THEN meshKeys' = meshKeys \ {k} /\ NotePeerGone(k)
       ELSE UNCHANGED <<meshKeys, goneVars>>
  /\ Broadcast({}, {k})
  /\ UNCHANGED <<dup, last, history, isDup, isDisabled, dupClientKeys, dupClientConns>>

\* dupClientSet.removeClient; history names c at most once.
Removed(c, k) == RemoveFirst(history[k], c)
LastOf(q) == IF q = <<>> THEN None ELSE q[Len(q)]
LastAfter(c, k) == IF last[k] = c THEN LastOf(Removed(c, k)) ELSE last[k]

\* Two connections: the other one becomes an ordinary single client.
UnregisterToOne(c, other) ==
  LET k == KeyOf[c] IN
  /\ c # other /\ dup[k] = {c, other}
  /\ dup' = [dup EXCEPT ![k] = {}] /\ last' = [last EXCEPT ![k] = None]
  /\ history' = [history EXCEPT ![k] = <<>>]
  /\ isDup' = [isDup EXCEPT ![other] = FALSE]
  /\ isDisabled' = [isDisabled EXCEPT ![other] = FALSE]
  /\ active' = [active EXCEPT ![k] = other]
  /\ dupClientConns' = dupClientConns - 2 /\ dupClientKeys' = dupClientKeys - 1
  /\ UNCHANGED <<clients, numLocalClientKeys, meshKeys, goneVars, view>>

\* Mutant of UnregisterDup: no winner is picked.
UnregisterDupNoPick(c) ==
  LET k == KeyOf[c]  d == LastAfter(c, k) IN
  /\ c \in dup[k] /\ Cardinality(dup[k]) > 2
  /\ dup' = [dup EXCEPT ![k] = @ \ {c}]
  /\ history' = [history EXCEPT ![k] = Removed(c, k)]
  /\ last' = [last EXCEPT ![k] = d]
  /\ dupClientConns' = dupClientConns - 1
  /\ UNCHANGED <<clients, numLocalClientKeys, isDup, isDisabled, dupClientKeys, meshKeys,
                 goneVars, view, active>>

\* More than two: pickActiveClient.
UnregisterDup(c) ==
  LET k == KeyOf[c]  d == LastAfter(c, k) IN
  /\ c \in dup[k] /\ Cardinality(dup[k]) > 2
  /\ dup' = [dup EXCEPT ![k] = @ \ {c}]
  /\ history' = [history EXCEPT ![k] = Removed(c, k)]
  /\ last' = [last EXCEPT ![k] = d]
  /\ active' = [active EXCEPT ![k] = IF d = None THEN None ELSE IF isDisabled[d] THEN None ELSE d]
  /\ dupClientConns' = dupClientConns - 1
  /\ UNCHANGED <<clients, numLocalClientKeys, isDup, isDisabled, dupClientKeys, meshKeys,
                 goneVars, view>>

UnregisterClient(c) ==
  /\ st[c] = "stopped" /\ st' = [st EXCEPT ![c] = "gone"]
  /\ \/ UnregisterSingle(c)
     \/ \E other \in Conns : UnregisterToOne(c, other)
     \/ UnregisterDup(c)
  /\ watchers' = watchers \ {c}
  /\ curClients' = curClients - 1
  /\ UNCHANGED <<policy, frame, fwds, preferred, sent, sawSrc>>

-----------------------------------------------------------------------------
(* noteClientActivity. *)

\* run reads a frame and calls noteClientActivity, which looks at a connection that
\* is a duplicate and not disabled.
Noted(c) == isDup[c] /\ ~isDisabled[c]

ReadFrame(c) ==
  /\ st[c] = "up" /\ frame[c] = "none" /\ Noted(c)
  /\ frame' = [frame EXCEPT ![c] = "note"]
  /\ UNCHANGED <<policy, st, setVars, gauges, meshVars, watchers, view, sent, sawSrc, goneVars>>

\* c has sent before and another one has since.
Fighting(c, k) ==
  /\ policy = "disableFighters" /\ LastOf(history[k]) # c
  /\ \E i \in DOMAIN history[k] : history[k][i] = c

NoteClientActivity(c) ==
  LET k == KeyOf[c]
      promote == policy = "lastWriterIsActive" \/ last[k] = None
      fight == Fighting(c, k) IN
  /\ frame[c] = "note" /\ frame' = [frame EXCEPT ![c] = "handle"]
  /\ IF dup[k] = {}
       THEN UNCHANGED <<last, active, isDisabled, history>>
       ELSE /\ last' = [last EXCEPT ![k] = IF promote THEN c ELSE @]
            /\ active' = [active EXCEPT ![k] = IF fight THEN None
                                               ELSE IF promote THEN c ELSE @]
            /\ isDisabled' = [d \in Conns |-> isDisabled[d] \/ (fight /\ d \in dup[k])]
            /\ history' = [history EXCEPT ![k] = Append(Removed(c, k), c)]
  /\ UNCHANGED <<policy, st, clients, dup, isDup, gauges, meshVars, watchers, view, sent,
                 sawSrc, goneVars>>

-----------------------------------------------------------------------------
(* The handlers of frames. *)

\* The handler runs after noteClientActivity, or at once if that has nothing to do.
Handled(c) ==
  /\ frame[c] = "handle" \/ (frame[c] = "none" /\ st[c] = "up" /\ ~Noted(c))
  /\ frame' = [frame EXCEPT ![c] = "none"]

\* handleFrameWatchConns: addWatcher.
AddWatcher(c) ==
  /\ c \in MeshConns /\ Handled(c)
  /\ watchers' = watchers \cup {c}
  /\ view' = [view EXCEPT ![c] = @ \cup {k \in clients : active[k] # None}]
  /\ UNCHANGED <<policy, st, setVars, gauges, meshVars, sent, sawSrc, goneVars>>

\* A packet from src is queued for the active connection of its destination, unless
\* the queue has been closed; without one it is forwarded or dropped.
SendPkt(src, dst) ==
  IF \E c \in Conns : c = active[dst] /\ st[c] = "up"
    THEN sent' = sent \cup {<<src, active[dst]>>}
    ELSE UNCHANGED sent

\* handleFrameSendPacket and handleFrameForwardPacket of connection c.
HandlePacket(c, dst) ==
  /\ Handled(c)
  /\ \/ SendPkt(KeyOf[c], dst)
     \/ c \in MeshConns /\ \E src \in Remote : SendPkt(src, dst)
  /\ UNCHANGED <<policy, st, setVars, gauges, meshVars, watchers, view, sawSrc, goneVars>>

\* The writer of c writes the packet: noteSendFromSrc.
WritePacket(c, src) ==
  /\ st[c] = "up" /\ <<src, c>> \in sent
  /\ sent' = sent \ {<<src, c>>}
  /\ sawSrc' = [sawSrc EXCEPT ![c] = @ \cup {src}]
  /\ goneWatch' = IF src \in sawSrc[c] THEN goneWatch
                                       ELSE [goneWatch EXCEPT ![src] = @ \cup {c}]
  /\ UNCHANGED <<policy, st, setVars, gauges, frame, meshVars, watchers, view, told>>

-----------------------------------------------------------------------------
(* Packet forwarders.  A multiForwarder has two or more forwarders; its numbers *)
(* are bytes, so that the next one may wrap around.                            *)

NextIdx(k) ==
  LET S == {fwds[k][f] : f \in DOMAIN fwds[k]}
  IN ((CHOOSE n \in S : \A m \in S : m <= n) + 1) % IdxMod

WithForwarder(k, f, n) ==
  [g \in DOMAIN fwds[k] \cup {f} |-> IF g = f THEN n ELSE fwds[k][g]]

AddPacketForwarder(k, f) ==
  /\ f \notin DOMAIN fwds[k]
  /\ meshKeys' = meshKeys \cup {k}
  /\ IF fwds[k] = NoForwarders
       THEN /\ fwds' = [fwds EXCEPT ![k] = WithForwarder(k, f, 0)]
            /\ preferred' = [preferred EXCEPT ![k] = f]
       ELSE /\ fwds' = [fwds EXCEPT ![k] = WithForwarder(k, f, NextIdx(k))]
            /\ UNCHANGED preferred
  /\ UNCHANGED <<policy, st, setVars, gauges, frame, watchers, view, sent, sawSrc, goneVars>>

\* The forwarders without f, of which a single one has no number.
WithoutForwarder(k, f) ==
  LET D == DOMAIN fwds[k] \ {f}
  IN [g \in D |-> IF Cardinality(D) = 1 THEN 0 ELSE fwds[k][g]]

RemoveFromMulti(k, f) ==
  /\ Cardinality(DOMAIN fwds[k]) >= 2
  /\ fwds' = [fwds EXCEPT ![k] = WithoutForwarder(k, f)]
  /\ \E g \in DOMAIN fwds[k] \ {f} :
       /\ preferred' = [preferred EXCEPT ![k] = g]
       /\ IF preferred[k] = f THEN \A h \in DOMAIN fwds[k] \ {f} : fwds[k][g] <= fwds[k][h]
                              ELSE g = preferred[k]
  /\ UNCHANGED <<meshKeys, goneVars>>

RemoveSingle(k, f) ==
  /\ Cardinality(DOMAIN fwds[k]) = 1
  /\ fwds' = [fwds EXCEPT ![k] = NoForwarders]
  /\ preferred' = [preferred EXCEPT ![k] = None]
  /\ IF k \in clients THEN UNCHANGED <<meshKeys, goneVars>>
                      ELSE meshKeys' = meshKeys \ {k} /\ NotePeerGone(k)

RemovePacketForwarder(k, f) ==
  /\ f \in DOMAIN fwds[k]
  /\ RemoveFromMulti(k, f) \/ RemoveSingle(k, f)
  /\ UNCHANGED <<policy, st, setVars, gauges, frame, watchers, view, sent, sawSrc>>

-----------------------------------------------------------------------------

Conn(c) ==
  \/ RegisterClient(c) \/ StopWriter(c) \/ UnregisterClient(c)
  \/ ReadFrame(c) \/ NoteClientActivity(c) \/ AddWatcher(c)
  \/ \E k \in Dests : HandlePacket(c, k)
  \/ \E k \in Keys : WritePacket(c, k)

Forwarding ==
  \E k \in Remote, f \in Forwarders : AddPacketForwarder(k, f) \/ RemovePacketForwarder(k, f)

Ended == (\A c \in Conns : st[c] = "gone") /\ UNCHANGED vars

Next == (\E c \in Conns : Conn(c)) \/ Forwarding \/ Ended

Spec == Init /\ [][Next]_vars

-----------------------------------------------------------------------------
(* Properties. *)

Connected(k) == {c \in Conns : KeyOf[c] = k /\ st[c] \in {"up", "stopped"}}

\* The type of every variable.
TypeOK ==
  /\ policy \in Policies
  /\ st \in [Conns -> {"new", "up", "stopped", "gone"}]
  /\ clients \subseteq Keys /\ active \in [Keys -> Conns \cup {None}]
  /\ dup \in [Keys -> SUBSET Conns] /\ last \in [Keys -> Conns \cup {None}]
  /\ history \in [Keys -> Seq(Conns)]
  /\ isDup \in [Conns -> BOOLEAN] /\ isDisabled \in [Conns -> BOOLEAN]
  /\ frame \in [Conns -> {"none", "note", "handle"}]
  /\ meshKeys \subseteq Keys /\ preferred \in [Keys -> Forwarders \cup {None}]
  /\ \A k \in Keys : /\ DOMAIN fwds[k] \subseteq Forwarders
                    /\ \A f \in DOMAIN fwds[k] : fwds[k][f] \in 0..(IdxMod - 1)
  /\ watchers \subseteq MeshConns /\ view \in [MeshConns -> SUBSET Keys]
  /\ sent \subseteq Keys \X Conns /\ sawSrc \in [Conns -> SUBSET Keys]
  /\ goneWatch \in [Keys -> SUBSET Conns] /\ told \in [Conns -> SUBSET Keys]
  /\ {curClients, numLocalClientKeys, dupClientKeys, dupClientConns} \subseteq Nat

\* The client sets hold the connections that are registered, however they came and
\* went, and the key of a single connection is always served; under
\* lastWriterIsActive every key is.
SetsExact ==
  \A k \in Keys :
    /\ k \in clients <=> Connected(k) # {}
    /\ dup[k] = IF Cardinality(Connected(k)) > 1 THEN Connected(k) ELSE {}
    /\ active[k] \in Connected(k) \cup {None}
    /\ active[k] = None /\ k \in clients => policy = "disableFighters" /\ dup[k] # {}

\* sendHistory names members of the set, each once, and last is never nil in a set
\* of duplicates, so that there is always somebody to take over.
HistorySound ==
  \A k \in Keys :
    /\ \A i \in DOMAIN history[k] : history[k][i] \in dup[k]
    /\ \A i, j \in DOMAIN history[k] : history[k][i] = history[k][j] => i = j
    /\ dup[k] # {} => last[k] \in dup[k]

\* Fighting connections stay without traffic until one of them is left, and what
\* is left gets it back, even if noteClientActivity ran on a stale check.
DisabledSilent ==
  /\ \A k \in Keys : \A c \in Connected(k) : isDisabled[c] => active[k] # c /\ dup[k] # {}
  /\ policy = "lastWriterIsActive" => \A c \in Conns : ~isDisabled[c]

\* What ConsistencyCheck compares, forwarders that come and go included: a key is in
\* clientsMesh exactly if it is connected here or some forwarder has it, and the
\* forwarder that is used is one that is registered.
MeshConsistent ==
  \A k \in Keys :
    /\ k \in meshKeys <=> k \in clients \/ fwds[k] # NoForwarders
    /\ IF fwds[k] = NoForwarders THEN preferred[k] = None ELSE preferred[k] \in DOMAIN fwds[k]

\* The client sets and the mesh table are sound.
RegistrySound == TypeOK /\ SetsExact /\ HistorySound /\ DisabledSilent /\ MeshConsistent

\* The gauges count connections, keys and duplicates over every mixture of
\* registrations and promotions.
GaugesExact ==
  /\ curClients = Cardinality({c \in Conns : st[c] \in {"up", "stopped"}})
  /\ numLocalClientKeys = Cardinality(clients)
  /\ dupClientKeys = Cardinality({k \in Keys : dup[k] # {}})
  /\ dupClientConns = Cardinality({c \in Conns : c \in dup[KeyOf[c]]})

\* A watcher is not left with a key that has gone, and knows every connected key
\* unless its connections may have been disabled when the watcher was added.
WatchersAware ==
  \A w \in watchers : /\ view[w] \subseteq clients
                      /\ policy = "lastWriterIsActive" => view[w] = clients

\* Who was written a packet of a key is told when it goes, or has been told before;
\* and no watch outlives its connection.
DepartureWatched ==
  /\ \A c \in Conns : st[c] = "up" => \A k \in sawSrc[c] : c \in goneWatch[k] \/ k \in told[c]
  /\ \A k \in Keys : \A c \in goneWatch[k] : st[c] = "up"

\* Mesh peers and the peers of a client learn who is gone.
PeersAware == WatchersAware /\ DepartureWatched

\* isDup: "whether more than 1 sclient for key is connected".
IsDupExact == \A k \in Keys : \A c \in Connected(k) : isDup[c] <=> Cardinality(Connected(k)) > 1
=============================================================================
