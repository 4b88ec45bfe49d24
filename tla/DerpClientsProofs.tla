------------------------- MODULE DerpClientsProofs -------------------------
(***************************************************************************)
(* Proofs about the connections of a DERP server, for any finite sets of   *)
(* keys and connections, any forwarders, and any size of the numbers of a  *)
(* multiForwarder.                                                         *)
(*                                                                         *)
(* RegistrySound does not follow from itself.  That the connection which   *)
(* takes over is one of the set rests on a fact about sendHistory that the *)
(* code does not state: at most one connection of a set is missing from it *)
(* (HistoryInv).  That a stale check of noteClientActivity does no harm    *)
(* rests on which connections can be in it (Life).  That the gauges do not *)
(* become negative rests on what they count (GaugesExact).                 *)
(***************************************************************************)
EXTENDS DerpClients, QueueLemmas, FiniteSetTheorems

ForwarderMaps == UNION {[D -> 0..(IdxMod - 1)] : D \in SUBSET Forwarders}

\* The types of the variables without the gauges.
CoreType ==
  /\ policy \in Policies
  /\ st \in [Conns -> {"new", "up", "stopped", "gone"}]
  /\ clients \subseteq Keys /\ active \in [Keys -> Conns \cup {None}]
  /\ dup \in [Keys -> SUBSET Conns] /\ last \in [Keys -> Conns \cup {None}]
  /\ history \in [Keys -> Seq(Conns)]
  /\ isDup \in [Conns -> BOOLEAN] /\ isDisabled \in [Conns -> BOOLEAN]
  /\ frame \in [Conns -> {"none", "note", "handle"}]
  /\ meshKeys \subseteq Keys /\ preferred \in [Keys -> Forwarders \cup {None}]
  /\ fwds \in [Keys -> ForwarderMaps]
  /\ watchers \subseteq MeshConns /\ view \in [MeshConns -> SUBSET Keys]
  /\ sent \subseteq Keys \X Conns /\ sawSrc \in [Conns -> SUBSET Keys]
  /\ goneWatch \in [Keys -> SUBSET Conns] /\ told \in [Conns -> SUBSET Keys]

\* SetsExact, for one key and without cardinalities.
Members(k) ==
  /\ k \in clients <=> Connected(k) # {}
  /\ dup[k] = {} => \A a, b \in Connected(k) : a = b
  /\ dup[k] # {} => dup[k] = Connected(k) /\ \E a, b \in dup[k] : a # b
  /\ active[k] \in Connected(k) \cup {None}
  /\ active[k] = None /\ k \in clients => policy = "disableFighters" /\ dup[k] # {}

\* HistorySound, and who may be missing from sendHistory.
HistoryInv(k) ==
  /\ Distinct(history[k])
  /\ \A c \in Conns : Holds(history[k], c) => c \in dup[k]
  /\ dup[k] # {} => last[k] \in dup[k]
  /\ \A a, b \in dup[k] : ~Holds(history[k], a) /\ ~Holds(history[k], b) => a = b

\* A connection handles frames while it is up, and is new until it is registered.
Life ==
  \A c \in Conns : /\ frame[c] # "none" => st[c] = "up"
                   /\ st[c] = "new" => ~isDisabled[c] /\ sawSrc[c] = {}

\* A mesh peer that does not watch yet has been told nothing.
Unaware == \A w \in MeshConns : w \notin watchers /\ st[w] # "gone" => view[w] = {}

Sets == \A k \in Keys : Members(k) /\ HistoryInv(k)

IInv ==
  /\ CoreType /\ Life /\ Sets /\ DisabledSilent /\ MeshConsistent
  /\ GaugesExact /\ Unaware /\ WatchersAware /\ DepartureWatched

-----------------------------------------------------------------------------
(* Sets and steps. *)

\* Cardinality tells one from two.
LEMMA CardTwo ==
  ASSUME NEW S, IsFiniteSet(S)
  PROVE  Cardinality(S) > 1 <=> \E a, b \in S : a # b
<1>1. Cardinality(S) \in Nat /\ (Cardinality(S) = 0 <=> S = {})
  BY FS_CardinalityType, FS_EmptySet
<1>2. ASSUME NEW a \in S
      PROVE  /\ Cardinality(S \ {a}) = Cardinality(S) - 1
             /\ Cardinality(S \ {a}) \in Nat
             /\ Cardinality(S \ {a}) = 0 <=> S \ {a} = {}
  BY FS_RemoveElement, FS_CardinalityType, FS_EmptySet
<1>3. ASSUME Cardinality(S) > 1 PROVE \E a, b \in S : a # b
  <2>1. PICK a \in S : TRUE
    BY <1>1, <1>3
  <2>2. S \ {a} # {}
    <3>1. Cardinality(S \ {a}) = Cardinality(S) - 1 /\ (Cardinality(S \ {a}) = 0 <=> S \ {a} = {})
      BY <1>2, Zenon
    <3>2. Cardinality(S) - 1 # 0
      BY <1>1, <1>3
    <3> QED BY ONLY <3>1, <3>2, Zenon
  <2> QED BY <2>2
<1>4. ASSUME NEW a \in S, NEW b \in S, a # b PROVE Cardinality(S) > 1
  <2>1. S \ {a} # {}
    BY <1>4
  <2>2. /\ Cardinality(S \ {a}) = Cardinality(S) - 1 /\ Cardinality(S \ {a}) \in Nat
        /\ Cardinality(S \ {a}) # 0
    BY <1>2, <2>1, Zenon
  <2> QED BY ONLY <1>1, <2>2
<1> QED BY <1>3, <1>4

\* Of more than two, two are left without one.
LEMMA CardThree ==
  ASSUME NEW S, IsFiniteSet(S), Cardinality(S) > 2, NEW c \in S
  PROVE  \E a, b \in S \ {c} : a # b
<1>1. IsFiniteSet(S \ {c}) /\ Cardinality(S \ {c}) = Cardinality(S) - 1
  BY FS_RemoveElement
<1>2. Cardinality(S) \in Nat
  BY FS_CardinalityType
<1>3. Cardinality(S \ {c}) > 1
  BY <1>1, <1>2
<1> QED BY <1>1, <1>3, CardTwo

\* A set of numbers below a bound has a greatest element.
LEMMA MaxOf ==
  ASSUME NEW N \in Nat, NEW S \in SUBSET (0..N), S # {}
  PROVE  \E n \in S : \A m \in S : m <= n
<1> DEFINE T == {j \in Nat : \E n \in S : j = N - n}
<1>1. T # {} /\ T \in SUBSET Nat
  <2>1. PICK n \in S : TRUE
    OBVIOUS
  <2>2. N - n \in Nat
    OBVIOUS
  <2>3. N - n \in T
    BY <2>2
  <2> QED BY <2>3
<1> HIDE DEF T
<1>2. PICK j \in T : \A i \in T : ~(<<i, j>> \in OpToRel(<, Nat))
  BY <1>1, NatLessThanWellFounded, WFMin
<1>3. ASSUME NEW i \in T, i < j PROVE FALSE
  <2>1. <<i, j>> \in OpToRel(<, Nat)
    BY <1>1, <1>3 DEF OpToRel
  <2> QED BY <1>2, <2>1
<1>4. PICK n \in S : j = N - n
  BY <1>2 DEF T
<1>5. ASSUME NEW m \in S PROVE m <= n
  <2>1. N - m \in T
    BY DEF T
  <2>2. ~(N - m < j)
    BY <1>3, <2>1
  <2> QED BY <1>4, <2>2
<1> QED BY <1>5

\* The key of a connection.
LEMMA KeyType ==
  ASSUME NEW c \in Conns
  PROVE  KeyOf[c] \in Keys
BY ConnsAssumption

ConnSteps(c) ==
  \/ RegisterClient(c) \/ StopWriter(c) \/ UnregisterClient(c)
  \/ ReadFrame(c) \/ NoteClientActivity(c) \/ AddWatcher(c)
  \/ \E k \in Keys : HandlePacket(c, k) \/ WritePacket(c, k)

\* The actions, over the keys of the server.
LEMMA Steps ==
  ASSUME [Next]_vars
  PROVE  \/ UNCHANGED vars
         \/ \E c \in Conns : ConnSteps(c)
         \/ \E k \in Keys, f \in Forwarders : AddPacketForwarder(k, f) \/ RemovePacketForwarder(k, f)
BY RemoteAssumption DEF Next, Conn, ConnSteps, Forwarding, Ended

\* The connections of a key change when one is registered or unregistered.
LEMMA ConnectedStep ==
  ASSUME CoreType, NEW c \in Conns, NEW k \in Keys
  PROVE  /\ RegisterClient(c) =>
              /\ c \notin Connected(k)
              /\ Connected(k)' = IF k = KeyOf[c] THEN Connected(k) \cup {c} ELSE Connected(k)
         /\ StopWriter(c) => Connected(k)' = Connected(k)
         /\ UnregisterClient(c) =>
              /\ c \in Connected(KeyOf[c])
              /\ Connected(k)' = IF k = KeyOf[c] THEN Connected(k) \ {c} ELSE Connected(k)
         /\ UNCHANGED st => Connected(k)' = Connected(k)
<1>1. ASSUME RegisterClient(c)
      PROVE  /\ c \notin Connected(k)
             /\ Connected(k)' = IF k = KeyOf[c] THEN Connected(k) \cup {c} ELSE Connected(k)
  BY <1>1 DEF RegisterClient, Connected, CoreType
<1>2. ASSUME StopWriter(c) PROVE Connected(k)' = Connected(k)
  BY <1>2 DEF StopWriter, Connected, CoreType
<1>3. ASSUME UnregisterClient(c)
      PROVE  /\ c \in Connected(KeyOf[c])
             /\ Connected(k)' = IF k = KeyOf[c] THEN Connected(k) \ {c} ELSE Connected(k)
  <2>1. st[c] = "stopped" /\ st' = [st EXCEPT ![c] = "gone"]
    BY <1>3 DEF UnregisterClient
  <2> QED BY <2>1 DEF Connected, CoreType
<1>4. ASSUME UNCHANGED st PROVE Connected(k)' = Connected(k)
  BY <1>4 DEF Connected
<1> QED BY <1>1, <1>2, <1>3, <1>4

\* What removeClient and slices.Delete leave of sendHistory.
LEMMA RemovedProperties ==
  ASSUME CoreType, NEW c \in Conns, NEW k \in Keys
  PROVE  /\ Removed(c, k) \in Seq(Conns)
         /\ \A d : Holds(Removed(c, k), d) => Holds(history[k], d)
         /\ \A d : d # c /\ Holds(history[k], d) => Holds(Removed(c, k), d)
         /\ Distinct(history[k]) => Distinct(Removed(c, k)) /\ ~Holds(Removed(c, k), c)
<1>1. history[k] \in Seq(Conns)
  BY DEF CoreType
<1> QED BY <1>1, RemoveFirstProperties DEF Removed

\* The last of a sequence is one of its elements.
LEMMA LastOfProperties ==
  ASSUME NEW q \in Seq(Conns)
  PROVE  /\ LastOf(q) \in Conns \cup {None}
         /\ \A d : Holds(q, d) => Holds(q, LastOf(q))
<1>1. CASE q = <<>>
  BY <1>1 DEF LastOf, Holds
<1>2. CASE q # <<>>
  <2>1. Len(q) \in 1..Len(q) /\ q[Len(q)] \in Conns
    BY <1>2
  <2> QED BY <1>2, <2>1 DEF LastOf, Holds
<1> QED BY <1>1, <1>2

\* The connection that takes over is a connection or nil.
LEMMA LastAfterType ==
  ASSUME CoreType, NEW c \in Conns, NEW k \in Keys
  PROVE  LastAfter(c, k) \in Conns \cup {None}
BY RemovedProperties, LastOfProperties DEF LastAfter, CoreType


Promotes(k) == policy = "lastWriterIsActive" \/ last[k] = None

\* What noteClientActivity does with the lock.
LEMMA NoteStep ==
  ASSUME NEW c \in Conns, NoteClientActivity(c)
  PROVE  LET k == KeyOf[c] IN
         /\ frame[c] = "note" /\ frame' = [frame EXCEPT ![c] = "handle"]
         /\ UNCHANGED <<policy, st, clients, dup, isDup, gauges, meshVars, watchers, view, sent,
                        sawSrc, goneVars>>
         /\ dup[k] = {} => UNCHANGED <<last, active, isDisabled, history>>
         /\ dup[k] # {} =>
              /\ last' = [last EXCEPT ![k] = IF Promotes(k) THEN c ELSE last[k]]
              /\ active' = [active EXCEPT ![k] = IF Fighting(c, k) THEN None
                                                 ELSE IF Promotes(k) THEN c ELSE active[k]]
              /\ isDisabled' = [d \in Conns |-> isDisabled[d] \/ (Fighting(c, k) /\ d \in dup[k])]
              /\ history' = [history EXCEPT ![k] = Append(Removed(c, k), c)]
BY DEF NoteClientActivity, Promotes
-----------------------------------------------------------------------------
(* Types. *)

\* A table of forwarders, which is nil if it has none.
LEMMA MapProperties ==
  ASSUME NEW m \in ForwarderMaps
  PROVE  /\ DOMAIN m \subseteq Forwarders
         /\ \A f \in DOMAIN m : m[f] \in 0..(IdxMod - 1)
         /\ m = NoForwarders <=> DOMAIN m = {}
<1>1. PICK D \in SUBSET Forwarders : m \in [D -> 0..(IdxMod - 1)]
  BY DEF ForwarderMaps
<1>2. DOMAIN m = D /\ \A f \in D : m[f] \in 0..(IdxMod - 1)
  BY <1>1
<1>3. ASSUME D = {} PROVE m = NoForwarders
  BY <1>1, <1>3 DEF NoForwarders
<1>4. DOMAIN NoForwarders = {}
  BY DEF NoForwarders
<1> QED BY <1>2, <1>3, <1>4

\* A function from forwarders to bytes is such a table.
LEMMA MapType ==
  ASSUME NEW D \in SUBSET Forwarders, NEW m \in [D -> 0..(IdxMod - 1)]
  PROVE  m \in ForwarderMaps
BY DEF ForwarderMaps

\* The next number of a multiForwarder is a byte.
LEMMA NextIdxType ==
  ASSUME CoreType, NEW k \in Keys, fwds[k] # NoForwarders
  PROVE  NextIdx(k) \in 0..(IdxMod - 1)
<1> DEFINE S == {fwds[k][f] : f \in DOMAIN fwds[k]}
           n == CHOOSE n \in S : \A m \in S : m <= n
<1>1. fwds[k] \in ForwarderMaps
  BY DEF CoreType
<1>2. IdxMod \in Nat /\ IdxMod > 0 /\ IdxMod - 1 \in Nat
  BY IdxModAssumption
<1>3. S # {} /\ S \in SUBSET (0..(IdxMod - 1))
  BY <1>1, MapProperties
<1>4. \E i \in S : \A m \in S : m <= i
  BY <1>2, <1>3, MaxOf
<1>5. n \in S
  BY <1>4
<1>7. NextIdx(k) = (n + 1) % IdxMod
  BY DEF NextIdx
<1> HIDE DEF S, n
<1>6. n \in Nat
  BY <1>2, <1>3, <1>5
<1> QED BY <1>2, <1>6, <1>7

\* A table with a forwarder more, and with one less.
LEMMA ForwarderProperties ==
  ASSUME CoreType, NEW k \in Keys, NEW f \in Forwarders
  PROVE  /\ \A n \in 0..(IdxMod - 1) :
              /\ WithForwarder(k, f, n) \in ForwarderMaps
              /\ DOMAIN WithForwarder(k, f, n) = DOMAIN fwds[k] \cup {f}
         /\ WithoutForwarder(k, f) \in ForwarderMaps
         /\ DOMAIN WithoutForwarder(k, f) = DOMAIN fwds[k] \ {f}
<1>1. /\ DOMAIN fwds[k] \subseteq Forwarders
      /\ \A g \in DOMAIN fwds[k] : fwds[k][g] \in 0..(IdxMod - 1)
  BY MapProperties DEF CoreType
<1>2. ASSUME NEW n \in 0..(IdxMod - 1)
      PROVE  /\ WithForwarder(k, f, n) \in ForwarderMaps
             /\ DOMAIN WithForwarder(k, f, n) = DOMAIN fwds[k] \cup {f}
  <2>1. WithForwarder(k, f, n) \in [DOMAIN fwds[k] \cup {f} -> 0..(IdxMod - 1)]
    BY <1>1 DEF WithForwarder
  <2> QED BY <1>1, <2>1, MapType
<1>3. /\ WithoutForwarder(k, f) \in ForwarderMaps
      /\ DOMAIN WithoutForwarder(k, f) = DOMAIN fwds[k] \ {f}
  <2>1. 0 \in 0..(IdxMod - 1)
    BY IdxModAssumption
  <2>2. WithoutForwarder(k, f) \in [DOMAIN fwds[k] \ {f} -> 0..(IdxMod - 1)]
    BY <1>1, <2>1 DEF WithoutForwarder
  <2> QED BY <1>1, <2>2, MapType
<1> QED BY <1>2, <1>3

\* What is told to the mesh keeps its type.
LEMMA BroadcastType ==
  ASSUME CoreType, NEW P \in SUBSET Keys, NEW G \in SUBSET Keys, Broadcast(P, G)
  PROVE  view' \in [MeshConns -> SUBSET Keys]
BY DEF Broadcast, CoreType

\* So does what is told to the connections that watch a key.
LEMMA PeerGoneType ==
  ASSUME CoreType, NEW k \in Keys, NotePeerGone(k)
  PROVE  goneWatch' \in [Keys -> SUBSET Conns] /\ told' \in [Conns -> SUBSET Keys]
BY DEF NotePeerGone, CoreType

\* Every step of a connection keeps the types.
LEMMA ConnType ==
  ASSUME CoreType, NEW c \in Conns, ConnSteps(c)
  PROVE  CoreType'
<1> USE DEF setVars, gauges, meshVars, goneVars
<1>0. KeyOf[c] \in Keys
  BY KeyType
<1>1. CASE RegisterClient(c)
  <2>1. active[KeyOf[c]] \in Conns \cup {None}
    BY <1>0 DEF CoreType
  <2>2. view' \in [MeshConns -> SUBSET Keys]
    <3>1. Broadcast({KeyOf[c]}, {}) /\ {KeyOf[c]} \in SUBSET Keys /\ {} \in SUBSET Keys
      BY <1>0, <1>1 DEF RegisterClient
    <3> QED BY <3>1, BroadcastType
  <2>3. isDup' \in [Conns -> BOOLEAN]
    <3>1. CASE active[KeyOf[c]] = None
      BY <1>1, <3>1 DEF RegisterClient, CoreType
    <3>2. CASE active[KeyOf[c]] # None
      <4>1. isDup' = [isDup EXCEPT ![active[KeyOf[c]]] = TRUE, ![c] = TRUE]
        BY <1>1, <3>2 DEF RegisterClient
      <4> QED BY <4>1, Zenon DEF CoreType
    <3> QED BY <3>1, <3>2
  <2>4. dup' \in [Keys -> SUBSET Conns] /\ last' \in [Keys -> Conns \cup {None}]
    <3>1. CASE UNCHANGED <<dup, last>>
      BY <3>1 DEF CoreType
    <3>2. CASE /\ dup' = [dup EXCEPT ![KeyOf[c]] = @ \cup {c}]
               /\ last' = [last EXCEPT ![KeyOf[c]] = c]
      BY <1>0, <3>2 DEF CoreType
    <3>3. CASE /\ active[KeyOf[c]] # None
               /\ dup' = [dup EXCEPT ![KeyOf[c]] = {c, active[KeyOf[c]]}]
               /\ last' = [last EXCEPT ![KeyOf[c]] = c]
      BY <1>0, <2>1, <3>3 DEF CoreType
    <3> QED BY <1>1, <3>1, <3>2, <3>3 DEF RegisterClient
  <2>5. history' \in [Keys -> Seq(Conns)]
    <3>1. CASE UNCHANGED history
      BY <3>1 DEF CoreType
    <3>2. CASE history' = [history EXCEPT ![KeyOf[c]] = Append(@, c)]
      BY <1>0, <3>2 DEF CoreType
    <3>3. CASE /\ history' = [history EXCEPT ![KeyOf[c]] = <<active[KeyOf[c]]>>]
               /\ active[KeyOf[c]] # None
      <4>1. <<active[KeyOf[c]]>> \in Seq(Conns)
        BY <2>1, <3>3
      <4> QED BY <3>3, <4>1 DEF CoreType
    <3> QED BY <1>1, <3>1, <3>2, <3>3 DEF RegisterClient
  <2>6. st' \in [Conns -> {"new", "up", "stopped", "gone"}]
    BY <1>1 DEF RegisterClient, CoreType
  <2>7. /\ clients' \subseteq Keys /\ meshKeys' \subseteq Keys
        /\ active' \in [Keys -> Conns \cup {None}]
    BY <1>0, <1>1 DEF RegisterClient, CoreType
  <2>8. UNCHANGED <<policy, isDisabled, frame, fwds, preferred, watchers, sent, sawSrc, goneVars>>
    BY <1>1 DEF RegisterClient
  <2> QED BY <2>2, <2>3, <2>4, <2>5, <2>6, <2>7, <2>8 DEF CoreType
<1>2. CASE StopWriter(c)
  BY <1>2 DEF StopWriter, CoreType
<1>3. CASE UnregisterClient(c)
  <2>1. st' \in [Conns -> {"new", "up", "stopped", "gone"}] /\ watchers' \subseteq MeshConns
    BY <1>3 DEF UnregisterClient, CoreType
  <2>2. UNCHANGED <<policy, frame, fwds, preferred, sent, sawSrc>>
    BY <1>3 DEF UnregisterClient
  <2> DEFINE T == /\ clients' \subseteq Keys /\ active' \in [Keys -> Conns \cup {None}]
                  /\ dup' \in [Keys -> SUBSET Conns] /\ last' \in [Keys -> Conns \cup {None}]
                  /\ history' \in [Keys -> Seq(Conns)]
                  /\ isDup' \in [Conns -> BOOLEAN] /\ isDisabled' \in [Conns -> BOOLEAN]
                  /\ meshKeys' \subseteq Keys /\ view' \in [MeshConns -> SUBSET Keys]
                  /\ goneWatch' \in [Keys -> SUBSET Conns]
                  /\ told' \in [Conns -> SUBSET Keys]
  <2>3. CASE UnregisterSingle(c)
    <3>1. view' \in [MeshConns -> SUBSET Keys]
      BY <1>0, <2>3, BroadcastType DEF UnregisterSingle
    <3>2. /\ goneWatch' \in [Keys -> SUBSET Conns] /\ told' \in [Conns -> SUBSET Keys]
          /\ meshKeys' \subseteq Keys
      BY <1>0, <2>3, PeerGoneType DEF UnregisterSingle, CoreType
    <3>3. T
      BY <2>3, <3>1, <3>2 DEF UnregisterSingle, CoreType
    <3> QED BY <2>1, <2>2, <3>3 DEF CoreType
  <2>4. ASSUME NEW other \in Conns, UnregisterToOne(c, other) PROVE CoreType'
    <3>1. isDup' \in [Conns -> BOOLEAN] /\ isDisabled' \in [Conns -> BOOLEAN]
      BY <2>4, Zenon DEF UnregisterToOne, CoreType
    <3>2. T
      BY <1>0, <2>4, <3>1 DEF UnregisterToOne, CoreType
    <3> QED BY <2>1, <2>2, <3>2 DEF CoreType
  <2>5. CASE UnregisterDup(c)
    <3>1. LastAfter(c, KeyOf[c]) \in Conns \cup {None} /\ Removed(c, KeyOf[c]) \in Seq(Conns)
      BY <1>0, LastAfterType, RemovedProperties
    <3>2. T
      BY <1>0, <2>5, <3>1 DEF UnregisterDup, CoreType
    <3> QED BY <2>1, <2>2, <3>2 DEF CoreType
  <2> QED BY <1>3, <2>3, <2>4, <2>5 DEF UnregisterClient
<1>4. CASE ReadFrame(c)
  BY <1>4 DEF ReadFrame, CoreType
<1>5. CASE NoteClientActivity(c)
  <2>1. frame' \in [Conns -> {"none", "note", "handle"}]
    BY <1>5 DEF NoteClientActivity, CoreType
  <2>2. Removed(c, KeyOf[c]) \in Seq(Conns)
    BY <1>0, RemovedProperties
  <2>3. CASE dup[KeyOf[c]] = {}
    <3>1. UNCHANGED <<last, active, isDisabled, history>>
      BY <1>5, <2>3, NoteStep
    <3>2. UNCHANGED <<policy, st, clients, dup, isDup, meshVars, watchers, view, sent, sawSrc,
                      goneVars>>
      BY <1>5, NoteStep
    <3> QED BY <2>1, <3>1, <3>2 DEF CoreType
  <2>4. CASE dup[KeyOf[c]] # {}
    <3>1. history' \in [Keys -> Seq(Conns)]
      <4>1. Append(Removed(c, KeyOf[c]), c) \in Seq(Conns)
        BY <2>2
      <4>2. history' = [history EXCEPT ![KeyOf[c]] = Append(Removed(c, KeyOf[c]), c)]
        BY <1>5, <2>4, NoteStep, Zenon
      <4> QED BY <4>1, <4>2 DEF CoreType
    <3>2. last' \in [Keys -> Conns \cup {None}] /\ active' \in [Keys -> Conns \cup {None}]
      <4> DEFINE d == IF Promotes(KeyOf[c]) THEN c ELSE last[KeyOf[c]]
                 e == IF Fighting(c, KeyOf[c]) THEN None
                      ELSE IF Promotes(KeyOf[c]) THEN c ELSE active[KeyOf[c]]
      <4>1. last' = [last EXCEPT ![KeyOf[c]] = d] /\ active' = [active EXCEPT ![KeyOf[c]] = e]
        BY <1>5, <2>4, NoteStep
      <4>2. d \in Conns \cup {None} /\ e \in Conns \cup {None}
        BY <1>0 DEF CoreType
      <4> HIDE DEF d, e
      <4> QED BY <1>0, <4>1, <4>2 DEF CoreType
    <3>3. isDisabled' \in [Conns -> BOOLEAN]
      <4>1. isDisabled' = [d \in Conns |-> isDisabled[d]
                                           \/ (Fighting(c, KeyOf[c]) /\ d \in dup[KeyOf[c]])]
        BY <1>5, <2>4, NoteStep, Zenon
      <4> QED BY <4>1, Zenon DEF CoreType
    <3>4. UNCHANGED <<policy, st, clients, dup, isDup, meshVars, watchers, view, sent, sawSrc,
                      goneVars>>
      BY <1>5, NoteStep
    <3> QED BY <2>1, <3>1, <3>2, <3>3, <3>4 DEF CoreType
  <2> QED BY <2>3, <2>4
<1>6. CASE AddWatcher(c)
  <2>1. {k \in clients : active[k] # None} \subseteq Keys
    BY DEF CoreType
  <2> QED BY <1>6, <2>1 DEF AddWatcher, Handled, CoreType
<1>7. ASSUME NEW k \in Keys, HandlePacket(c, k) PROVE CoreType'
  <2>1. frame' \in [Conns -> {"none", "note", "handle"}]
    BY <1>7 DEF HandlePacket, Handled, CoreType
  <2>2. sent' \subseteq Keys \X Conns
    BY <1>0, <1>7, RemoteAssumption DEF HandlePacket, SendPkt, CoreType
  <2> QED BY <1>7, <2>1, <2>2 DEF HandlePacket, CoreType
<1>8. ASSUME NEW k \in Keys, WritePacket(c, k) PROVE CoreType'
  BY <1>8 DEF WritePacket, CoreType
<1> QED BY <1>1, <1>2, <1>3, <1>4, <1>5, <1>6, <1>7, <1>8 DEF ConnSteps

\* Every step of a forwarder keeps the types.
LEMMA ForwarderType ==
  ASSUME CoreType, NEW k \in Keys, NEW f \in Forwarders,
         AddPacketForwarder(k, f) \/ RemovePacketForwarder(k, f)
  PROVE  CoreType'
<1> USE DEF setVars, gauges, meshVars, goneVars
<1>1. CASE AddPacketForwarder(k, f)
  <2>1. 0 \in 0..(IdxMod - 1)
    BY IdxModAssumption
  <2>2. fwds' \in [Keys -> ForwarderMaps]
    <3>1. CASE fwds[k] = NoForwarders
      <4>1. fwds' = [fwds EXCEPT ![k] = WithForwarder(k, f, 0)]
        BY <1>1, <3>1 DEF AddPacketForwarder
      <4>2. WithForwarder(k, f, 0) \in ForwarderMaps
        BY <2>1, ForwarderProperties
      <4> QED BY <4>1, <4>2 DEF CoreType
    <3>2. CASE fwds[k] # NoForwarders
      <4>1. fwds' = [fwds EXCEPT ![k] = WithForwarder(k, f, NextIdx(k))]
        BY <1>1, <3>2 DEF AddPacketForwarder
      <4>2. WithForwarder(k, f, NextIdx(k)) \in ForwarderMaps
        BY <3>2, NextIdxType, ForwarderProperties
      <4> QED BY <4>1, <4>2 DEF CoreType
    <3> QED BY <3>1, <3>2
  <2>3. preferred' \in [Keys -> Forwarders \cup {None}] /\ meshKeys' \subseteq Keys
    BY <1>1 DEF AddPacketForwarder, CoreType
  <2>4. UNCHANGED <<policy, st, setVars, gauges, frame, watchers, view, sent, sawSrc, goneVars>>
    BY <1>1 DEF AddPacketForwarder
  <2> QED BY <2>2, <2>3, <2>4 DEF CoreType
<1>2. CASE RemovePacketForwarder(k, f)
  <2>1. CASE RemoveFromMulti(k, f)
    <3>1. fwds' \in [Keys -> ForwarderMaps]
      BY <2>1, ForwarderProperties DEF RemoveFromMulti, CoreType
    <3>2. DOMAIN fwds[k] \subseteq Forwarders
      BY MapProperties DEF CoreType
    <3>3. preferred' \in [Keys -> Forwarders \cup {None}]
      BY <2>1, <3>2 DEF RemoveFromMulti, CoreType
    <3> QED BY <1>2, <2>1, <3>1, <3>3 DEF RemoveFromMulti, RemovePacketForwarder, CoreType
  <2>2. CASE RemoveSingle(k, f)
    <3>1. NoForwarders \in ForwarderMaps
      <4>1. NoForwarders \in [{} -> 0..(IdxMod - 1)]
        BY DEF NoForwarders
      <4> QED BY <4>1, MapType
    <3>2. goneWatch' \in [Keys -> SUBSET Conns] /\ told' \in [Conns -> SUBSET Keys]
      BY <2>2, PeerGoneType DEF RemoveSingle, CoreType
    <3> QED BY <1>2, <2>2, <3>1, <3>2 DEF RemoveSingle, RemovePacketForwarder, CoreType
  <2> QED BY <1>2, <2>1, <2>2 DEF RemovePacketForwarder
<1> QED BY <1>1, <1>2

\* Every step keeps the types.
LEMMA TypeStep == CoreType /\ [Next]_vars => CoreType'
<1> SUFFICES ASSUME CoreType, [Next]_vars PROVE CoreType'
  OBVIOUS
<1>1. CASE UNCHANGED vars
  BY <1>1 DEF vars, setVars, gauges, meshVars, goneVars, CoreType
<1> QED BY <1>1, Steps, ConnType, ForwarderType

-----------------------------------------------------------------------------
(* Who is connected. *)

\* A sequence with one element more, which it did not hold.
LEMMA AppendDistinct ==
  ASSUME NEW q \in Seq(Conns), NEW x \in Conns
  PROVE  /\ \A y : Holds(Append(q, x), y) <=> Holds(q, y) \/ y = x
         /\ Distinct(q) /\ ~Holds(q, x) => Distinct(Append(q, x))
<1> DEFINE r == Append(q, x)
<1>1. /\ Len(r) = Len(q) + 1 /\ Len(q) \in Nat /\ r[Len(q) + 1] = x
      /\ \A i \in 1..Len(q) : r[i] = q[i]
  BY AppendFacts
<1> HIDE DEF r
<1>2. ASSUME NEW y PROVE Holds(r, y) <=> Holds(q, y) \/ y = x
  <2>1. ASSUME Holds(r, y), y # x PROVE Holds(q, y)
    <3>1. PICK i \in 1..Len(r) : r[i] = y
      BY <2>1 DEF Holds
    <3>2. i \in 1..Len(q) /\ q[i] = y
      BY <1>1, <2>1, <3>1
    <3> QED BY <3>2 DEF Holds
  <2>2. ASSUME Holds(q, y) PROVE Holds(r, y)
    BY <1>1, <2>2 DEF Holds
  <2>3. Holds(r, x)
    BY <1>1 DEF Holds
  <2> QED BY <2>1, <2>2, <2>3
<1>3. ASSUME Distinct(q), ~Holds(q, x), NEW i \in 1..Len(r), NEW j \in 1..Len(r), r[i] = r[j]
      PROVE  i = j
  <2>1. CASE i \in 1..Len(q) /\ j \in 1..Len(q)
    BY <1>1, <1>3, <2>1 DEF Distinct
  <2>2. CASE i \notin 1..Len(q) /\ j \in 1..Len(q)
    BY <1>1, <1>3, <2>2 DEF Holds
  <2>3. CASE i \in 1..Len(q) /\ j \notin 1..Len(q)
    BY <1>1, <1>3, <2>3 DEF Holds
  <2>4. CASE i \notin 1..Len(q) /\ j \notin 1..Len(q)
    BY <1>1, <1>3, <2>4
  <2> QED BY <2>1, <2>2, <2>3, <2>4
<1> QED BY <1>2, <1>3 DEF Distinct, r

\* The members of a set of duplicates are connected.
LEMMA DupConnected ==
  ASSUME CoreType, Sets, NEW k \in Keys, NEW c \in dup[k]
  PROVE  c \in Conns /\ KeyOf[c] = k /\ st[c] \in {"up", "stopped"}
<1>1. dup[k] = Connected(k)
  BY DEF Sets, Members
<1> QED BY <1>1 DEF Connected

\* Every step keeps Life.
LEMMA LifeStep ==
  ASSUME CoreType, Life, Sets, [Next]_vars
  PROVE  Life'
<1> USE DEF setVars, gauges, meshVars, goneVars
<1>1. CASE UNCHANGED vars
  BY <1>1 DEF vars, Life
<1>2. ASSUME NEW c \in Conns, ConnSteps(c) PROVE Life'
  <2>0. KeyOf[c] \in Keys
    BY KeyType
  <2>1. CASE RegisterClient(c)
    BY <2>1 DEF RegisterClient, Life, CoreType
  <2>2. CASE StopWriter(c)
    BY <2>2 DEF StopWriter, Life, CoreType
  <2>3. CASE UnregisterClient(c)
    <3>1. /\ st[c] = "stopped" /\ st' = [st EXCEPT ![c] = "gone"]
          /\ UNCHANGED <<frame, sawSrc>>
      BY <2>3 DEF UnregisterClient
    <3>2. ASSUME NEW d \in Conns PROVE isDisabled'[d] => isDisabled[d]
      <4>1. CASE UNCHANGED isDisabled
        BY <4>1
      <4>2. ASSUME NEW o \in Conns, isDisabled' = [isDisabled EXCEPT ![o] = FALSE]
            PROVE  isDisabled'[d] => isDisabled[d]
        BY <4>2, Zenon DEF CoreType
      <4> QED BY <2>3, <4>1, <4>2
              DEF UnregisterClient, UnregisterSingle, UnregisterToOne, UnregisterDup
    <3> QED BY <3>1, <3>2 DEF Life, CoreType
  <2>4. CASE ReadFrame(c)
    BY <2>4 DEF ReadFrame, Life, CoreType
  <2>5. CASE NoteClientActivity(c)
    <3>1. frame[c] = "note" /\ frame' = [frame EXCEPT ![c] = "handle"] /\ UNCHANGED <<st, sawSrc>>
      BY <2>5, NoteStep
    <3>2. ASSUME NEW d \in Conns, st[d] = "new" PROVE ~isDisabled'[d]
      <4>1. d \notin dup[KeyOf[c]]
        BY <2>0, <3>2, DupConnected
      <4>2. CASE dup[KeyOf[c]] = {}
        <5>1. UNCHANGED isDisabled
          BY <2>5, <4>2, NoteStep
        <5> QED BY <3>2, <5>1 DEF Life
      <4>3. CASE dup[KeyOf[c]] # {}
        <5>1. isDisabled' = [x \in Conns |-> isDisabled[x]
                                             \/ (Fighting(c, KeyOf[c]) /\ x \in dup[KeyOf[c]])]
          BY <2>5, <4>3, NoteStep, Zenon
        <5>2. isDisabled'[d] <=> isDisabled[d] \/ (Fighting(c, KeyOf[c]) /\ d \in dup[KeyOf[c]])
          BY <5>1, Zenon
        <5> QED BY <3>2, <4>1, <5>2 DEF Life
      <4> QED BY <4>2, <4>3
    <3> QED BY <3>1, <3>2 DEF Life, CoreType
  <2>6. CASE AddWatcher(c)
    BY <2>6 DEF AddWatcher, Handled, Life, CoreType
  <2>7. ASSUME NEW k \in Keys, HandlePacket(c, k) PROVE Life'
    BY <2>7 DEF HandlePacket, Handled, Life, CoreType
  <2>8. ASSUME NEW k \in Keys, WritePacket(c, k) PROVE Life'
    BY <2>8 DEF WritePacket, Life, CoreType
  <2> QED BY <1>2, <2>1, <2>2, <2>3, <2>4, <2>5, <2>6, <2>7, <2>8 DEF ConnSteps
<1>3. ASSUME NEW k \in Keys, NEW f \in Forwarders,
             AddPacketForwarder(k, f) \/ RemovePacketForwarder(k, f)
      PROVE  Life'
  BY <1>3 DEF AddPacketForwarder, RemovePacketForwarder, Life
<1> QED BY <1>1, <1>2, <1>3, Steps

\* What is said of a key rests on what the server keeps for it.
LEMMA SetsKept ==
  ASSUME CoreType, NEW k \in Keys, Members(k), HistoryInv(k),
         Connected(k)' = Connected(k), policy' = policy, k \in clients' <=> k \in clients,
         dup'[k] = dup[k], last'[k] = last[k], history'[k] = history[k], active'[k] = active[k]
  PROVE  Members(k)' /\ HistoryInv(k)'
<1>1. Members(k)'
  BY DEF Members
<1>2. HistoryInv(k)'
  BY DEF HistoryInv
<1> QED BY <1>1, <1>2

\* registerClient.
LEMMA RegisterSets ==
  ASSUME CoreType, Sets, NEW c \in Conns, RegisterClient(c), NEW k \in Keys
  PROVE  Members(k)' /\ HistoryInv(k)'
<1> USE DEF setVars, gauges, meshVars, goneVars
<1>0. KeyOf[c] \in Keys /\ Members(k) /\ HistoryInv(k)
  BY KeyType DEF Sets
<1>1. /\ c \notin Connected(k)
      /\ Connected(k)' = IF k = KeyOf[c] THEN Connected(k) \cup {c} ELSE Connected(k)
  BY ConnectedStep
<1>2. /\ policy' = policy /\ clients' = clients \cup {KeyOf[c]}
      /\ active' = [active EXCEPT ![KeyOf[c]] = c]
  BY DEF RegisterClient
<1>3. CASE k # KeyOf[c]
  <2>1. dup'[k] = dup[k] /\ last'[k] = last[k] /\ history'[k] = history[k]
    BY <1>3 DEF RegisterClient, CoreType
  <2>2. active'[k] = active[k] /\ (k \in clients' <=> k \in clients)
    BY <1>2, <1>3 DEF CoreType
  <2> QED BY <1>0, <1>1, <1>2, <1>3, <2>1, <2>2, SetsKept
<1>4. CASE k = KeyOf[c]
  <2>1. Connected(k)' = Connected(k) \cup {c} /\ k \in clients' /\ active'[k] = c
    BY <1>1, <1>2, <1>4 DEF CoreType
  <2>2. CASE dup[k] = {} /\ active[k] = None
    <3>1. UNCHANGED <<dup, last, history>>
      BY <1>4, <2>2 DEF RegisterClient
    <3>2. Connected(k) = {}
      BY <1>0, <2>2 DEF Members
    <3>3. c # None
      BY NoneIsNothing
    <3>4. Members(k)'
      BY <2>1, <2>2, <3>1, <3>2, <3>3 DEF Members
    <3>5. HistoryInv(k)'
      BY <1>0, <3>1 DEF HistoryInv
    <3> QED BY <3>4, <3>5
  <2>3. CASE dup[k] = {} /\ active[k] # None
    <3> DEFINE was == active[k]
    <3>1. /\ dup' = [dup EXCEPT ![k] = {c, was}] /\ last' = [last EXCEPT ![k] = c]
          /\ history' = [history EXCEPT ![k] = <<was>>]
      BY <1>4, <2>3 DEF RegisterClient
    <3>2. dup'[k] = {c, was} /\ last'[k] = c /\ history'[k] = <<was>>
      BY <3>1 DEF CoreType
    <3>3. Connected(k) = {was}
      BY <1>0, <2>3 DEF Members
    <3>4. was # c /\ c # None
      BY <1>1, <3>3, NoneIsNothing
    <3>5. Members(k)'
      <4>1. dup'[k] = Connected(k)'
        BY <2>1, <3>2, <3>3
      <4>2. \E a, b \in dup'[k] : a # b
        BY <3>2, <3>4
      <4> QED BY <2>1, <3>4, <4>1, <4>2 DEF Members
    <3>6. ASSUME NEW d PROVE Holds(<<was>>, d) <=> d = was
      BY DEF Holds
    <3>7. Distinct(<<was>>)
      BY DEF Distinct
    <3>8. HistoryInv(k)'
      BY <3>2, <3>6, <3>7 DEF HistoryInv
    <3> QED BY <3>5, <3>8
  <2>4. CASE dup[k] # {}
    <3>1. /\ dup' = [dup EXCEPT ![k] = dup[k] \cup {c}] /\ last' = [last EXCEPT ![k] = c]
          /\ history' = [history EXCEPT ![k] = Append(history[k], c)]
      BY <1>4, <2>4 DEF RegisterClient
    <3>2. dup'[k] = dup[k] \cup {c} /\ last'[k] = c /\ history'[k] = Append(history[k], c)
      BY <3>1 DEF CoreType
    <3>3. dup[k] = Connected(k) /\ \E a, b \in dup[k] : a # b
      BY <1>0, <2>4 DEF Members
    <3>4. c # None
      BY NoneIsNothing
    <3>5. Members(k)'
      <4>1. dup'[k] = Connected(k)' /\ \E a, b \in dup'[k] : a # b
        BY <2>1, <3>2, <3>3
      <4> QED BY <2>1, <3>4, <4>1 DEF Members
    <3>6. ~Holds(history[k], c)
      BY <1>0, <1>1, <3>3 DEF HistoryInv
    <3>7. /\ \A y : Holds(Append(history[k], c), y) <=> Holds(history[k], y) \/ y = c
          /\ Distinct(Append(history[k], c))
      <4>1. history[k] \in Seq(Conns)
        BY DEF CoreType
      <4> QED BY <1>0, <3>6, <4>1, AppendDistinct DEF HistoryInv
    <3>8. HistoryInv(k)'
      BY <1>0, <3>2, <3>7 DEF HistoryInv
    <3> QED BY <3>5, <3>8
  <2> QED BY <2>2, <2>3, <2>4
<1> QED BY <1>3, <1>4

\* unregisterClient.
LEMMA UnregisterSets ==
  ASSUME CoreType, Sets, DisabledSilent, NEW c \in Conns, UnregisterClient(c), NEW k \in Keys
  PROVE  Members(k)' /\ HistoryInv(k)'
<1> USE DEF setVars, gauges, meshVars, goneVars
<1>0. KeyOf[c] \in Keys /\ Members(k) /\ HistoryInv(k)
  BY KeyType DEF Sets
<1>1. /\ c \in Connected(KeyOf[c])
      /\ Connected(k)' = IF k = KeyOf[c] THEN Connected(k) \ {c} ELSE Connected(k)
  BY ConnectedStep
<1>2. policy' = policy
  BY DEF UnregisterClient
<1>3. CASE k # KeyOf[c]
  <2>1. dup'[k] = dup[k] /\ last'[k] = last[k] /\ history'[k] = history[k] /\ active'[k] = active[k]
    BY <1>3 DEF UnregisterClient, UnregisterSingle, UnregisterToOne, UnregisterDup, CoreType
  <2>2. k \in clients' <=> k \in clients
    BY <1>3 DEF UnregisterClient, UnregisterSingle, UnregisterToOne, UnregisterDup, CoreType
  <2>3. Connected(k)' = Connected(k)
    BY <1>1, <1>3
  <2> QED BY <1>0, <1>2, <2>1, <2>2, <2>3, SetsKept
<1>4. ASSUME k = KeyOf[c] PROVE Members(k)' /\ HistoryInv(k)'
  <2>1. c \in Connected(k) /\ Connected(k)' = Connected(k) \ {c}
    BY <1>1, <1>4
  <2>2. ASSUME UnregisterSingle(c) PROVE Members(k)' /\ HistoryInv(k)'
    <3>1. /\ dup[k] = {} /\ clients' = clients \ {k} /\ active' = [active EXCEPT ![k] = None]
          /\ UNCHANGED <<dup, last, history>>
      BY <1>4, <2>2 DEF UnregisterSingle
    <3>2. Connected(k)' = {}
      BY <1>0, <2>1, <3>1 DEF Members
    <3>3. active'[k] = None /\ dup'[k] = {}
      BY <3>1 DEF CoreType
    <3>4. Members(k)'
      BY <3>1, <3>2, <3>3 DEF Members
    <3>5. HistoryInv(k)'
      BY <1>0, <3>1 DEF HistoryInv
    <3> QED BY <3>4, <3>5
  <2>3. ASSUME NEW o \in Conns, UnregisterToOne(c, o) PROVE Members(k)' /\ HistoryInv(k)'
    <3>1. /\ c # o /\ dup[k] = {c, o} /\ UNCHANGED clients
          /\ dup' = [dup EXCEPT ![k] = {}] /\ active' = [active EXCEPT ![k] = o]
          /\ history' = [history EXCEPT ![k] = <<>>]
      BY <1>4, <2>3 DEF UnregisterToOne
    <3>2. dup'[k] = {} /\ active'[k] = o /\ history'[k] = <<>>
      BY <3>1 DEF CoreType
    <3>3. Connected(k)' = {o} /\ k \in clients
      BY <1>0, <2>1, <3>1 DEF Members
    <3>4. o # None
      BY NoneIsNothing
    <3>5. Members(k)'
      BY <3>1, <3>2, <3>3, <3>4 DEF Members
    <3>6. HistoryInv(k)'
      BY <3>2 DEF HistoryInv, Distinct, Holds
    <3> QED BY <3>5, <3>6
  <2>4. ASSUME UnregisterDup(c) PROVE Members(k)' /\ HistoryInv(k)'
    <3> DEFINE d == LastAfter(c, k)
               e == IF d = None THEN None ELSE IF isDisabled[d] THEN None ELSE d
               r == Removed(c, k)
    <3>1. /\ c \in dup[k] /\ Cardinality(dup[k]) > 2 /\ UNCHANGED clients
          /\ dup' = [dup EXCEPT ![k] = dup[k] \ {c}] /\ active' = [active EXCEPT ![k] = e]
          /\ last' = [last EXCEPT ![k] = d] /\ history' = [history EXCEPT ![k] = r]
      BY <1>4, <2>4 DEF UnregisterDup
    <3>2. dup'[k] = dup[k] \ {c} /\ active'[k] = e /\ last'[k] = d /\ history'[k] = r
      BY <3>1 DEF CoreType
    <3>3. dup[k] = Connected(k) /\ dup'[k] = Connected(k)'
      BY <1>0, <2>1, <3>1, <3>2 DEF Members
    <3>4. IsFiniteSet(dup[k])
      <4>1. dup[k] \subseteq Conns
        BY DEF CoreType
      <4> QED BY <4>1, FiniteAssumption, FS_Subset
    <3>5. PICK a \in dup[k] \ {c}, b \in dup[k] \ {c} : a # b
      BY <3>1, <3>4, CardThree
    <3>6. /\ r \in Seq(Conns) /\ Distinct(r) /\ ~Holds(r, c)
          /\ \A x : Holds(r, x) => Holds(history[k], x)
          /\ \A x : x # c /\ Holds(history[k], x) => Holds(r, x)
      BY <1>0, RemovedProperties DEF HistoryInv
    <3>7. d \in dup[k] \ {c}
      <4>1. CASE last[k] # c
        BY <1>0, <3>1, <4>1 DEF LastAfter, HistoryInv
      <4>2. CASE last[k] = c
        <5>1. Holds(r, a) \/ Holds(r, b)
          BY <1>0, <3>5, <3>6 DEF HistoryInv
        <5>2. LastOf(r) \in Conns \cup {None} /\ Holds(r, LastOf(r))
          BY <3>6, <5>1, LastOfProperties
        <5>3. LastOf(r) # None
          BY <3>6, <5>2, NoneIsNothing DEF Holds
        <5>4. LastOf(r) \in dup[k] \ {c}
          BY <1>0, <3>6, <5>2, <5>3 DEF HistoryInv
        <5> QED BY <4>2, <5>4 DEF LastAfter
      <4> QED BY <4>1, <4>2
    <3> HIDE DEF d
    <3>8. e \in dup[k] \ {c} \/ (e = None /\ policy = "disableFighters")
      <4>1. d \in Conns /\ d # None
        BY <3>3, <3>7, NoneIsNothing DEF Connected
      <4>2. isDisabled[d] => policy = "disableFighters"
        BY <4>1, PoliciesAssumption DEF DisabledSilent, CoreType
      <4> QED BY <3>7, <4>1, <4>2
    <3>9. Members(k)'
      <4> HIDE DEF e
      <4>1. k \in clients /\ Connected(k)' # {}
        BY <1>0, <2>1, <3>3, <3>2, <3>5 DEF Members
      <4>2. \E x, y \in dup'[k] : x # y
        BY <3>2, <3>5
      <4>3. active'[k] \in Connected(k)' \cup {None}
        BY <3>2, <3>3, <3>8
      <4>4. active'[k] = None => policy' = "disableFighters"
        <5>1. None \notin dup[k]
          BY <3>3, NoneIsNothing DEF Connected
        <5> QED BY <1>2, <3>2, <3>8, <5>1
      <4> QED BY <3>1, <3>3, <4>1, <4>2, <4>3, <4>4 DEF Members
    <3>10. HistoryInv(k)'
      <4> HIDE DEF r
      <4>1. \A x \in Conns : Holds(r, x) => x \in dup'[k]
        BY <1>0, <3>2, <3>6 DEF HistoryInv
      <4>2. \A x, y \in dup'[k] : ~Holds(r, x) /\ ~Holds(r, y) => x = y
        BY <1>0, <3>2, <3>6 DEF HistoryInv
      <4>3. last'[k] \in dup'[k]
        BY <3>2, <3>7
      <4> QED BY <3>2, <3>6, <4>1, <4>2, <4>3 DEF HistoryInv
    <3> QED BY <3>9, <3>10
  <2> QED BY <2>2, <2>3, <2>4 DEF UnregisterClient
<1> QED BY <1>3, <1>4

\* noteClientActivity, whether or not c is still a duplicate when it gets the lock.
LEMMA NoteSets ==
  ASSUME CoreType, Life, Sets, NEW c \in Conns, NoteClientActivity(c), NEW k \in Keys
  PROVE  Members(k)' /\ HistoryInv(k)'
<1>0. KeyOf[c] \in Keys /\ Members(k) /\ HistoryInv(k)
  BY KeyType DEF Sets
<1>1. /\ policy' = policy /\ clients' = clients /\ dup' = dup /\ st' = st /\ frame[c] = "note"
  BY NoteStep
<1>2. Connected(k)' = Connected(k)
  BY <1>1, ConnectedStep
<1>3. CASE dup[KeyOf[c]] = {}
  <2>1. UNCHANGED <<last, active, history>>
    BY <1>3, NoteStep
  <2> QED BY <1>0, <1>1, <1>2, <2>1, SetsKept
<1>4. CASE dup[KeyOf[c]] # {}
  <2> DEFINE d == IF Promotes(KeyOf[c]) THEN c ELSE last[KeyOf[c]]
             e == IF Fighting(c, KeyOf[c]) THEN None
                  ELSE IF Promotes(KeyOf[c]) THEN c ELSE active[KeyOf[c]]
             r == Append(Removed(c, KeyOf[c]), c)
  <2>1. /\ last' = [last EXCEPT ![KeyOf[c]] = d] /\ active' = [active EXCEPT ![KeyOf[c]] = e]
        /\ history' = [history EXCEPT ![KeyOf[c]] = r]
    BY <1>4, NoteStep
  <2>2. CASE k # KeyOf[c]
    <3> HIDE DEF d, e, r
    <3>1. last'[k] = last[k] /\ active'[k] = active[k] /\ history'[k] = history[k]
      BY <2>1, <2>2 DEF CoreType
    <3> QED BY <1>0, <1>1, <1>2, <3>1, SetsKept
  <2>3. ASSUME k = KeyOf[c] PROVE Members(k)' /\ HistoryInv(k)'
    <3>1. last'[k] = d /\ active'[k] = e /\ history'[k] = r
      <4> HIDE DEF d, e, r
      <4> QED BY <2>1, <2>3 DEF CoreType
    <3>2. dup[k] # {} /\ dup[k] = Connected(k)
      BY <1>0, <1>4, <2>3 DEF Members
    <3>3. c \in dup[k] /\ c # None
      BY <1>1, <2>3, <3>2, NoneIsNothing DEF Connected, Life
    <3>4. d \in dup[k]
      BY <1>0, <2>3, <3>2, <3>3 DEF HistoryInv
    <3>5. Members(k)'
      <4>1. e \in Connected(k) \cup {None}
        BY <1>0, <2>3, <3>2, <3>3 DEF Members
      <4>2. e = None /\ k \in clients => policy = "disableFighters"
        BY <1>0, <2>3, <3>3 DEF Members, Fighting
      <4> HIDE DEF e
      <4> QED BY <1>0, <1>1, <1>2, <3>1, <3>2, <4>1, <4>2 DEF Members
    <3>6. HistoryInv(k)'
      <4>1. /\ Removed(c, k) \in Seq(Conns) /\ Distinct(Removed(c, k)) /\ ~Holds(Removed(c, k), c)
            /\ \A x : Holds(Removed(c, k), x) => Holds(history[k], x)
            /\ \A x : x # c /\ Holds(history[k], x) => Holds(Removed(c, k), x)
        BY <1>0, RemovedProperties DEF HistoryInv
      <4>2. Distinct(r) /\ \A y : Holds(r, y) <=> Holds(Removed(c, k), y) \/ y = c
        BY <2>3, <4>1, AppendDistinct
      <4> HIDE DEF r, d
      <4>3. \A x \in Conns : Holds(r, x) => x \in dup[k]
        BY <1>0, <3>3, <4>1, <4>2 DEF HistoryInv
      <4>4. \A x, y \in dup[k] : ~Holds(r, x) /\ ~Holds(r, y) => x = y
        BY <1>0, <4>1, <4>2 DEF HistoryInv
      <4> QED BY <1>1, <3>1, <3>4, <4>2, <4>3, <4>4 DEF HistoryInv
    <3> QED BY <3>5, <3>6
  <2> QED BY <2>2, <2>3
<1> QED BY <1>3, <1>4

\* Every step keeps the sets sound.
LEMMA SetsStep ==
  ASSUME CoreType, Life, Sets, DisabledSilent, [Next]_vars
  PROVE  Sets'
<1> USE DEF setVars, gauges, meshVars, goneVars
<1> SUFFICES ASSUME NEW k \in Keys PROVE Members(k)' /\ HistoryInv(k)'
  BY DEF Sets
<1>0. Members(k) /\ HistoryInv(k)
  BY DEF Sets
<1>1. ASSUME UNCHANGED <<policy, clients, active, dup, last, history>>, Connected(k)' = Connected(k)
      PROVE  Members(k)' /\ HistoryInv(k)'
  BY <1>0, <1>1, SetsKept
<1>2. CASE UNCHANGED vars
  <2>1. UNCHANGED <<policy, clients, active, dup, last, history>> /\ UNCHANGED st
    BY <1>2 DEF vars
  <2>2. Connected(k)' = Connected(k)
    BY <2>1 DEF Connected
  <2> QED BY <1>1, <2>1, <2>2
<1>3. ASSUME NEW c \in Conns, ConnSteps(c) PROVE Members(k)' /\ HistoryInv(k)'
  <2>1. CASE RegisterClient(c)
    BY <2>1, RegisterSets
  <2>2. CASE StopWriter(c)
    <3>1. UNCHANGED <<policy, clients, active, dup, last, history>>
      BY <2>2 DEF StopWriter
    <3> QED BY <1>1, <2>2, <3>1, ConnectedStep
  <2>3. CASE UnregisterClient(c)
    BY <2>3, UnregisterSets
  <2>4. CASE NoteClientActivity(c)
    BY <2>4, NoteSets
  <2>5. CASE ReadFrame(c) \/ AddWatcher(c) \/ \E d \in Keys : HandlePacket(c, d) \/ WritePacket(c, d)
    <3>1. UNCHANGED <<policy, clients, active, dup, last, history>> /\ UNCHANGED st
      BY <2>5 DEF ReadFrame, AddWatcher, HandlePacket, WritePacket
    <3> QED BY <1>1, <3>1, ConnectedStep
  <2> QED BY <1>3, <2>1, <2>2, <2>3, <2>4, <2>5 DEF ConnSteps
<1>4. ASSUME NEW d \in Keys, NEW f \in Forwarders,
             AddPacketForwarder(d, f) \/ RemovePacketForwarder(d, f)
      PROVE  Members(k)' /\ HistoryInv(k)'
  <2>1. UNCHANGED <<policy, clients, active, dup, last, history>> /\ UNCHANGED st
    BY <1>4 DEF AddPacketForwarder, RemovePacketForwarder
  <2>2. Connected(k)' = Connected(k)
    BY <2>1 DEF Connected
  <2> QED BY <1>1, <2>1, <2>2
<1> QED BY <1>2, <1>3, <1>4, Steps

-----------------------------------------------------------------------------
(* Who is disabled. *)

\* Every step keeps disabled connections silent.
LEMMA DisabledStep ==
  ASSUME CoreType, Life, Sets, DisabledSilent, Sets', [Next]_vars
  PROVE  DisabledSilent'
<1> USE DEF setVars, gauges, meshVars, goneVars
<1> DEFINE Silent(k, x) == isDisabled[x] => active[k] # x /\ dup[k] # {}
           Peaceful == policy = "lastWriterIsActive" => \A x \in Conns : ~isDisabled[x]
<1>1. ASSUME NEW k \in Keys, NEW x \in Connected(k) PROVE Silent(k, x)
  BY DEF DisabledSilent
<1>2. Peaceful
  BY DEF DisabledSilent
<1>3. ASSUME UNCHANGED <<policy, st, active, dup, isDisabled>> PROVE DisabledSilent'
  BY <1>3 DEF DisabledSilent, Connected
<1>4. ASSUME NEW c \in Conns, ConnSteps(c) PROVE DisabledSilent'
  <2>0. KeyOf[c] \in Keys
    BY KeyType
  <2>1. CASE RegisterClient(c)
    <3>1. UNCHANGED <<policy, isDisabled>> /\ active' = [active EXCEPT ![KeyOf[c]] = c]
      BY <2>1 DEF RegisterClient
    <3>2. ASSUME NEW k \in Keys, NEW x \in Connected(k)', isDisabled[x]
          PROVE  active'[k] # x /\ dup'[k] # {}
      <4>1. c \notin Connected(k) /\ x \in Connected(k) \cup {c} /\ x \in Conns
        BY <2>1, <3>2, ConnectedStep DEF Connected
      <4>2. x # c
        BY <2>1, <3>2 DEF Life, RegisterClient
      <4>3. active[k] # x /\ dup[k] # {}
        BY <1>1, <3>2, <4>1, <4>2
      <4>4. active'[k] # x
        BY <3>1, <4>2, <4>3 DEF CoreType
      <4>5. dup' = [dup EXCEPT ![KeyOf[c]] = @ \cup {c}] \/ UNCHANGED dup \/ dup[KeyOf[c]] = {}
        BY <2>1 DEF RegisterClient
      <4>6. \A j \in Keys : j # KeyOf[c] => dup'[j] = dup[j]
        BY <2>1 DEF RegisterClient, CoreType
      <4>7. dup'[k] # {}
        BY <2>0, <4>3, <4>5, <4>6 DEF CoreType
      <4> QED BY <4>4, <4>7
    <3> QED BY <1>2, <3>1, <3>2 DEF DisabledSilent
  <2>2. CASE StopWriter(c)
    <3>1. UNCHANGED <<policy, active, dup, isDisabled>>
      BY <2>2 DEF StopWriter
    <3>2. \A k \in Keys : Connected(k)' = Connected(k)
      BY <2>2, ConnectedStep
    <3> QED BY <3>1, <3>2 DEF DisabledSilent
  <2>3. CASE UnregisterClient(c)
    <3>0. UNCHANGED policy
      BY <2>3 DEF UnregisterClient
    <3>1. ASSUME NEW k \in Keys
          PROVE  Connected(k)' = IF k = KeyOf[c] THEN Connected(k) \ {c} ELSE Connected(k)
      BY <2>3, ConnectedStep
    <3>2. ASSUME NEW x \in Conns, isDisabled'[x] PROVE isDisabled[x]
      <4>1. CASE UNCHANGED isDisabled
        BY <3>2, <4>1
      <4>2. ASSUME NEW o \in Conns, isDisabled' = [isDisabled EXCEPT ![o] = FALSE]
            PROVE  isDisabled[x]
        BY <3>2, <4>2, Zenon DEF CoreType
      <4> QED BY <2>3, <4>1, <4>2
              DEF UnregisterClient, UnregisterSingle, UnregisterToOne, UnregisterDup
    <3>3. Peaceful'
      BY <1>2, <3>0, <3>2
    <3>4. ASSUME NEW k \in Keys, NEW x \in Connected(k)', isDisabled'[x]
          PROVE  active'[k] # x /\ dup'[k] # {}
      <4>1. x \in Conns /\ x \in Connected(k)
        BY <3>1 DEF Connected
      <4>2. isDisabled[x] /\ active[k] # x /\ dup[k] # {}
        BY <1>1, <3>2, <3>4, <4>1
      <4>3. CASE k # KeyOf[c]
        <5>1. dup'[k] = dup[k] /\ active'[k] = active[k]
          BY <2>3, <4>3 DEF UnregisterClient, UnregisterSingle, UnregisterToOne, UnregisterDup, CoreType
        <5> QED BY <4>2, <5>1
      <4>4. ASSUME k = KeyOf[c] PROVE active'[k] # x /\ dup'[k] # {}
        <5>1. CASE UnregisterSingle(c)
          BY <4>2, <4>4, <5>1 DEF UnregisterSingle
        <5>2. ASSUME NEW o \in Conns, UnregisterToOne(c, o) PROVE FALSE
          <6>1. dup[k] = {c, o} /\ isDisabled' = [isDisabled EXCEPT ![o] = FALSE]
            BY <4>4, <5>2 DEF UnregisterToOne
          <6>2. dup[k] = Connected(k)
            BY <4>2 DEF Sets, Members
          <6>3. x = o
            BY <3>1, <3>4, <4>4, <6>1, <6>2
          <6>4. ~isDisabled'[o]
            BY <6>1 DEF CoreType
          <6> QED BY <3>4, <6>3, <6>4
        <5>3. CASE UnregisterDup(c)
          <6> DEFINE d == LastAfter(c, k)
          <6>1. /\ active' = [active EXCEPT ![k] = IF d = None THEN None
                                                   ELSE IF isDisabled[d] THEN None ELSE d]
                /\ dup' = [dup EXCEPT ![k] = @ \ {c}] /\ UNCHANGED isDisabled
            BY <4>4, <5>3 DEF UnregisterDup
          <6> HIDE DEF d
          <6>2. active'[k] = None \/ (active'[k] = d /\ ~isDisabled[d])
            BY <6>1 DEF CoreType
          <6>3. active'[k] # x
            BY <4>1, <4>2, <6>2, NoneIsNothing
          <6>4. x \in dup'[k]
            <7>1. dup[k] = Connected(k)
              BY <4>2 DEF Sets, Members
            <7>2. x \in dup[k] \ {c}
              BY <3>1, <3>4, <4>4, <7>1
            <7> QED BY <6>1, <7>2 DEF CoreType
          <6> QED BY <6>3, <6>4
        <5> QED BY <2>3, <5>1, <5>2, <5>3 DEF UnregisterClient
      <4> QED BY <4>3, <4>4
    <3> QED BY <3>3, <3>4 DEF DisabledSilent
  <2>4. CASE NoteClientActivity(c)
    <3>1. UNCHANGED <<policy, st, dup>> /\ frame[c] = "note"
      BY <2>4, NoteStep
    <3>2. CASE dup[KeyOf[c]] = {}
      <4>1. UNCHANGED <<active, isDisabled>>
        BY <2>4, <3>2, NoteStep
      <4> QED BY <1>3, <3>1, <4>1
    <3>3. CASE dup[KeyOf[c]] # {}
      <4> DEFINE F == Fighting(c, KeyOf[c])
                 e == IF F THEN None ELSE IF Promotes(KeyOf[c]) THEN c ELSE active[KeyOf[c]]
      <4>1. isDisabled' = [x \in Conns |-> isDisabled[x] \/ (F /\ x \in dup[KeyOf[c]])]
        BY <2>4, <3>3, NoteStep, Zenon
      <4>2. \A x \in Conns : isDisabled'[x] <=> isDisabled[x] \/ (F /\ x \in dup[KeyOf[c]])
        BY <4>1, Zenon
      <4>3. F => policy = "disableFighters"
        BY DEF Fighting
      <4>4. active' = [active EXCEPT ![KeyOf[c]] = e]
        BY <2>4, <3>3, NoteStep
      <4>5. Promotes(KeyOf[c]) => policy = "lastWriterIsActive"
        <5>1. last[KeyOf[c]] \in dup[KeyOf[c]]
          BY <2>0, <3>3 DEF Sets, HistoryInv
        <5>2. last[KeyOf[c]] # None
          BY <2>0, <5>1, DupConnected, NoneIsNothing
        <5> QED BY <5>2 DEF Promotes
      <4> HIDE DEF F
      <4>6. Peaceful'
        BY <1>2, <3>1, <4>2, <4>3
      <4>7. ASSUME NEW k \in Keys, NEW x \in Connected(k), isDisabled'[x]
            PROVE  active'[k] # x /\ dup'[k] # {}
        <5>0. x \in Conns /\ KeyOf[x] = k
          BY DEF Connected
        <5>1. CASE k # KeyOf[c]
          <6>1. x \notin dup[KeyOf[c]]
            BY <2>0, <5>0, <5>1, DupConnected
          <6>2. isDisabled[x]
            BY <4>2, <4>7, <5>0, <6>1
          <6>3. active[k] # x /\ dup[k] # {}
            BY <1>1, <6>2
          <6>4. active'[k] = active[k]
            BY <4>4, <5>1 DEF CoreType
          <6> QED BY <3>1, <6>3, <6>4
        <5>2. CASE k = KeyOf[c]
          <6>1. active'[k] = e
            <7> HIDE DEF e
            <7> QED BY <4>4, <5>2 DEF CoreType
          <6>2. CASE F
            BY <3>1, <3>3, <5>0, <5>2, <6>1, <6>2, NoneIsNothing
          <6>3. CASE ~F
            <7>1. isDisabled[x]
              BY <4>2, <4>7, <5>0, <6>3
            <7>2. ~Promotes(KeyOf[c])
              BY <1>2, <4>5, <5>0, <7>1
            <7>3. active[k] # x
              BY <1>1, <7>1
            <7> QED BY <3>1, <3>3, <5>2, <6>1, <6>3, <7>2, <7>3
          <6> QED BY <6>2, <6>3
        <5> QED BY <5>1, <5>2
      <4>8. \A k \in Keys : Connected(k)' = Connected(k)
        BY <3>1, ConnectedStep
      <4> QED BY <4>6, <4>7, <4>8 DEF DisabledSilent
    <3> QED BY <3>2, <3>3
  <2>5. CASE ReadFrame(c) \/ AddWatcher(c) \/ \E k \in Keys : HandlePacket(c, k) \/ WritePacket(c, k)
    <3>1. UNCHANGED <<policy, st, active, dup, isDisabled>>
      BY <2>5 DEF ReadFrame, AddWatcher, HandlePacket, WritePacket
    <3> QED BY <1>3, <3>1
  <2> QED BY <1>4, <2>1, <2>2, <2>3, <2>4, <2>5 DEF ConnSteps
<1>5. ASSUME NEW k \in Keys, NEW f \in Forwarders,
             AddPacketForwarder(k, f) \/ RemovePacketForwarder(k, f)
      PROVE  DisabledSilent'
  <2>1. UNCHANGED <<policy, st, active, dup, isDisabled>>
    BY <1>5 DEF AddPacketForwarder, RemovePacketForwarder
  <2> QED BY <1>3, <2>1
<1>6. CASE UNCHANGED vars
  <2>1. UNCHANGED <<policy, st, active, dup, isDisabled>>
    BY <1>6 DEF vars
  <2> QED BY <1>3, <2>1
<1> QED BY <1>4, <1>5, <1>6, Steps

-----------------------------------------------------------------------------
(* The mesh. *)

\* Every step keeps clientsMesh consistent.
LEMMA MeshStep ==
  ASSUME CoreType, CoreType', MeshConsistent, [Next]_vars
  PROVE  MeshConsistent'
<1> USE DEF setVars, gauges, meshVars, goneVars
<1> DEFINE Known(k) == k \in meshKeys <=> k \in clients \/ fwds[k] # NoForwarders
           Usable(k) == IF fwds[k] = NoForwarders THEN preferred[k] = None
                                                  ELSE preferred[k] \in DOMAIN fwds[k]
<1>0. ASSUME NEW k \in Keys PROVE Known(k) /\ Usable(k)
  BY DEF MeshConsistent
<1>1. ASSUME UNCHANGED <<clients, meshVars>> PROVE MeshConsistent'
  BY <1>1 DEF MeshConsistent
<1>2. ASSUME NEW c \in Conns, ConnSteps(c) PROVE MeshConsistent'
  <2>1. CASE RegisterClient(c)
    <3>1. /\ clients' = clients \cup {KeyOf[c]} /\ meshKeys' = meshKeys \cup {KeyOf[c]}
          /\ UNCHANGED <<fwds, preferred>>
      BY <2>1 DEF RegisterClient
    <3> QED BY <1>0, <3>1 DEF MeshConsistent
  <2>2. CASE UnregisterClient(c)
    <3>1. UNCHANGED <<fwds, preferred>>
      BY <2>2 DEF UnregisterClient
    <3>2. CASE UnregisterSingle(c)
      <4>1. /\ clients' = clients \ {KeyOf[c]}
            /\ \/ KeyOf[c] \in meshKeys /\ fwds[KeyOf[c]] = NoForwarders
                  /\ meshKeys' = meshKeys \ {KeyOf[c]}
               \/ ~(KeyOf[c] \in meshKeys /\ fwds[KeyOf[c]] = NoForwarders) /\ UNCHANGED meshKeys
        BY <3>2 DEF UnregisterSingle
      <4> QED BY <1>0, <3>1, <4>1 DEF MeshConsistent
    <3>3. CASE UnregisterDup(c) \/ \E o \in Conns : UnregisterToOne(c, o)
      BY <1>1, <3>1, <3>3 DEF UnregisterDup, UnregisterToOne
    <3> QED BY <2>2, <3>2, <3>3 DEF UnregisterClient
  <2>3. CASE NoteClientActivity(c)
    BY <1>1, <2>3, NoteStep
  <2>4. CASE \/ StopWriter(c) \/ ReadFrame(c) \/ AddWatcher(c)
             \/ \E k \in Keys : HandlePacket(c, k) \/ WritePacket(c, k)
    <3>1. UNCHANGED <<clients, meshVars>>
      BY <2>4 DEF StopWriter, ReadFrame, AddWatcher, HandlePacket, WritePacket
    <3> QED BY <1>1, <3>1
  <2> QED BY <1>2, <2>1, <2>2, <2>3, <2>4 DEF ConnSteps
<1>3. ASSUME NEW k \in Keys, NEW f \in Forwarders, AddPacketForwarder(k, f) PROVE MeshConsistent'
  <2>0. fwds[k] \in ForwarderMaps /\ fwds'[k] \in ForwarderMaps
    BY DEF CoreType
  <2>1. UNCHANGED clients /\ meshKeys' = meshKeys \cup {k}
    BY <1>3 DEF AddPacketForwarder
  <2>2. \A j \in Keys : j # k => fwds'[j] = fwds[j] /\ preferred'[j] = preferred[j]
    BY <1>3 DEF AddPacketForwarder, CoreType
  <2>3. DOMAIN fwds'[k] = DOMAIN fwds[k] \cup {f}
    <3>1. 0 \in 0..(IdxMod - 1)
      BY IdxModAssumption
    <3>2. CASE fwds[k] = NoForwarders
      <4>1. fwds' = [fwds EXCEPT ![k] = WithForwarder(k, f, 0)]
        BY <1>3, <3>2 DEF AddPacketForwarder
      <4>2. fwds'[k] = WithForwarder(k, f, 0)
        BY <4>1 DEF CoreType
      <4>3. DOMAIN WithForwarder(k, f, 0) = DOMAIN fwds[k] \cup {f}
        BY <3>1, ForwarderProperties, Zenon
      <4> QED BY ONLY <4>2, <4>3
    <3>3. CASE fwds[k] # NoForwarders
      <4>1. fwds' = [fwds EXCEPT ![k] = WithForwarder(k, f, NextIdx(k))]
        BY <1>3, <3>3 DEF AddPacketForwarder
      <4>2. fwds'[k] = WithForwarder(k, f, NextIdx(k))
        BY <4>1 DEF CoreType
      <4>3. DOMAIN WithForwarder(k, f, NextIdx(k)) = DOMAIN fwds[k] \cup {f}
        BY <3>3, NextIdxType, ForwarderProperties, Zenon
      <4> QED BY ONLY <4>2, <4>3
    <3> QED BY <3>2, <3>3
  <2>4. fwds'[k] # NoForwarders
    BY <2>0, <2>3, MapProperties
  <2>5. preferred'[k] \in DOMAIN fwds'[k]
    <3>1. CASE fwds[k] = NoForwarders
      BY <1>3, <2>3, <3>1 DEF AddPacketForwarder, CoreType
    <3>2. CASE fwds[k] # NoForwarders
      BY <1>0, <1>3, <2>3, <3>2 DEF AddPacketForwarder
    <3> QED BY <3>1, <3>2
  <2>6. ASSUME NEW j \in Keys PROVE Known(j)' /\ Usable(j)'
    BY <1>0, <2>1, <2>2, <2>4, <2>5
  <2> QED BY <2>6 DEF MeshConsistent
<1>4. ASSUME NEW k \in Keys, NEW f \in Forwarders, RemovePacketForwarder(k, f) PROVE MeshConsistent'
  <2>0. fwds[k] \in ForwarderMaps /\ fwds'[k] \in ForwarderMaps
    BY DEF CoreType
  <2>1. f \in DOMAIN fwds[k] /\ UNCHANGED clients
    BY <1>4 DEF RemovePacketForwarder
  <2>2. fwds[k] # NoForwarders
    BY <2>0, <2>1, MapProperties
  <2>3. CASE RemoveFromMulti(k, f)
    <3>1. fwds' = [fwds EXCEPT ![k] = WithoutForwarder(k, f)] /\ UNCHANGED meshKeys
      BY <2>3 DEF RemoveFromMulti
    <3>2. PICK g \in DOMAIN fwds[k] \ {f} : preferred' = [preferred EXCEPT ![k] = g]
      BY <2>3 DEF RemoveFromMulti
    <3>3. fwds'[k] = WithoutForwarder(k, f) /\ preferred'[k] = g
      BY <3>1, <3>2 DEF CoreType
    <3>4. DOMAIN fwds'[k] = DOMAIN fwds[k] \ {f}
      BY <3>3, ForwarderProperties
    <3>5. fwds'[k] # NoForwarders
      BY <2>0, <3>2, <3>4, MapProperties
    <3>6. \A j \in Keys : j # k => fwds'[j] = fwds[j] /\ preferred'[j] = preferred[j]
      BY <3>1, <3>2 DEF CoreType
    <3>7. ASSUME NEW j \in Keys PROVE Known(j)' /\ Usable(j)'
      BY <1>0, <2>1, <2>2, <3>1, <3>2, <3>3, <3>4, <3>5, <3>6
    <3> QED BY <3>7 DEF MeshConsistent
  <2>4. CASE RemoveSingle(k, f)
    <3>1. /\ fwds' = [fwds EXCEPT ![k] = NoForwarders] /\ preferred' = [preferred EXCEPT ![k] = None]
          /\ meshKeys' = IF k \in clients THEN meshKeys ELSE meshKeys \ {k}
      BY <2>4 DEF RemoveSingle
    <3>2. ASSUME NEW j \in Keys PROVE Known(j)' /\ Usable(j)'
      BY <1>0, <2>1, <2>2, <3>1 DEF CoreType
    <3> QED BY <3>2 DEF MeshConsistent
  <2> QED BY <1>4, <2>3, <2>4 DEF RemovePacketForwarder
<1>5. CASE UNCHANGED vars
  BY <1>1, <1>5 DEF vars
<1> QED BY <1>2, <1>3, <1>4, <1>5, Steps

-----------------------------------------------------------------------------
(* The gauges. *)

Live == {c \in Conns : st[c] \in {"up", "stopped"}}
DupKeys == {k \in Keys : dup[k] # {}}
DupConns == {c \in Conns : c \in dup[KeyOf[c]]}

\* GaugesExact, by the names of what is counted.
Counted ==
  /\ curClients = Cardinality(Live) /\ numLocalClientKeys = Cardinality(clients)
  /\ dupClientKeys = Cardinality(DupKeys) /\ dupClientConns = Cardinality(DupConns)

\* What is counted is finite.
LEMMA CountedFinite ==
  ASSUME CoreType
  PROVE  IsFiniteSet(Live) /\ IsFiniteSet(clients) /\ IsFiniteSet(DupKeys) /\ IsFiniteSet(DupConns)
<1>1. /\ Live \in SUBSET Conns /\ clients \in SUBSET Keys /\ DupKeys \in SUBSET Keys
      /\ DupConns \in SUBSET Conns
  BY DEF Live, DupKeys, DupConns, CoreType
<1> QED BY <1>1, FiniteAssumption, FS_Subset

\* One element more, or less.
LEMMA CardStep ==
  ASSUME NEW S, IsFiniteSet(S), NEW x
  PROVE  /\ x \notin S => IsFiniteSet(S \cup {x}) /\ Cardinality(S \cup {x}) = Cardinality(S) + 1
         /\ x \in S => IsFiniteSet(S \ {x}) /\ Cardinality(S \ {x}) = Cardinality(S) - 1
<1>1. /\ IsFiniteSet(S \cup {x})
      /\ Cardinality(S \cup {x}) = IF x \in S THEN Cardinality(S) ELSE Cardinality(S) + 1
  BY FS_AddElement, Zenon
<1>2. /\ IsFiniteSet(S \ {x})
      /\ Cardinality(S \ {x}) = IF x \in S THEN Cardinality(S) - 1 ELSE Cardinality(S)
  BY FS_RemoveElement, Zenon
<1> QED BY <1>1, <1>2

\* Two elements more, or less.
LEMMA CardStepTwo ==
  ASSUME NEW S, IsFiniteSet(S), NEW x, NEW y, x # y
  PROVE  /\ x \notin S /\ y \notin S => Cardinality(S \cup {x, y}) = Cardinality(S) + 2
         /\ x \in S /\ y \in S => Cardinality(S \ {x, y}) = Cardinality(S) - 2
<1>0. Cardinality(S) \in Nat
  BY FS_CardinalityType
<1>1. ASSUME x \notin S, y \notin S PROVE Cardinality(S \cup {x, y}) = Cardinality(S) + 2
  <2>1. IsFiniteSet(S \cup {x}) /\ Cardinality(S \cup {x}) = Cardinality(S) + 1
    BY <1>1, CardStep
  <2>2. y \notin S \cup {x}
    BY <1>1
  <2>3. Cardinality((S \cup {x}) \cup {y}) = Cardinality(S \cup {x}) + 1
    BY <2>1, <2>2, CardStep
  <2>4. (S \cup {x}) \cup {y} = S \cup {x, y}
    OBVIOUS
  <2> QED BY ONLY <1>0, <2>1, <2>3, <2>4
<1>2. ASSUME x \in S, y \in S PROVE Cardinality(S \ {x, y}) = Cardinality(S) - 2
  <2>1. IsFiniteSet(S \ {x}) /\ Cardinality(S \ {x}) = Cardinality(S) - 1
    BY <1>2, CardStep
  <2>2. y \in S \ {x}
    BY <1>2
  <2>3. Cardinality((S \ {x}) \ {y}) = Cardinality(S \ {x}) - 1
    BY <2>1, <2>2, CardStep
  <2>4. (S \ {x}) \ {y} = S \ {x, y}
    OBVIOUS
  <2>5. Cardinality(S \ {x, y}) = Cardinality(S \ {x}) - 1
    BY ONLY <2>3, <2>4, Zenon
  <2>6. (Cardinality(S) - 1) - 1 = Cardinality(S) - 2
    BY <1>0
  <2> QED BY ONLY <2>1, <2>5, <2>6, Zenon
<1> QED BY <1>1, <1>2

\* registerClient counts what it adds.
LEMMA RegisterCounted ==
  ASSUME CoreType, Sets, Counted, NEW c \in Conns, RegisterClient(c)
  PROVE  Counted'
<1> USE DEF setVars, gauges, meshVars, goneVars
<1> DEFINE k == KeyOf[c]
<1>0. k \in Keys /\ Members(k)
  BY KeyType DEF Sets
<1> HIDE DEF k
<1>1. IsFiniteSet(Live) /\ IsFiniteSet(clients) /\ IsFiniteSet(DupKeys) /\ IsFiniteSet(DupConns)
  BY CountedFinite
<1>2. curClients' = Cardinality(Live')
  <2>1. c \notin Live /\ Live' = Live \cup {c} /\ curClients' = curClients + 1
    BY DEF RegisterClient, Live, CoreType
  <2> QED BY <1>1, <2>1, CardStep DEF Counted
<1>3. numLocalClientKeys' = Cardinality(clients')
  <2>1. /\ clients' = clients \cup {k}
        /\ numLocalClientKeys' = numLocalClientKeys + (IF k \in clients THEN 0 ELSE 1)
    BY DEF RegisterClient, k
  <2>2. CASE k \in clients
    <3>1. Cardinality(clients) \in Nat
      BY <1>1, FS_CardinalityType
    <3>2. clients' = clients
      BY <2>1, <2>2
    <3>3. numLocalClientKeys' = numLocalClientKeys + 0
      BY <2>1, <2>2
    <3>4. numLocalClientKeys = Cardinality(clients)
      BY DEF Counted
    <3>5. numLocalClientKeys' = Cardinality(clients)
      BY ONLY <3>1, <3>3, <3>4
    <3> QED BY ONLY <3>2, <3>5, Zenon
  <2>3. CASE k \notin clients
    BY <1>1, <2>1, <2>3, CardStep DEF Counted
  <2> QED BY <2>2, <2>3
<1>4. c \notin DupConns /\ c \notin dup[k]
  <2>1. c \notin Connected(k)
    BY <1>0, ConnectedStep
  <2> QED BY <1>0, <2>1 DEF Members, DupConns, k
<1>5. dupClientKeys' = Cardinality(DupKeys') /\ dupClientConns' = Cardinality(DupConns')
  <2>1. CASE dup[k] = {} /\ active[k] = None
    <3>1. UNCHANGED <<dup, dupClientKeys, dupClientConns>>
      BY <2>1 DEF RegisterClient, k
    <3> QED BY <3>1 DEF Counted, DupKeys, DupConns
  <2>2. CASE dup[k] = {} /\ active[k] # None
    <3> DEFINE was == active[k]
    <3>1. /\ dup' = [dup EXCEPT ![k] = {c, was}]
          /\ dupClientKeys' = dupClientKeys + 1 /\ dupClientConns' = dupClientConns + 2
      BY <2>2 DEF RegisterClient, k
    <3>2. was \in Connected(k) /\ was \in Conns /\ KeyOf[was] = k /\ was # c
      BY <1>0, <2>2, ConnectedStep DEF Members, Connected
    <3> HIDE DEF was
    <3>3. k \notin DupKeys /\ DupKeys' = DupKeys \cup {k}
      BY <1>0, <2>2, <3>1 DEF DupKeys, CoreType
    <3>4. was \notin DupConns
      BY <2>2, <3>2 DEF DupConns
    <3>5. DupConns' = DupConns \cup {c, was}
      <4>1. ASSUME NEW d \in Conns
            PROVE  d \in dup'[KeyOf[d]] <=> d \in dup[KeyOf[d]] \/ d \in {c, was}
        <5>1. KeyOf[d] \in Keys
          BY KeyType
        <5>2. CASE KeyOf[d] = k
          BY <1>0, <2>2, <3>1, <5>2 DEF CoreType
        <5>3. CASE KeyOf[d] # k
          BY <3>1, <3>2, <5>1, <5>3 DEF CoreType, k
        <5> QED BY <5>2, <5>3
      <4> QED BY <3>2, <4>1 DEF DupConns
    <3>6. Cardinality(DupKeys \cup {k}) = Cardinality(DupKeys) + 1
      BY <1>1, <3>3, CardStep
    <3>7. Cardinality(DupConns \cup {c, was}) = Cardinality(DupConns) + 2
      BY <1>1, <1>4, <3>2, <3>4, CardStepTwo
    <3> QED BY <3>1, <3>3, <3>5, <3>6, <3>7 DEF Counted
  <2>3. CASE dup[k] # {}
    <3>1. /\ dup' = [dup EXCEPT ![k] = dup[k] \cup {c}]
          /\ UNCHANGED dupClientKeys /\ dupClientConns' = dupClientConns + 1
      BY <2>3 DEF RegisterClient, k
    <3>2. DupKeys' = DupKeys
      BY <1>0, <2>3, <3>1 DEF DupKeys, CoreType
    <3>3. DupConns' = DupConns \cup {c}
      <4>1. ASSUME NEW d \in Conns
            PROVE  d \in dup'[KeyOf[d]] <=> d \in dup[KeyOf[d]] \/ d = c
        <5>1. KeyOf[d] \in Keys
          BY KeyType
        <5>2. CASE KeyOf[d] = k
          BY <1>0, <3>1, <5>2 DEF CoreType
        <5>3. CASE KeyOf[d] # k
          BY <3>1, <5>1, <5>3 DEF CoreType, k
        <5> QED BY <5>2, <5>3
      <4> QED BY <4>1 DEF DupConns
    <3>4. Cardinality(DupConns \cup {c}) = Cardinality(DupConns) + 1
      BY <1>1, <1>4, CardStep
    <3> QED BY <3>1, <3>2, <3>3, <3>4 DEF Counted
  <2> QED BY <2>1, <2>2, <2>3
<1> QED BY <1>2, <1>3, <1>5 DEF Counted

\* unregisterClient counts what it removes.
LEMMA UnregisterCounted ==
  ASSUME CoreType, Sets, Counted, NEW c \in Conns, UnregisterClient(c)
  PROVE  Counted'
<1> USE DEF setVars, gauges, meshVars, goneVars
<1> DEFINE k == KeyOf[c]
<1>0. k \in Keys /\ Members(k) /\ c \in Connected(k)
  BY KeyType, ConnectedStep DEF Sets
<1> HIDE DEF k
<1>1. IsFiniteSet(Live) /\ IsFiniteSet(clients) /\ IsFiniteSet(DupKeys) /\ IsFiniteSet(DupConns)
  BY CountedFinite
<1>2. curClients' = Cardinality(Live')
  <2>1. st[c] = "stopped" /\ st' = [st EXCEPT ![c] = "gone"] /\ curClients' = curClients - 1
    BY DEF UnregisterClient
  <2>2. c \in Live /\ Live' = Live \ {c}
    BY <2>1 DEF Live, CoreType
  <2> QED BY <1>1, <2>1, <2>2, CardStep DEF Counted
<1>3. CASE UnregisterSingle(c)
  <2>1. /\ clients' = clients \ {k} /\ numLocalClientKeys' = numLocalClientKeys - 1
        /\ UNCHANGED <<dup, dupClientKeys, dupClientConns>>
    BY <1>3 DEF UnregisterSingle, k
  <2>2. k \in clients
    BY <1>0 DEF Members
  <2>3. numLocalClientKeys' = Cardinality(clients')
    BY <1>1, <2>1, <2>2, CardStep DEF Counted
  <2>4. DupKeys' = DupKeys /\ DupConns' = DupConns
    BY <2>1 DEF DupKeys, DupConns
  <2> QED BY <1>2, <2>1, <2>3, <2>4 DEF Counted
<1>4. ASSUME NEW o \in Conns, UnregisterToOne(c, o) PROVE Counted'
  <2>1. /\ c # o /\ dup[k] = {c, o} /\ dup' = [dup EXCEPT ![k] = {}]
        /\ UNCHANGED <<clients, numLocalClientKeys>>
        /\ dupClientKeys' = dupClientKeys - 1 /\ dupClientConns' = dupClientConns - 2
    BY <1>4 DEF UnregisterToOne, k
  <2>2. KeyOf[o] = k
    BY <1>0, <2>1 DEF Members, Connected
  <2>3. k \in DupKeys /\ DupKeys' = DupKeys \ {k}
    BY <1>0, <2>1 DEF DupKeys, CoreType
  <2>4. c \in DupConns /\ o \in DupConns
    BY <2>1, <2>2 DEF DupConns, k
  <2>5. DupConns' = DupConns \ {c, o}
    <3>1. ASSUME NEW d \in Conns
          PROVE  d \in dup'[KeyOf[d]] <=> d \in dup[KeyOf[d]] /\ d \notin {c, o}
      <4>1. KeyOf[d] \in Keys
        BY KeyType
      <4>2. CASE KeyOf[d] = k
        BY <1>0, <2>1, <4>2 DEF CoreType
      <4>3. CASE KeyOf[d] # k
        BY <2>1, <2>2, <4>1, <4>3 DEF CoreType, k
      <4> QED BY <4>2, <4>3
    <3> QED BY <3>1 DEF DupConns
  <2>6. Cardinality(DupKeys \ {k}) = Cardinality(DupKeys) - 1
    BY <1>1, <2>3, CardStep
  <2>7. Cardinality(DupConns \ {c, o}) = Cardinality(DupConns) - 2
    BY <1>1, <2>1, <2>4, CardStepTwo
  <2> QED BY <1>2, <2>1, <2>3, <2>5, <2>6, <2>7 DEF Counted
<1>5. CASE UnregisterDup(c)
  <2>1. /\ c \in dup[k] /\ Cardinality(dup[k]) > 2 /\ dup' = [dup EXCEPT ![k] = dup[k] \ {c}]
        /\ UNCHANGED <<clients, numLocalClientKeys, dupClientKeys>>
        /\ dupClientConns' = dupClientConns - 1
    BY <1>5 DEF UnregisterDup, k
  <2>2. dup[k] \ {c} # {}
    <3>1. dup[k] # {} /\ \E a, b \in dup[k] : a # b
      BY <1>0, <2>1 DEF Members
    <3> QED BY <3>1
  <2>3. DupKeys' = DupKeys
    BY <1>0, <2>1, <2>2 DEF DupKeys, CoreType
  <2>4. c \in DupConns
    BY <2>1 DEF DupConns, k
  <2>5. DupConns' = DupConns \ {c}
    <3>1. ASSUME NEW d \in Conns
          PROVE  d \in dup'[KeyOf[d]] <=> d \in dup[KeyOf[d]] /\ d # c
      <4>1. KeyOf[d] \in Keys
        BY KeyType
      <4>2. CASE KeyOf[d] = k
        BY <1>0, <2>1, <4>2 DEF CoreType
      <4>3. CASE KeyOf[d] # k
        BY <2>1, <4>1, <4>3 DEF CoreType, k
      <4> QED BY <4>2, <4>3
    <3> QED BY <3>1 DEF DupConns
  <2>6. Cardinality(DupConns \ {c}) = Cardinality(DupConns) - 1
    BY <1>1, <2>4, CardStep
  <2> QED BY <1>2, <2>1, <2>3, <2>5, <2>6 DEF Counted
<1> QED BY <1>3, <1>4, <1>5 DEF UnregisterClient

\* Every step keeps the gauges exact.
LEMMA GaugesStep ==
  ASSUME CoreType, Sets, GaugesExact, [Next]_vars
  PROVE  GaugesExact'
<1> USE DEF setVars, gauges, meshVars, goneVars
<1>0. Counted
  BY DEF GaugesExact, Counted, Live, DupKeys, DupConns
<1>1. ASSUME UNCHANGED <<clients, dup, gauges>>, Live' = Live PROVE Counted'
  <2>1. DupKeys' = DupKeys /\ DupConns' = DupConns
    BY <1>1 DEF DupKeys, DupConns
  <2> QED BY <1>0, <1>1, <2>1 DEF Counted
<1>2. ASSUME UNCHANGED <<st, clients, dup, gauges>> PROVE Counted'
  BY <1>1, <1>2 DEF Live
<1>3. ASSUME UNCHANGED vars PROVE Counted'
  <2>1. UNCHANGED <<st, clients, dup, gauges>>
    BY <1>3 DEF vars
  <2> QED BY <1>2, <2>1
<1>4. ASSUME NEW c \in Conns, ConnSteps(c) PROVE Counted'
  <2>1. CASE RegisterClient(c)
    BY <1>0, <2>1, RegisterCounted
  <2>2. CASE StopWriter(c)
    <3>1. UNCHANGED <<clients, dup, gauges>>
      BY <2>2 DEF StopWriter
    <3>2. Live' = Live
      BY <2>2 DEF StopWriter, Live, CoreType
    <3> QED BY <1>1, <3>1, <3>2
  <2>3. CASE UnregisterClient(c)
    BY <1>0, <2>3, UnregisterCounted
  <2>4. CASE NoteClientActivity(c)
    BY <1>2, <2>4, NoteStep
  <2>5. CASE ReadFrame(c) \/ AddWatcher(c) \/ \E k \in Keys : HandlePacket(c, k) \/ WritePacket(c, k)
    <3>1. UNCHANGED <<st, clients, dup, gauges>>
      BY <2>5 DEF ReadFrame, AddWatcher, HandlePacket, WritePacket
    <3> QED BY <1>2, <3>1
  <2> QED BY <1>4, <2>1, <2>2, <2>3, <2>4, <2>5 DEF ConnSteps
<1>5. ASSUME NEW k \in Keys, NEW f \in Forwarders,
             AddPacketForwarder(k, f) \/ RemovePacketForwarder(k, f)
      PROVE  Counted'
  <2>1. UNCHANGED <<st, clients, dup, gauges>>
    BY <1>5 DEF AddPacketForwarder, RemovePacketForwarder
  <2> QED BY <1>2, <2>1
<1>6. Counted'
  BY <1>3, <1>4, <1>5, Steps
<1> QED BY <1>6 DEF GaugesExact, Counted, Live, DupKeys, DupConns

-----------------------------------------------------------------------------
(* Who is told. *)

\* A handler runs on a connection that is up.
LEMMA HandledUp ==
  ASSUME Life, NEW c \in Conns, Handled(c)
  PROVE  st[c] = "up"
BY DEF Handled, Life

\* Every step keeps the watchers aware of the keys that come and go.
LEMMA WatchersStep ==
  ASSUME CoreType, Life, Sets, Unaware, WatchersAware, [Next]_vars
  PROVE  Unaware' /\ WatchersAware'
<1> USE DEF setVars, gauges, meshVars, goneVars
<1>0. watchers \subseteq MeshConns /\ MeshConns \subseteq Conns
  BY ConnsAssumption DEF CoreType
<1>1. ASSUME UNCHANGED <<policy, clients, watchers, view>>,
             \A w \in MeshConns : st'[w] # "gone" => st[w] # "gone"
      PROVE  Unaware' /\ WatchersAware'
  BY <1>1 DEF Unaware, WatchersAware
<1>2. ASSUME NEW c \in Conns, ConnSteps(c) PROVE Unaware' /\ WatchersAware'
  <2>0. KeyOf[c] \in Keys
    BY KeyType
  <2>1. CASE RegisterClient(c)
    <3>1. /\ clients' = clients \cup {KeyOf[c]} /\ UNCHANGED <<policy, watchers>>
          /\ st[c] = "new" /\ st' = [st EXCEPT ![c] = "up"] /\ Broadcast({KeyOf[c]}, {})
      BY <2>1 DEF RegisterClient
    <3>2. ASSUME NEW w \in MeshConns
          PROVE  view'[w] = IF w \in watchers THEN view[w] \cup {KeyOf[c]} ELSE view[w]
      BY <3>1 DEF Broadcast
    <3>3. Unaware'
      BY <1>0, <3>1, <3>2 DEF Unaware, CoreType
    <3>4. WatchersAware'
      BY <1>0, <3>1, <3>2 DEF WatchersAware
    <3> QED BY <3>3, <3>4
  <2>2. CASE StopWriter(c)
    <3>1. UNCHANGED <<policy, clients, watchers, view>>
      BY <2>2 DEF StopWriter
    <3>2. \A w \in MeshConns : st'[w] # "gone" => st[w] # "gone"
      BY <1>0, <2>2 DEF StopWriter, CoreType
    <3> QED BY <1>1, <3>1, <3>2
  <2>3. CASE UnregisterClient(c)
    <3>1. /\ watchers' = watchers \ {c} /\ UNCHANGED policy
          /\ st' = [st EXCEPT ![c] = "gone"]
      BY <2>3 DEF UnregisterClient
    <3>2. \A w \in MeshConns : w \notin watchers' /\ st'[w] # "gone"
                               => w \notin watchers /\ st[w] # "gone"
      BY <1>0, <3>1 DEF CoreType
    <3>3. CASE UnregisterSingle(c)
      <4>1. clients' = clients \ {KeyOf[c]} /\ Broadcast({}, {KeyOf[c]})
        BY <3>3 DEF UnregisterSingle
      <4>2. ASSUME NEW w \in MeshConns
            PROVE  view'[w] = IF w \in watchers THEN view[w] \ {KeyOf[c]} ELSE view[w]
        BY <4>1 DEF Broadcast
      <4>3. Unaware'
        BY <3>2, <4>2 DEF Unaware
      <4>4. WatchersAware'
        BY <1>0, <3>1, <4>1, <4>2 DEF WatchersAware
      <4> QED BY <4>3, <4>4
    <3>4. CASE UnregisterDup(c) \/ \E o \in Conns : UnregisterToOne(c, o)
      <4>1. UNCHANGED <<clients, view>>
        BY <3>4 DEF UnregisterDup, UnregisterToOne
      <4> QED BY <3>1, <3>2, <4>1 DEF Unaware, WatchersAware
    <3> QED BY <2>3, <3>3, <3>4 DEF UnregisterClient
  <2>4. CASE NoteClientActivity(c)
    <3>1. UNCHANGED <<policy, clients, watchers, view>> /\ UNCHANGED st
      BY <2>4, NoteStep
    <3> QED BY <1>1, <3>1
  <2>5. CASE ReadFrame(c) \/ \E k \in Keys : HandlePacket(c, k) \/ WritePacket(c, k)
    <3>1. UNCHANGED <<policy, clients, watchers, view>> /\ UNCHANGED st
      BY <2>5 DEF ReadFrame, HandlePacket, WritePacket
    <3> QED BY <1>1, <3>1
  <2>6. CASE AddWatcher(c)
    <3> DEFINE P == {k \in clients : active[k] # None}
    <3>1. /\ c \in MeshConns /\ watchers' = watchers \cup {c}
          /\ view' = [view EXCEPT ![c] = view[c] \cup P] /\ UNCHANGED <<policy, clients, st>>
      BY <2>6 DEF AddWatcher
    <3>2. st[c] = "up"
      BY <2>6, HandledUp DEF AddWatcher
    <3>3. P \subseteq clients /\ (policy = "lastWriterIsActive" => P = clients)
      BY DEF Sets, Members, CoreType
    <3> HIDE DEF P
    <3>4. view[c] \subseteq clients
      BY <3>1, <3>2 DEF Unaware, WatchersAware
    <3>5. \A w \in MeshConns : view'[w] = IF w = c THEN view[c] \cup P ELSE view[w]
      BY <3>1 DEF CoreType
    <3>6. Unaware'
      BY <3>1, <3>5 DEF Unaware
    <3>7. WatchersAware'
      BY <1>0, <3>1, <3>3, <3>4, <3>5 DEF WatchersAware
    <3> QED BY <3>6, <3>7
  <2> QED BY <1>2, <2>1, <2>2, <2>3, <2>4, <2>5, <2>6 DEF ConnSteps
<1>3. ASSUME NEW k \in Keys, NEW f \in Forwarders,
             AddPacketForwarder(k, f) \/ RemovePacketForwarder(k, f)
      PROVE  Unaware' /\ WatchersAware'
  <2>1. UNCHANGED <<policy, clients, watchers, view>> /\ UNCHANGED st
    BY <1>3 DEF AddPacketForwarder, RemovePacketForwarder
  <2> QED BY <1>1, <2>1
<1>4. CASE UNCHANGED vars
  <2>1. UNCHANGED <<policy, clients, watchers, view>> /\ UNCHANGED st
    BY <1>4 DEF vars
  <2> QED BY <1>1, <2>1
<1> QED BY <1>2, <1>3, <1>4, Steps

\* Who watches a key that goes has been told of it.
LEMMA PeerGoneWatched ==
  ASSUME CoreType, DepartureWatched, NEW k \in Keys, NotePeerGone(k), UNCHANGED sawSrc,
         \A c \in Conns : st'[c] = "up" <=> st[c] = "up"
  PROVE  DepartureWatched'
<1>1. \A c \in Conns : told'[c] = IF c \in goneWatch[k] THEN told[c] \cup {k} ELSE told[c]
  BY DEF NotePeerGone
<1>2. \A j \in Keys : goneWatch'[j] = IF j = k THEN {} ELSE goneWatch[j]
  BY DEF NotePeerGone, CoreType
<1>3. ASSUME NEW c \in Conns, st'[c] = "up", NEW j \in sawSrc[c]
      PROVE  c \in goneWatch'[j] \/ j \in told'[c]
  <2>1. j \in Keys /\ (c \in goneWatch[j] \/ j \in told[c])
    BY <1>3 DEF DepartureWatched, CoreType
  <2> QED BY <1>1, <1>2, <2>1
<1>4. ASSUME NEW j \in Keys, NEW c \in goneWatch'[j] PROVE st'[c] = "up"
  <2>1. c \in goneWatch[j] /\ c \in Conns
    BY <1>2 DEF CoreType
  <2> QED BY <2>1 DEF DepartureWatched
<1> QED BY <1>3, <1>4 DEF DepartureWatched

\* Every step keeps departures watched.
LEMMA DepartureStep ==
  ASSUME CoreType, Life, DepartureWatched, [Next]_vars
  PROVE  DepartureWatched'
<1> USE DEF setVars, gauges, meshVars, goneVars
<1>1. ASSUME UNCHANGED <<sawSrc, goneVars>>, \A c \in Conns : st'[c] = "up" <=> st[c] = "up"
      PROVE  DepartureWatched'
  <2>1. ASSUME NEW k \in Keys, NEW c \in goneWatch[k] PROVE c \in Conns /\ st[c] = "up"
    BY DEF DepartureWatched, CoreType
  <2> QED BY <1>1, <2>1 DEF DepartureWatched
<1>2. ASSUME NEW c \in Conns, ConnSteps(c) PROVE DepartureWatched'
  <2>0. KeyOf[c] \in Keys
    BY KeyType
  <2>1. CASE RegisterClient(c)
    <3>1. st[c] = "new" /\ st' = [st EXCEPT ![c] = "up"] /\ UNCHANGED <<sawSrc, goneWatch, told>>
      BY <2>1 DEF RegisterClient
    <3>2. sawSrc[c] = {}
      BY <3>1 DEF Life
    <3>3. \A d \in Conns : st[d] = "up" => st'[d] = "up"
      BY <3>1 DEF CoreType
    <3>4. \A d \in Conns : d # c => st'[d] = st[d]
      BY <3>1 DEF CoreType
    <3>5. ASSUME NEW k \in Keys, NEW d \in goneWatch[k] PROVE d \in Conns /\ st[d] = "up"
      BY DEF DepartureWatched, CoreType
    <3> QED BY <3>1, <3>2, <3>3, <3>4, <3>5 DEF DepartureWatched
  <2>2. CASE StopWriter(c)
    <3>1. /\ st' = [st EXCEPT ![c] = "stopped"] /\ UNCHANGED <<sawSrc, told>>
          /\ goneWatch' = [k \in Keys |-> goneWatch[k] \ {c}]
      BY <2>2 DEF StopWriter
    <3>2. ASSUME NEW d \in Conns, st'[d] = "up", NEW k \in sawSrc[d]
          PROVE  d \in goneWatch'[k] \/ k \in told[d]
      <4>1. d # c /\ st[d] = "up"
        BY <3>1, <3>2 DEF CoreType
      <4>2. k \in Keys /\ (d \in goneWatch[k] \/ k \in told[d])
        BY <4>1 DEF DepartureWatched, CoreType
      <4> QED BY <3>1, <4>1, <4>2
    <3>3. ASSUME NEW k \in Keys, NEW d \in goneWatch'[k] PROVE st'[d] = "up"
      <4>1. d \in goneWatch[k] /\ d # c /\ d \in Conns
        BY <3>1 DEF CoreType
      <4> QED BY <3>1, <4>1 DEF DepartureWatched, CoreType
    <3> QED BY <3>1, <3>2, <3>3 DEF DepartureWatched
  <2>3. CASE UnregisterClient(c)
    <3>1. st[c] = "stopped" /\ st' = [st EXCEPT ![c] = "gone"] /\ UNCHANGED sawSrc
      BY <2>3 DEF UnregisterClient
    <3>2. \A d \in Conns : st'[d] = "up" <=> st[d] = "up"
      BY <3>1 DEF CoreType
    <3>3. NotePeerGone(KeyOf[c]) \/ UNCHANGED goneVars
      BY <2>3 DEF UnregisterClient, UnregisterSingle, UnregisterToOne, UnregisterDup
    <3>4. CASE NotePeerGone(KeyOf[c])
      BY <2>0, <3>1, <3>2, <3>4, PeerGoneWatched
    <3>5. CASE UNCHANGED goneVars
      BY <1>1, <3>1, <3>2, <3>5
    <3> QED BY <3>3, <3>4, <3>5
  <2>4. CASE NoteClientActivity(c)
    <3>1. UNCHANGED <<sawSrc, goneVars>> /\ UNCHANGED st
      BY <2>4, NoteStep
    <3> QED BY <1>1, <3>1
  <2>5. CASE ReadFrame(c) \/ AddWatcher(c) \/ \E k \in Keys : HandlePacket(c, k)
    <3>1. UNCHANGED <<sawSrc, goneVars>> /\ UNCHANGED st
      BY <2>5 DEF ReadFrame, AddWatcher, HandlePacket
    <3> QED BY <1>1, <3>1
  <2>6. ASSUME NEW k \in Keys, WritePacket(c, k) PROVE DepartureWatched'
    <3>1. /\ st[c] = "up" /\ UNCHANGED <<st, told>>
          /\ sawSrc' = [sawSrc EXCEPT ![c] = sawSrc[c] \cup {k}]
          /\ goneWatch' = IF k \in sawSrc[c] THEN goneWatch
                          ELSE [goneWatch EXCEPT ![k] = goneWatch[k] \cup {c}]
      BY <2>6 DEF WritePacket
    <3>2. \A j \in Keys : goneWatch[j] \subseteq goneWatch'[j] /\ goneWatch'[j] \subseteq goneWatch[j] \cup {c}
      BY <3>1 DEF CoreType
    <3>3. k \notin sawSrc[c] => c \in goneWatch'[k]
      BY <3>1 DEF CoreType
    <3>4. \A d \in Conns : sawSrc'[d] = IF d = c THEN sawSrc[c] \cup {k} ELSE sawSrc[d]
      BY <3>1 DEF CoreType
    <3>5. ASSUME NEW d \in Conns, st[d] = "up", NEW j \in sawSrc'[d]
          PROVE  d \in goneWatch'[j] \/ j \in told[d]
      <4>1. CASE j \in sawSrc[d]
        <5>1. j \in Keys /\ (d \in goneWatch[j] \/ j \in told[d])
          BY <3>5, <4>1 DEF DepartureWatched, CoreType
        <5> QED BY <3>2, <5>1
      <4>2. CASE j \notin sawSrc[d]
        BY <3>3, <3>4, <3>5, <4>2
      <4> QED BY <4>1, <4>2
    <3>6. ASSUME NEW j \in Keys, NEW d \in goneWatch'[j] PROVE st[d] = "up"
      BY <3>1, <3>2 DEF DepartureWatched
    <3> QED BY <3>1, <3>5, <3>6 DEF DepartureWatched
  <2> QED BY <1>2, <2>1, <2>2, <2>3, <2>4, <2>5, <2>6 DEF ConnSteps
<1>3. ASSUME NEW k \in Keys, NEW f \in Forwarders,
             AddPacketForwarder(k, f) \/ RemovePacketForwarder(k, f)
      PROVE  DepartureWatched'
  <2>1. UNCHANGED sawSrc /\ UNCHANGED st
    BY <1>3 DEF AddPacketForwarder, RemovePacketForwarder
  <2>2. NotePeerGone(k) \/ UNCHANGED goneVars
    BY <1>3 DEF AddPacketForwarder, RemovePacketForwarder, RemoveFromMulti, RemoveSingle
  <2>3. CASE NotePeerGone(k)
    BY <2>1, <2>3, PeerGoneWatched
  <2>4. CASE UNCHANGED goneVars
    BY <1>1, <2>1, <2>4
  <2> QED BY <2>2, <2>3, <2>4
<1>4. CASE UNCHANGED vars
  <2>1. UNCHANGED <<sawSrc, goneVars>> /\ UNCHANGED st
    BY <1>4 DEF vars
  <2> QED BY <1>1, <2>1
<1> QED BY <1>2, <1>3, <1>4, Steps

-----------------------------------------------------------------------------
(* The theorems. *)

\* A server without connections is sound.
LEMMA InitInv == Init => IInv
<1> SUFFICES ASSUME Init PROVE IInv
  OBVIOUS
<1>0. NoForwarders \in ForwarderMaps
  <2>1. NoForwarders \in [{} -> 0..(IdxMod - 1)]
    BY DEF NoForwarders
  <2> QED BY <2>1, MapType
<1>1. CoreType
  BY <1>0, ConnsAssumption DEF Init, CoreType
<1>2. Life
  BY DEF Init, Life
<1>3. \A k \in Keys : Connected(k) = {}
  BY DEF Init, Connected
<1>4. Sets
  BY <1>3 DEF Init, Sets, Members, HistoryInv, Holds, Distinct
<1>5. DisabledSilent /\ MeshConsistent
  BY DEF Init, DisabledSilent, MeshConsistent, Connected
<1>6. GaugesExact
  <2>1. /\ {c \in Conns : st[c] \in {"up", "stopped"}} = {} /\ clients = {}
        /\ {k \in Keys : dup[k] # {}} = {} /\ {c \in Conns : c \in dup[KeyOf[c]]} = {}
    BY KeyType DEF Init
  <2>2. Cardinality({}) = 0
    BY FS_EmptySet
  <2> QED BY <2>1, <2>2 DEF Init, GaugesExact
<1>7. Unaware /\ WatchersAware /\ DepartureWatched
  BY DEF Init, Unaware, WatchersAware, DepartureWatched
<1> QED BY <1>1, <1>2, <1>4, <1>5, <1>6, <1>7 DEF IInv

\* Every step keeps the inductive invariant.
LEMMA NextInv == IInv /\ [Next]_vars => IInv'
<1> SUFFICES ASSUME IInv, [Next]_vars PROVE IInv'
  OBVIOUS
<1>0. /\ CoreType /\ Life /\ Sets /\ DisabledSilent /\ MeshConsistent
      /\ GaugesExact /\ Unaware /\ WatchersAware /\ DepartureWatched
  BY DEF IInv
<1>1. CoreType'
  BY <1>0, TypeStep
<1>2. Sets'
  BY <1>0, SetsStep
<1>3. Life'
  BY <1>0, LifeStep
<1>4. DisabledSilent'
  BY <1>0, <1>2, DisabledStep
<1>5. MeshConsistent'
  BY <1>0, <1>1, MeshStep
<1>6. GaugesExact'
  BY <1>0, GaugesStep
<1>7. Unaware' /\ WatchersAware' /\ DepartureWatched'
  BY <1>0, WatchersStep, DepartureStep
<1> QED BY <1>1, <1>2, <1>3, <1>4, <1>5, <1>6, <1>7 DEF IInv

\* What the inductive invariant says of the client sets, with cardinalities.
LEMMA InvSets == IInv => SetsExact /\ HistorySound
<1> SUFFICES ASSUME IInv PROVE SetsExact /\ HistorySound
  OBVIOUS
<1>0. CoreType /\ Sets
  BY DEF IInv
<1>1. ASSUME NEW k \in Keys
      PROVE  dup[k] = IF Cardinality(Connected(k)) > 1 THEN Connected(k) ELSE {}
  <2>1. IsFiniteSet(Connected(k))
    <3>1. Connected(k) \in SUBSET Conns
      BY DEF Connected
    <3> QED BY <3>1, FiniteAssumption, FS_Subset
  <2>2. Cardinality(Connected(k)) > 1 <=> \E a, b \in Connected(k) : a # b
    BY <2>1, CardTwo
  <2>3. Members(k)
    BY <1>0 DEF Sets
  <2>4. CASE dup[k] = {}
    BY <2>2, <2>3, <2>4 DEF Members
  <2>5. CASE dup[k] # {}
    BY <2>2, <2>3, <2>5 DEF Members
  <2> QED BY <2>4, <2>5
<1>2. SetsExact
  BY <1>0, <1>1 DEF SetsExact, Sets, Members
<1>3. ASSUME NEW k \in Keys
      PROVE  /\ \A i \in DOMAIN history[k] : history[k][i] \in dup[k]
             /\ \A i, j \in DOMAIN history[k] : history[k][i] = history[k][j] => i = j
             /\ dup[k] # {} => last[k] \in dup[k]
  <2>1. history[k] \in Seq(Conns) /\ HistoryInv(k)
    BY <1>0 DEF Sets, CoreType
  <2>2. DOMAIN history[k] = 1..Len(history[k]) /\ \A i \in 1..Len(history[k]) : history[k][i] \in Conns
    BY <2>1
  <2> QED BY <2>1, <2>2 DEF HistoryInv, Holds, Distinct
<1>4. HistorySound
  BY <1>3 DEF HistorySound
<1> QED BY <1>2, <1>4

\* The gauges are never negative.
LEMMA InvType == IInv => TypeOK
<1> SUFFICES ASSUME IInv PROVE TypeOK
  OBVIOUS
<1>0. CoreType /\ Counted
  BY DEF IInv, GaugesExact, Counted, Live, DupKeys, DupConns
<1>1. curClients \in Nat /\ numLocalClientKeys \in Nat /\ dupClientKeys \in Nat /\ dupClientConns \in Nat
  BY <1>0, CountedFinite, FS_CardinalityType DEF Counted
<1>2. ASSUME NEW k \in Keys
      PROVE  /\ DOMAIN fwds[k] \subseteq Forwarders
             /\ \A f \in DOMAIN fwds[k] : fwds[k][f] \in 0..(IdxMod - 1)
  BY <1>0, MapProperties DEF CoreType
<1> QED BY <1>0, <1>1, <1>2 DEF CoreType, TypeOK

\* The inductive invariant holds, whatever connects, leaves, sends or forwards.
LEMMA Invariance == Spec => []IInv
<1> QED BY InitInv, NextInv, PTL DEF Spec

\* registerClient, unregisterClient, noteClientActivity and the forwarders keep the
\* client sets, the histories, the disabled connections and clientsMesh sound.
THEOREM RegistrySoundHolds == Spec => []RegistrySound
<1>1. IInv => RegistrySound
  BY InvSets, InvType DEF RegistrySound, IInv
<1> QED BY <1>1, Invariance, PTL

\* The gauges of the server count what its tables hold: none is counted twice or
\* forgotten by registerClient and unregisterClient.
THEOREM GaugesExactHolds == Spec => []GaugesExact
<1>1. IInv => GaugesExact
  BY DEF IInv
<1> QED BY <1>1, Invariance, PTL

\* broadcastPeerStateChangeLocked, addWatcher, noteSendFromSrc and
\* notePeerGoneFromRegionLocked leave nobody with a peer that has gone.
THEOREM PeersAwareHolds == Spec => []PeersAware
<1>1. IInv => PeersAware
  BY DEF IInv, PeersAware
<1> QED BY <1>1, Invariance, PTL
=============================================================================
