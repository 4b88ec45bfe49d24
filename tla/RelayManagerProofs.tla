------------------------- MODULE RelayManagerProofs -------------------------
(***************************************************************************)
(* Proofs about relayManager, for any finite set of servers, any           *)
(* endpoints, keys, VNIs, addresses and messages, any limitPings, and any  *)
(* number of calls.                                                        *)
(*                                                                         *)
(* TypeOK is inductive.  The rest of the invariant is stated for one work  *)
(* at a time: HsIndexes and AllocIndexes say that the maps of the loop are *)
(* indexes of one table (Indexed), HsAccounted and AllocAccounted who is   *)
(* in it, and LoopInv what the agenda of the loop holds.  The steps are    *)
(* first sorted by what they do to the handshakes (HsKinds), to the        *)
(* allocations (AllocKinds) and to the loop (LoopKinds).                   *)
(***************************************************************************)
EXTENDS RelayManager, QueueLemmas, FiniteSetTheorems

\* f is a map from a part of S to T.
Partial(f, S, T) == DOMAIN f \subseteq S /\ \A x \in DOMAIN f : f[x] \in T

\* What With and Without change of a map.
LEMMA MapFacts ==
  ASSUME NEW f, NEW x, NEW v
  PROVE  /\ DOMAIN With(f, x, v) = DOMAIN f \cup {x}
         /\ With(f, x, v)[x] = v
         /\ \A y \in DOMAIN f : y # x => With(f, x, v)[y] = f[y]
         /\ DOMAIN Without(f, x) = DOMAIN f \ {x}
         /\ \A y \in DOMAIN f \ {x} : Without(f, x)[y] = f[y]
BY DEF With, Without, Restrict

\* What WithAll changes of a map.
LEMMA WithAllFacts ==
  ASSUME NEW f, NEW g
  PROVE  /\ DOMAIN WithAll(f, g) = DOMAIN f \cup DOMAIN g
         /\ \A y \in DOMAIN g : WithAll(f, g)[y] = g[y]
         /\ \A y \in DOMAIN f \ DOMAIN g : WithAll(f, g)[y] = f[y]
BY DEF WithAll

\* The maps stay maps from S to T.
LEMMA PartialMaps ==
  ASSUME NEW f, NEW S, NEW T, Partial(f, S, T)
  PROVE  /\ \A x \in S, v \in T : Partial(With(f, x, v), S, T)
         /\ \A x : Partial(Without(f, x), S, T)
         /\ \A g : Partial(g, S, T) => Partial(WithAll(f, g), S, T)
         /\ \A U : T \subseteq U => Partial(f, S, U)
<1>1. ASSUME NEW x \in S, NEW v \in T PROVE Partial(With(f, x, v), S, T)
  BY DEF Partial, With
<1>2. ASSUME NEW x PROVE Partial(Without(f, x), S, T)
  BY DEF Partial, Without, Restrict
<1>3. ASSUME NEW g, Partial(g, S, T) PROVE Partial(WithAll(f, g), S, T)
  BY <1>3 DEF Partial, WithAll
<1>4. ASSUME NEW U, T \subseteq U PROVE Partial(f, S, U)
  BY <1>4 DEF Partial
<1> QED BY <1>1, <1>2, <1>3, <1>4

\* The range of a map, by its elements.
LEMMA RangePartial ==
  ASSUME NEW f, NEW S, NEW T
  PROVE  Partial(f, S, T) <=> DOMAIN f \subseteq S /\ Range(f) \subseteq T
BY DEF Partial, Range

\* A sequence of elements of S is one of elements of a larger set.
LEMMA SeqWider ==
  ASSUME NEW S, NEW T, S \subseteq T, NEW q \in Seq(S)
  PROVE  q \in Seq(T)
OBVIOUS

\* A task put before the agenda.
LEMMA PushFacts ==
  ASSUME NEW S, NEW q \in Seq(S), NEW x \in S
  PROVE  /\ <<x>> \o q \in Seq(S) /\ <<x>> \o q # <<>>
         /\ q # <<>> => (<<x>> \o q)[Len(<<x>> \o q)] = q[Len(q)]
<1>1. <<x>> \in Seq(S) /\ Len(<<x>>) = 1 /\ Len(q) \in Nat
  OBVIOUS
<1>2. <<x>> \o q \in Seq(S) /\ Len(<<x>> \o q) = 1 + Len(q)
  BY <1>1
<1>3. <<x>> \o q # <<>>
  BY <1>1, <1>2
<1>4. ASSUME q # <<>> PROVE (<<x>> \o q)[Len(<<x>> \o q)] = q[Len(q)]
  <2>1. Len(q) >= 1
    BY <1>4, <1>1
  <2> QED BY <1>1, <1>2, <2>1
<1> QED BY <1>2, <1>3, <1>4

\* A task taken from the agenda.
LEMMA PopFacts ==
  ASSUME NEW S, NEW q \in Seq(S), q # <<>>
  PROVE  /\ Head(q) \in S /\ Tail(q) \in Seq(S) /\ <<>> \o Tail(q) = Tail(q)
         /\ Head(q) = q[1] /\ Len(q) \in Nat /\ Len(q) >= 1
         /\ Tail(q) = <<>> <=> Len(q) = 1
         /\ Tail(q) # <<>> => Tail(q)[Len(Tail(q))] = q[Len(q)]
<1>1. /\ Tail(q) \in Seq(S) /\ Len(q) \in Nat \ {0} /\ Len(Tail(q)) = Len(q) - 1
      /\ Head(q) = q[1] /\ q[1] \in S
      /\ \A i \in 1..Len(q) - 1 : Tail(q)[i] = q[i + 1]
  BY TailProperties
<1>2. <<>> \o Tail(q) = Tail(q)
  BY <1>1, ConcatEmptySeq, Zenon
<1>3. Tail(q) = <<>> <=> Len(q) = 1
  <2>1. Tail(q) = <<>> <=> Len(Tail(q)) = 0
    BY <1>1, EmptySeq
  <2> QED BY <1>1, <2>1
<1>4. ASSUME Tail(q) # <<>> PROVE Tail(q)[Len(Tail(q))] = q[Len(q)]
  BY <1>1, <1>3, <1>4
<1> QED BY <1>1, <1>2, <1>3, <1>4

\* A task put before the agenda, seen as put before its tail.
LEMMA PushTwo ==
  ASSUME NEW S, NEW q \in Seq(S), q # <<>>, NEW x \in S
  PROVE  <<x>> \o q = <<x, Head(q)>> \o Tail(q)
<1>1. /\ Tail(q) \in Seq(S) /\ Len(q) \in Nat \ {0} /\ Len(Tail(q)) = Len(q) - 1
      /\ Head(q) = q[1] /\ q[1] \in S
      /\ \A i \in 1..Len(q) - 1 : Tail(q)[i] = q[i + 1]
  BY TailProperties
<1> QED BY <1>1

\* Tasks p in the place of the head of q.
LEMMA Spliced ==
  ASSUME NEW S, NEW q \in Seq(S), q # <<>>, NEW p \in Seq(S)
  PROVE  /\ Range(q) = {Head(q)} \cup Range(Tail(q))
         /\ Range(p \o Tail(q)) = Range(p) \cup Range(Tail(q))
         /\ Len(q) = 1 => q[Len(q)] = Head(q) /\ Range(Tail(q)) = {}
         /\ Len(q) # 1 => p \o Tail(q) # <<>> /\ (p \o Tail(q))[Len(p \o Tail(q))] = q[Len(q)]
<1>1. /\ Tail(q) \in Seq(S) /\ Len(q) \in Nat \ {0} /\ Len(Tail(q)) = Len(q) - 1
      /\ Head(q) = q[1] /\ q[1] \in S
      /\ \A i \in 1..Len(q) - 1 : Tail(q)[i] = q[i + 1]
  BY TailProperties
<1>2. PICK r : r = Tail(q)
  OBVIOUS
<1>3. /\ r \in Seq(S) /\ Len(r) \in Nat /\ Len(p) \in Nat /\ DOMAIN r = 1 .. Len(r)
      /\ DOMAIN p = 1 .. Len(p) /\ DOMAIN q = 1 .. Len(q)
  BY <1>1, <1>2
<1>c. PICK c : c = p \o r
  OBVIOUS
<1>4. /\ c \in Seq(S) /\ Len(c) = Len(p) + Len(r) /\ DOMAIN c = 1 .. Len(p) + Len(r)
      /\ \A i \in 1 .. Len(p) : c[i] = p[i]
      /\ \A i \in 1 .. Len(r) : c[Len(p) + i] = r[i]
  BY <1>3, <1>c
<1>5. Range(q) = {Head(q)} \cup Range(r)
  <2>1. \A i \in DOMAIN q : i = 1 \/ (i - 1 \in DOMAIN r /\ r[i - 1] = q[i])
    BY <1>1, <1>2, <1>3
  <2>2. \A i \in DOMAIN r : i + 1 \in DOMAIN q /\ q[i + 1] = r[i]
    BY <1>1, <1>2, <1>3
  <2>3. 1 \in DOMAIN q
    BY <1>1, <1>3
  <2> QED BY <1>1, <2>1, <2>2, <2>3 DEF Range
<1>6. Range(c) = Range(p) \cup Range(r)
  <2>1. ASSUME NEW i \in DOMAIN c
        PROVE  \/ i \in DOMAIN p /\ c[i] = p[i]
               \/ i - Len(p) \in DOMAIN r /\ c[i] = r[i - Len(p)]
    <3>1. CASE i <= Len(p)
      BY <1>3, <1>4, <3>1
    <3>2. CASE ~(i <= Len(p))
      <4>1. i - Len(p) \in 1 .. Len(r) /\ i = Len(p) + (i - Len(p))
        BY <1>3, <1>4, <3>2
      <4> QED BY <1>3, <1>4, <4>1
    <3> QED BY <3>1, <3>2
  <2>2. \A i \in DOMAIN p : i \in DOMAIN c /\ c[i] = p[i]
    BY <1>3, <1>4
  <2>3. \A i \in DOMAIN r : Len(p) + i \in DOMAIN c /\ c[Len(p) + i] = r[i]
    BY <1>3, <1>4
  <2> QED BY <2>1, <2>2, <2>3 DEF Range
<1>7. Len(q) = 1 => q[Len(q)] = Head(q) /\ Range(r) = {}
  BY <1>1, <1>2, <1>3 DEF Range
<1>8. ASSUME Len(q) # 1 PROVE c # <<>> /\ c[Len(c)] = q[Len(q)]
  <2>1. Len(r) >= 1 /\ r[Len(r)] = q[Len(q)]
    BY <1>1, <1>2, <1>8
  <2> QED BY <1>3, <1>4, <2>1
<1> QED BY <1>2, <1>c, <1>5, <1>6, <1>7, <1>8

-----------------------------------------------------------------------------
(* Types.                                                                    *)

ARecords == [ep : Endpoints, best : Best, keys : DiscoKeys, cand : Candidates]
AStates == [pc : {"wait", "return", "offer", "gone"}, se : ServerEndpoints \cup {None}]
HRecords == [ep : Endpoints, se : ServerEndpoints]
HStates == [pc : {"begin", "wait", "return", "offer", "gone"}, answered : BOOLEAN,
            pings : 0 .. LimitPings, pong : BOOLEAN]

ConfigType ==
  /\ Partial(servers, Servers, Regions) /\ hasServers \in BOOLEAN
  /\ disco \in [Endpoints -> DiscoKeys \cup {NoDisco}]

AllocType ==
  /\ Partial(allocByRelay, Endpoints \X Candidates, DOMAIN aWork)
  /\ Partial(allocByKeys, Servers \X DiscoKeys, DOMAIN aWork)
  /\ aWork \in Seq(ARecords) /\ aState \in Seq(AStates) /\ Len(aState) = Len(aWork)

HsType ==
  /\ Partial(hsByDisco, Endpoints \X ServerDiscos, DOMAIN hWork)
  /\ Partial(hsBySDV, ServerDiscos \X VNIs, DOMAIN hWork)
  /\ Partial(awaitingPong, DOMAIN hWork, AddrPorts \X VNIs)
  /\ Partial(apvToWork, AddrPorts \X VNIs, DOMAIN hWork)
  /\ hWork \in Seq(HRecords) /\ hState \in Seq(HStates) /\ ready \in Seq(Nat)
  /\ Len(hState) = Len(hWork) /\ Len(ready) = Len(hWork)

DoneType ==
  /\ doneCh \subseteq Works /\ canceled \subseteq Works
  /\ discoInfo \in [ServerDiscos -> SUBSET DOMAIN hWork]

LoopType ==
  /\ loop \in {"running", "stopped"} /\ agenda \in Seq(Tasks)
  /\ event \in {None, Other} \cup StopCalls

\* TypeOK by its parts.
LEMMA TypeParts ==
  TypeOK <=> ConfigType /\ AllocType /\ HsType /\ DoneType /\ LoopType
<1>1. TypeOK => ConfigType /\ AllocType /\ HsType /\ DoneType /\ LoopType
  <2> SUFFICES ASSUME TypeOK PROVE ConfigType /\ AllocType /\ HsType /\ DoneType /\ LoopType
    OBVIOUS
  <2>1. ConfigType
    BY RangePartial, Zenon DEF TypeOK, ConfigType
  <2>2. AllocType
    BY RangePartial, Zenon DEF TypeOK, AllocType, ARecords, AStates
  <2>3. HsType
    BY RangePartial, Zenon DEF TypeOK, HsType, HRecords, HStates
  <2>4. DoneType /\ LoopType
    BY Zenon DEF TypeOK, DoneType, LoopType
  <2> QED BY <2>1, <2>2, <2>3, <2>4
<1>2. ConfigType /\ AllocType /\ HsType /\ DoneType /\ LoopType => TypeOK
  BY RangePartial, Zenon DEF TypeOK, ConfigType, AllocType, ARecords, AStates, HsType, HRecords,
       HStates, DoneType, LoopType
<1> QED BY <1>1, <1>2

\* TypeOK by its parts, after a step.
LEMMA TypePartsNext ==
  ASSUME ConfigType', AllocType', HsType', DoneType', LoopType'
  PROVE  TypeOK'
<1>1. (ConfigType /\ AllocType /\ HsType /\ DoneType /\ LoopType => TypeOK)'
  BY TypeParts, PTL
<1> QED BY <1>1

\* What a task on the agenda holds.
LEMMA TaskFacts ==
  ASSUME NEW t \in Tasks
  PROVE  /\ t.op = "stopPass" => t.kind \in {"alloc", "handshake"} /\ t.ep \in Endpoints
         /\ t.op = "stopEach" => t.left \subseteq Works
         /\ t.op = "newServerEndpoint" =>
              t.ep \in Endpoints /\ t.best \in Best /\ t.se \in ServerEndpoints
         /\ t.op = "awaitAlloc" => t.gen \in DOMAIN aWork
         /\ t.op = "awaitHandshake" => t.gen \in DOMAIN hWork
         /\ t.op = "give" =>
              \/ \E g \in DOMAIN aWork : t.work = Alloc(g) /\ t.msg \in AllocMessages
              \/ \E g \in DOMAIN hWork : t.work = Handshake(g) /\ t.msg \in HandshakeMessages
BY DEF Tasks

\* The works of a larger table, and its tasks.
LEMMA TasksGrow ==
  ASSUME DOMAIN aWork \subseteq DOMAIN aWork', DOMAIN hWork \subseteq DOMAIN hWork'
  PROVE  Tasks \subseteq Tasks' /\ Works \subseteq Works'
<1>1. AllocMessages \subseteq AllocMessages' /\ HandshakeMessages = HandshakeMessages'
  BY DEF AllocMessages, HandshakeMessages
<1>2. Works \subseteq Works'
  BY DEF Works, Alloc, Handshake
<1>3. {Alloc(g) : g \in DOMAIN aWork} \subseteq {Alloc(g) : g \in DOMAIN aWork'}
  OBVIOUS
<1>4. {Handshake(g) : g \in DOMAIN hWork} \subseteq {Handshake(g) : g \in DOMAIN hWork'}
  OBVIOUS
<1>5. ASSUME NEW t \in Tasks PROVE t \in Tasks'
  BY <1>1, <1>2, <1>3, <1>4, <1>5 DEF Tasks, Alloc, Handshake
<1> QED BY <1>2, <1>5

\* One element of a sequence is changed.
LEMMA SeqExcept ==
  ASSUME NEW S, NEW q \in Seq(S), NEW i \in DOMAIN q, NEW v \in S
  PROVE  /\ [q EXCEPT ![i] = v] \in Seq(S) /\ Len([q EXCEPT ![i] = v]) = Len(q)
         /\ [q EXCEPT ![i] = v][i] = v
         /\ \A j \in DOMAIN q : j # i => [q EXCEPT ![i] = v][j] = q[j]
<1>1. DOMAIN q = 1 .. Len(q)
  OBVIOUS
<1>2. /\ [q EXCEPT ![i] = v] \in Seq(S) /\ Len([q EXCEPT ![i] = v]) = Len(q)
      /\ \A j \in 1 .. Len(q) : [q EXCEPT ![i] = v][j] = IF j = i THEN v ELSE q[j]
  BY <1>1, ExceptSeq, Zenon
<1> QED BY <1>1, <1>2

\* What a step leaves alone keeps its type.
LEMMA Frames ==
  /\ ConfigType /\ UNCHANGED config => ConfigType'
  /\ AllocType /\ UNCHANGED <<allocMaps, aWork, aState>> => AllocType'
  /\ HsType /\ UNCHANGED <<hsMaps, hWork, hState, ready>> => HsType'
  /\ UNCHANGED <<aWork, hWork>> => Tasks' = Tasks /\ Works' = Works
  /\ DoneType /\ UNCHANGED <<doneCh, canceled, discoInfo, aWork, hWork>> => DoneType'
<1>1. ConfigType /\ UNCHANGED config => ConfigType'
  BY DEF ConfigType, config, Partial
<1>2. AllocType /\ UNCHANGED <<allocMaps, aWork, aState>> => AllocType'
  BY DEF AllocType, allocMaps, Partial
<1>3. HsType /\ UNCHANGED <<hsMaps, hWork, hState, ready>> => HsType'
  BY DEF HsType, hsMaps, Partial
<1>4. UNCHANGED <<aWork, hWork>> => Tasks' = Tasks /\ Works' = Works
  BY DEF Tasks, Works, AllocMessages
<1>5. DoneType /\ UNCHANGED <<doneCh, canceled, discoInfo, aWork, hWork>> => DoneType'
  BY <1>4 DEF DoneType
<1> QED BY <1>1, <1>2, <1>3, <1>4, <1>5

\* The index of a work, and its place in the tables that go with hWork and aWork.
LEMMA WorkFacts ==
  /\ HsType => /\ DOMAIN hWork = 1 .. Len(hWork) /\ DOMAIN hState = DOMAIN hWork
               /\ DOMAIN ready = DOMAIN hWork /\ Len(hWork) \in Nat
               /\ \A g \in DOMAIN hWork :
                    hWork[g] \in HRecords /\ hState[g] \in HStates /\ ready[g] \in Nat
  /\ AllocType => /\ DOMAIN aWork = 1 .. Len(aWork) /\ DOMAIN aState = DOMAIN aWork
                  /\ Len(aWork) \in Nat
                  /\ \A g \in DOMAIN aWork : aWork[g] \in ARecords /\ aState[g] \in AStates
<1>1. HsType => /\ DOMAIN hWork = 1 .. Len(hWork) /\ DOMAIN hState = DOMAIN hWork
                /\ DOMAIN ready = DOMAIN hWork /\ Len(hWork) \in Nat
                /\ \A g \in DOMAIN hWork :
                    hWork[g] \in HRecords /\ hState[g] \in HStates /\ ready[g] \in Nat
  BY DEF HsType
<1>2. AllocType => /\ DOMAIN aWork = 1 .. Len(aWork) /\ DOMAIN aState = DOMAIN aWork
                   /\ Len(aWork) \in Nat
                   /\ \A g \in DOMAIN aWork : aWork[g] \in ARecords /\ aState[g] \in AStates
  BY DEF AllocType
<1> QED BY <1>1, <1>2

\* handleHandshakeWorkDoneRunLoop keeps the types.
LEMMA HandshakeDoneType ==
  ASSUME HsType, NEW g \in DOMAIN hWork, HandshakeDone(g), UNCHANGED hWork,
         hState' \in Seq(HStates), Len(hState') = Len(hState)
  PROVE  HsType'
<1>1. CASE ~Current(g)
  BY <1>1 DEF HandshakeDone, HsType, hsMaps, Partial
<1>2. CASE Current(g)
  <2>1. /\ hsByDisco' = Without(hsByDisco, <<hWork[g].ep, hWork[g].se.disco>>)
        /\ hsBySDV' = Without(hsBySDV, SDV(hWork[g].se))
        /\ awaitingPong' = Without(awaitingPong, g)
        /\ apvToWork' = IF g \in DOMAIN awaitingPong
                          THEN Without(apvToWork, awaitingPong[g]) ELSE apvToWork
        /\ ready' = [ready EXCEPT ![g] = IF hState[g].pong THEN @ + 1 ELSE @]
    BY <1>2 DEF HandshakeDone
  <2>2. /\ Partial(hsByDisco', Endpoints \X ServerDiscos, DOMAIN hWork)
        /\ Partial(hsBySDV', ServerDiscos \X VNIs, DOMAIN hWork)
        /\ Partial(awaitingPong', DOMAIN hWork, AddrPorts \X VNIs)
        /\ Partial(apvToWork', AddrPorts \X VNIs, DOMAIN hWork)
    BY <2>1, PartialMaps, Zenon DEF HsType
  <2>3. ready' \in Seq(Nat) /\ Len(ready') = Len(ready)
    <3>1. (IF hState[g].pong THEN ready[g] + 1 ELSE ready[g]) \in Nat
      BY WorkFacts
    <3> QED BY <2>1, <3>1, SeqExcept DEF HsType
  <2> QED BY <2>2, <2>3 DEF HsType, Partial
<1> QED BY <1>1, <1>2

\* handleAllocWorkDoneRunLoop keeps the types, and leads to one task at most.
LEMMA AllocDoneType ==
  ASSUME AllocType, NEW g \in DOMAIN aWork, NEW rest \in Seq(Tasks), AllocDone(g, rest),
         UNCHANGED aWork, aState' \in Seq(AStates), Len(aState') = Len(aState)
  PROVE  /\ AllocType'
         /\ \/ agenda' = rest
            \/ \E t \in Tasks : t.op = "newServerEndpoint" /\ agenda' = <<t>> \o rest
<1>1. CASE ~CurrentAlloc(g)
  BY <1>1 DEF AllocDone, AllocType, allocMaps, Partial
<1>2. CASE CurrentAlloc(g)
  <2>1. /\ allocByRelay' = Without(allocByRelay, <<aWork[g].ep, aWork[g].cand>>)
        /\ allocByKeys' = Without(allocByKeys, <<NodeKey(aWork[g].cand), aWork[g].keys>>)
        /\ \/ agenda' = rest
           \/ /\ aState[g].se # None
              /\ agenda' = <<[op |-> "newServerEndpoint", ep |-> aWork[g].ep,
                              best |-> aWork[g].best, se |-> aState[g].se,
                              allocated |-> TRUE]>> \o rest
    BY <1>2, Zenon DEF AllocDone
  <2>2. /\ Partial(allocByRelay', Endpoints \X Candidates, DOMAIN aWork)
        /\ Partial(allocByKeys', Servers \X DiscoKeys, DOMAIN aWork)
    BY <2>1, PartialMaps, Zenon DEF AllocType
  <2>3. AllocType'
    BY <2>2 DEF AllocType, Partial
  <2>4. ASSUME aState[g].se # None
        PROVE  [op |-> "newServerEndpoint", ep |-> aWork[g].ep, best |-> aWork[g].best,
                se |-> aState[g].se, allocated |-> TRUE] \in Tasks
    <3>1. aWork[g] \in ARecords /\ aState[g] \in AStates
      BY WorkFacts
    <3>2. aWork[g].ep \in Endpoints /\ aWork[g].best \in Best /\ aState[g].se \in ServerEndpoints
      BY <3>1, <2>4 DEF ARecords, AStates
    <3> QED BY <3>2 DEF Tasks
  <2> QED BY <2>1, <2>3, <2>4
<1> QED BY <1>1, <1>2

-----------------------------------------------------------------------------
(* allocateAllServersRunLoop.                                                *)

\* n allocations are started, one of each server of asked; pl is their order.
Discovery(c, asked, n, order, pl) ==
  /\ n \in Nat /\ order \in [1 .. n -> asked] /\ pl \in [asked -> 1 .. n]
  /\ \A v \in asked : order[pl[v]] = v
  /\ \A i \in 1 .. n : pl[order[i]] = i
  /\ \A v \in asked :
       /\ v \in Candidates /\ v = <<NodeKey(v), servers[NodeKey(v)]>>
       /\ disco[c.ep] \in DiscoKeys /\ <<NodeKey(v), disco[c.ep]>> \notin DOMAIN allocByKeys
       /\ ~hasActiveWorkFor(c.ep)
  /\ aWork' = aWork \o [i \in 1 .. n |-> [ep |-> c.ep, best |-> c.best, keys |-> disco[c.ep],
                                          cand |-> order[i]]]
  /\ aState' = aState \o [i \in 1 .. n |-> [pc |-> "wait", se |-> None]]
  /\ DOMAIN allocByRelay' = DOMAIN allocByRelay \cup ({c.ep} \X asked)
  /\ \A v \in asked : allocByRelay'[<<c.ep, v>>] = Len(aWork) + pl[v]
  /\ \A k \in DOMAIN allocByRelay : allocByRelay'[k] = allocByRelay[k]
  /\ DOMAIN allocByKeys' = DOMAIN allocByKeys \cup {<<NodeKey(v), disco[c.ep]>> : v \in asked}
  /\ \A v \in asked : allocByKeys'[<<NodeKey(v), disco[c.ep]>>] = Len(aWork) + pl[v]
  /\ \A k \in DOMAIN allocByKeys : allocByKeys'[k] = allocByKeys[k]

\* The servers that are asked are finitely many, and each is a candidate.
LEMMA AskedFacts ==
  ASSUME ConfigType, NEW ep \in Endpoints
  PROVE  /\ IsFiniteSet(Asked(ep))
         /\ \A v \in Asked(ep) :
              /\ v \in Candidates /\ v = <<NodeKey(v), servers[NodeKey(v)]>>
              /\ <<NodeKey(v), disco[ep]>> \notin DOMAIN allocByKeys
<1> DEFINE S == {n \in DOMAIN servers : <<n, disco[ep]>> \notin DOMAIN allocByKeys}
           f == [n \in S |-> <<n, servers[n]>>]
<1>1. IsFiniteSet(S)
  <2>1. S \in SUBSET Servers
    BY DEF ConfigType, Partial
  <2> QED BY <2>1, ServersAssumption, FS_Subset
<1>2. Asked(ep) = {<<n, servers[n]>> : n \in S}
  BY DEF Asked
<1>3. f \in Surjection(S, Asked(ep))
  <2>1. f \in [S -> Asked(ep)]
    BY <1>2
  <2>2. \A t \in Asked(ep) : \E s \in S : f[s] = t
    BY <1>2
  <2> QED BY <2>1, <2>2 DEF Surjection
<1>4. IsFiniteSet(Asked(ep))
  BY <1>1, <1>3, FS_Surjection
<1>5. ASSUME NEW v \in Asked(ep)
      PROVE  /\ v \in Candidates /\ v = <<NodeKey(v), servers[NodeKey(v)]>>
             /\ <<NodeKey(v), disco[ep]>> \notin DOMAIN allocByKeys
  <2>1. PICK n \in S : v = <<n, servers[n]>>
    BY <1>2, <1>5
  <2>2. n \in Servers /\ servers[n] \in Regions /\ v[1] = n
    BY <2>1 DEF ConfigType, Partial
  <2> QED BY <2>1, <2>2 DEF NodeKey, Candidates
<1> QED BY <1>4, <1>5

\* StartDiscovery as a Discovery.
LEMMA DiscoveryFacts ==
  ASSUME ConfigType, AllocType, NEW c \in WorkCalls, StartDiscovery(c)
  PROVE  /\ c.ep \in Endpoints /\ c.best \in Best
         /\ \E asked, n, order, pl : Discovery(c, asked, n, order, pl)
<1>1. c.ep \in Endpoints /\ c.best \in Best
  BY DEF StartDiscovery, WorkCalls, StopCalls
<1> DEFINE none == hasActiveWorkFor(c.ep) \/ disco[c.ep] = NoDisco
           asked == IF none THEN {} ELSE Asked(c.ep)
           n == Cardinality(asked)
<1>2. IsFiniteSet(asked)
  BY <1>1, AskedFacts, FS_EmptySet
<1>3. n \in Nat
  BY <1>2, FS_CardinalityType
<1>4. \A v \in asked :
        /\ v \in Candidates /\ v = <<NodeKey(v), servers[NodeKey(v)]>>
        /\ disco[c.ep] \in DiscoKeys /\ <<NodeKey(v), disco[c.ep]>> \notin DOMAIN allocByKeys
        /\ ~hasActiveWorkFor(c.ep)
  <2> SUFFICES ASSUME NEW v \in asked
               PROVE  /\ v \in Candidates /\ v = <<NodeKey(v), servers[NodeKey(v)]>>
                      /\ disco[c.ep] \in DiscoKeys
                      /\ <<NodeKey(v), disco[c.ep]>> \notin DOMAIN allocByKeys
                      /\ ~hasActiveWorkFor(c.ep)
    OBVIOUS
  <2>1. ~none /\ v \in Asked(c.ep)
    OBVIOUS
  <2>2. disco[c.ep] \in DiscoKeys
    BY <1>1, <2>1 DEF ConfigType
  <2>3. /\ v \in Candidates /\ v = <<NodeKey(v), servers[NodeKey(v)]>>
        /\ <<NodeKey(v), disco[c.ep]>> \notin DOMAIN allocByKeys
    BY <1>1, <2>1, AskedFacts, Zenon
  <2> QED BY <2>1, <2>2, <2>3
<1>5. PICK order \in Bijection(1 .. n, asked) :
        LET gen(cand) == Len(aWork) + (CHOOSE i \in 1 .. n : order[i] = cand)
            byRelay == [k \in {c.ep} \X asked |-> gen(k[2])]
            byKeys == [k \in {<<NodeKey(v), disco[c.ep]>> : v \in asked} |->
                         gen(<<k[1], servers[k[1]]>>)]
        IN /\ aWork' = aWork \o [i \in 1 .. n |-> [ep |-> c.ep, best |-> c.best,
                                                   keys |-> disco[c.ep], cand |-> order[i]]]
           /\ aState' = aState \o [i \in 1 .. n |-> [pc |-> "wait", se |-> None]]
           /\ allocByRelay' = WithAll(allocByRelay, byRelay)
           /\ allocByKeys' = WithAll(allocByKeys, byKeys)
  BY Zenon DEF StartDiscovery
<1> HIDE DEF asked, n
<1> DEFINE pl == [v \in asked |-> CHOOSE i \in 1 .. n : order[i] = v]
           gen(cand) == Len(aWork) + (CHOOSE i \in 1 .. n : order[i] = cand)
           byRelay == [k \in {c.ep} \X asked |-> gen(k[2])]
           byKeys == [k \in {<<NodeKey(v), disco[c.ep]>> : v \in asked} |->
                        gen(<<k[1], servers[k[1]]>>)]
<1>6. /\ order \in [1 .. n -> asked]
      /\ \A v \in asked : \E i \in 1 .. n : order[i] = v
      /\ \A i, j \in 1 .. n : order[i] = order[j] => i = j
  BY <1>5 DEF Bijection, Injection, Surjection, IsInjective
<1>7. /\ pl \in [asked -> 1 .. n]
      /\ \A v \in asked : order[pl[v]] = v
  BY <1>6
<1>8. \A i \in 1 .. n : pl[order[i]] = i
  BY <1>6, <1>7
<1>9. /\ allocByRelay' = WithAll(allocByRelay, byRelay)
      /\ allocByKeys' = WithAll(allocByKeys, byKeys)
  BY <1>5, Zenon
<1>10. \A v \in asked : gen(v) = Len(aWork) + pl[v]
  OBVIOUS
<1> HIDE DEF gen, pl
<1>11. /\ DOMAIN allocByRelay' = DOMAIN allocByRelay \cup ({c.ep} \X asked)
       /\ \A v \in asked : allocByRelay'[<<c.ep, v>>] = Len(aWork) + pl[v]
       /\ \A k \in DOMAIN allocByRelay : allocByRelay'[k] = allocByRelay[k]
  <2>1. DOMAIN byRelay = {c.ep} \X asked /\ \A v \in asked : byRelay[<<c.ep, v>>] = Len(aWork) + pl[v]
    BY <1>10
  <2>2. ASSUME NEW k \in DOMAIN allocByRelay PROVE k \notin DOMAIN byRelay
    BY <1>4, <2>1 DEF hasActiveWorkFor
  <2> HIDE DEF byRelay
  <2>3. /\ DOMAIN allocByRelay' = DOMAIN allocByRelay \cup DOMAIN byRelay
        /\ \A y \in DOMAIN byRelay : allocByRelay'[y] = byRelay[y]
        /\ \A y \in DOMAIN allocByRelay \ DOMAIN byRelay : allocByRelay'[y] = allocByRelay[y]
    <3> DEFINE f == WithAll(allocByRelay, byRelay)
    <3>1. /\ DOMAIN f = DOMAIN allocByRelay \cup DOMAIN byRelay
          /\ \A y \in DOMAIN byRelay : f[y] = byRelay[y]
          /\ \A y \in DOMAIN allocByRelay \ DOMAIN byRelay : f[y] = allocByRelay[y]
      BY WithAllFacts, Zenon
    <3> QED BY <1>9, <3>1
  <2> QED BY <2>1, <2>2, <2>3
<1>12. /\ DOMAIN allocByKeys' = DOMAIN allocByKeys \cup {<<NodeKey(v), disco[c.ep]>> : v \in asked}
       /\ \A v \in asked : allocByKeys'[<<NodeKey(v), disco[c.ep]>>] = Len(aWork) + pl[v]
       /\ \A k \in DOMAIN allocByKeys : allocByKeys'[k] = allocByKeys[k]
  <2>1. /\ DOMAIN byKeys = {<<NodeKey(v), disco[c.ep]>> : v \in asked}
        /\ \A v \in asked : byKeys[<<NodeKey(v), disco[c.ep]>>] = Len(aWork) + pl[v]
    BY <1>4, <1>10
  <2>2. ASSUME NEW k \in DOMAIN allocByKeys PROVE k \notin DOMAIN byKeys
    BY <1>4, <2>1
  <2> HIDE DEF byKeys
  <2>3. /\ DOMAIN allocByKeys' = DOMAIN allocByKeys \cup DOMAIN byKeys
        /\ \A y \in DOMAIN byKeys : allocByKeys'[y] = byKeys[y]
        /\ \A y \in DOMAIN allocByKeys \ DOMAIN byKeys : allocByKeys'[y] = allocByKeys[y]
    <3> DEFINE f == WithAll(allocByKeys, byKeys)
    <3>1. /\ DOMAIN f = DOMAIN allocByKeys \cup DOMAIN byKeys
          /\ \A y \in DOMAIN byKeys : f[y] = byKeys[y]
          /\ \A y \in DOMAIN allocByKeys \ DOMAIN byKeys : f[y] = allocByKeys[y]
      BY WithAllFacts, Zenon
    <3> QED BY <1>9, <3>1
  <2> QED BY <2>1, <2>2, <2>3
<1>13. Discovery(c, asked, n, order, pl)
  BY <1>3, <1>4, <1>5, <1>6, <1>7, <1>8, <1>11, <1>12, Zenon DEF Discovery
<1> QED BY <1>1, <1>13

\* q is p followed by f.
Joined(S, p, f, q) ==
  /\ q \in Seq(S) /\ Len(q) = Len(p) + Len(f)
  /\ \A i \in DOMAIN p : q[i] = p[i]
  /\ \A i \in 1 .. Len(f) : q[Len(p) + i] = f[i]

\* What is appended to a sequence, and what stays where it was.
LEMMA ConcatFacts ==
  ASSUME NEW S, NEW p \in Seq(S), NEW f \in Seq(S)
  PROVE  Joined(S, p, f, p \o f)
<1>1. /\ p \o f \in Seq(S) /\ Len(p \o f) = Len(p) + Len(f)
      /\ \A i \in 1 .. Len(p) + Len(f) : (p \o f)[i] = IF i <= Len(p) THEN p[i] ELSE f[i - Len(p)]
  BY ConcatProperties, Zenon
<1>2. DOMAIN p = 1 .. Len(p) /\ Len(p) \in Nat /\ Len(f) \in Nat
  OBVIOUS
<1>3. ASSUME NEW i \in 1 .. Len(f) PROVE (p \o f)[Len(p) + i] = f[i]
  <2>1. Len(p) + i \in 1 .. Len(p) + Len(f) /\ ~(Len(p) + i <= Len(p)) /\ (Len(p) + i) - Len(p) = i
    BY <1>2
  <2> QED BY <1>1, <2>1
<1>4. ASSUME NEW i \in DOMAIN p PROVE (p \o f)[i] = p[i]
  <2>1. i \in 1 .. Len(p) + Len(f) /\ i <= Len(p)
    BY <1>2
  <2> QED BY <1>1, <2>1
<1> QED BY <1>1, <1>3, <1>4, Zenon DEF Joined

\* The allocations that are started: the types, and where they are in aWork.
LEMMA DiscoveryWorks ==
  ASSUME ConfigType, AllocType, NEW c, c.ep \in Endpoints, c.best \in Best,
         NEW asked, NEW n, NEW order, NEW pl, Discovery(c, asked, n, order, pl)
  PROVE  /\ AllocType'
         /\ DOMAIN aWork \subseteq DOMAIN aWork' /\ Len(aWork') = Len(aWork) + n
         /\ \A g \in DOMAIN aWork : aWork'[g] = aWork[g] /\ aState'[g] = aState[g]
         /\ \A i \in 1 .. n :
              /\ aWork'[Len(aWork) + i] = [ep |-> c.ep, best |-> c.best, keys |-> disco[c.ep],
                                           cand |-> order[i]]
              /\ aState'[Len(aWork) + i] = [pc |-> "wait", se |-> None]
<1> DEFINE w(i) == [ep |-> c.ep, best |-> c.best, keys |-> disco[c.ep], cand |-> order[i]]
           f == [i \in 1 .. n |-> w(i)]
           s == [pc |-> "wait", se |-> None]
           h == [i \in 1 .. n |-> s]
<1>0. n \in Nat
  BY DEF Discovery
<1>1. aWork' = aWork \o f /\ aState' = aState \o h
  BY DEF Discovery
<1>2. f \in Seq(ARecords) /\ Len(f) = n
  <2> SUFFICES ASSUME NEW i \in 1 .. n PROVE w(i) \in ARecords
    BY <1>0
  <2>1. order[i] \in Candidates /\ disco[c.ep] \in DiscoKeys
    BY DEF Discovery
  <2> QED BY <2>1 DEF ARecords
<1>3. h \in Seq(AStates) /\ Len(h) = n
  BY <1>0 DEF AStates
<1>4. aWork \in Seq(ARecords) /\ aState \in Seq(AStates) /\ Len(aState) = Len(aWork)
  BY DEF AllocType
<1> HIDE DEF f, h
<1>5. /\ aWork' \in Seq(ARecords) /\ Len(aWork') = Len(aWork) + n
      /\ \A g \in DOMAIN aWork : aWork'[g] = aWork[g]
      /\ \A i \in 1 .. n : aWork'[Len(aWork) + i] = f[i]
  <2>1. Joined(ARecords, aWork, f, aWork \o f)
    BY <1>2, <1>4, ConcatFacts, Zenon
  <2>2. Joined(ARecords, aWork, f, aWork')
    BY <1>1, <2>1, Zenon
  <2> QED BY <1>2, <2>2, Zenon DEF Joined
<1>6. /\ aState' \in Seq(AStates) /\ Len(aState') = Len(aState) + n
      /\ \A g \in DOMAIN aState : aState'[g] = aState[g]
      /\ \A i \in 1 .. n : aState'[Len(aState) + i] = h[i]
  <2>1. Joined(AStates, aState, h, aState \o h)
    BY <1>3, <1>4, ConcatFacts, Zenon
  <2>2. Joined(AStates, aState, h, aState')
    BY <1>1, <2>1, Zenon
  <2> QED BY <1>3, <2>2, Zenon DEF Joined
<1>7. DOMAIN aWork = 1 .. Len(aWork) /\ DOMAIN aState = DOMAIN aWork /\ Len(aWork) \in Nat
  BY WorkFacts
<1>8. DOMAIN aWork' = 1 .. Len(aWork) + n
  BY <1>5, <1>7
<1>9. DOMAIN aWork \subseteq DOMAIN aWork' /\ \A i \in 1 .. n : Len(aWork) + i \in DOMAIN aWork'
  BY <1>0, <1>7, <1>8
<1>10. Partial(allocByRelay', Endpoints \X Candidates, DOMAIN aWork')
  <2>1. /\ DOMAIN allocByRelay' = DOMAIN allocByRelay \cup ({c.ep} \X asked)
        /\ \A v \in asked : v \in Candidates /\ pl[v] \in 1 .. n
        /\ \A v \in asked : allocByRelay'[<<c.ep, v>>] = Len(aWork) + pl[v]
        /\ \A k \in DOMAIN allocByRelay : allocByRelay'[k] = allocByRelay[k]
    BY DEF Discovery
  <2>2. /\ DOMAIN allocByRelay \subseteq Endpoints \X Candidates
        /\ \A k \in DOMAIN allocByRelay : allocByRelay[k] \in DOMAIN aWork
    BY DEF AllocType, Partial
  <2>3. \A k \in DOMAIN allocByRelay' : k \in Endpoints \X Candidates
    BY <2>1, <2>2
  <2>4. \A k \in DOMAIN allocByRelay' : allocByRelay'[k] \in DOMAIN aWork'
    BY <1>9, <2>1, <2>2
  <2> QED BY <2>3, <2>4 DEF Partial
<1>11. Partial(allocByKeys', Servers \X DiscoKeys, DOMAIN aWork')
  <2>1. \A v \in asked : NodeKey(v) \in Servers /\ disco[c.ep] \in DiscoKeys
    BY DEF Discovery, NodeKey, Candidates
  <2>2. /\ DOMAIN allocByKeys' =
             DOMAIN allocByKeys \cup {<<NodeKey(v), disco[c.ep]>> : v \in asked}
        /\ \A v \in asked : pl[v] \in 1 .. n
        /\ \A v \in asked : allocByKeys'[<<NodeKey(v), disco[c.ep]>>] = Len(aWork) + pl[v]
        /\ \A k \in DOMAIN allocByKeys : allocByKeys'[k] = allocByKeys[k]
    BY DEF Discovery
  <2>3. /\ DOMAIN allocByKeys \subseteq Servers \X DiscoKeys
        /\ \A k \in DOMAIN allocByKeys : allocByKeys[k] \in DOMAIN aWork
    BY DEF AllocType, Partial
  <2>4. \A k \in DOMAIN allocByKeys' : k \in Servers \X DiscoKeys
    BY <2>1, <2>2, <2>3
  <2>5. \A k \in DOMAIN allocByKeys' : allocByKeys'[k] \in DOMAIN aWork'
    BY <1>9, <2>2, <2>3
  <2> QED BY <2>4, <2>5 DEF Partial
<1>12. AllocType'
  BY <1>4, <1>5, <1>6, <1>10, <1>11 DEF AllocType
<1> QED
  <2>1. \A i \in 1 .. n : f[i] = w(i) /\ h[i] = s
    BY DEF f, h
  <2> QED BY <1>4, <1>5, <1>6, <1>7, <1>9, <1>12, <2>1

\* The handshakes are told something, and keep their types.
LEMMA HearsType ==
  ASSUME HsType, NEW g \in DOMAIN hWork, NEW m, HandshakeHears(g, m)
  PROVE  /\ hState' \in Seq(HStates) /\ Len(hState') = Len(hState)
         /\ hState'[g].pc \in {hState[g].pc, "return"} /\ (hState[g].pong => hState'[g].pong)
         /\ \A h \in DOMAIN hWork : h # g => hState'[h] = hState[h]
<1> DEFINE s == hState[g]
           ping == [s EXCEPT !.answered = TRUE, !.pings = IF @ = LimitPings THEN @ ELSE @ + 1]
           pong == [s EXCEPT !.pc = "return", !.pong = TRUE]
<1>1. s \in HStates
  BY WorkFacts
<1>2. ping \in HStates /\ ping.pc = s.pc /\ ping.pong = s.pong
  <2> DEFINE p == IF s.pings = LimitPings THEN s.pings ELSE s.pings + 1
  <2>1. s.pings \in 0 .. LimitPings
    BY <1>1 DEF HStates
  <2>2. p \in 0 .. LimitPings
    BY <2>1, LimitAssumption
  <2> HIDE DEF s, p
  <2>3. ping = [s EXCEPT !.answered = TRUE, !.pings = p]
    BY DEF p
  <2> QED BY <1>1, <2>2, <2>3 DEF HStates
<1>3. pong \in HStates /\ pong.pc = "return" /\ pong.pong
  BY <1>1 DEF HStates
<1>4. PICK v \in {s, ping, pong} : hState' = [hState EXCEPT ![g] = v]
  BY DEF HandshakeHears
<1>5. v \in HStates /\ v.pc \in {s.pc, "return"} /\ (s.pong => v.pong)
  BY <1>1, <1>2, <1>3
<1>6. g \in DOMAIN hState /\ hState \in Seq(HStates) /\ DOMAIN hState = DOMAIN hWork
  BY WorkFacts DEF HsType
<1> HIDE DEF s
<1>7. /\ hState' \in Seq(HStates) /\ Len(hState') = Len(hState) /\ hState'[g] = v
      /\ \A h \in DOMAIN hWork : h # g => hState'[h] = hState[h]
  <2> DEFINE q == [hState EXCEPT ![g] = v]
  <2>1. /\ q \in Seq(HStates) /\ Len(q) = Len(hState) /\ q[g] = v
        /\ \A h \in DOMAIN hState : h # g => q[h] = hState[h]
    BY <1>5, <1>6, SeqExcept
  <2> HIDE DEF q
  <2>2. hState' = q
    BY <1>4 DEF q
  <2> QED BY <1>6, <2>1, <2>2, Zenon
<1> QED BY <1>5, <1>7 DEF s

-----------------------------------------------------------------------------
(* TypeOK is inductive.                                                      *)

\* At the start.
LEMMA TypeInit == Init => TypeOK
<1> SUFFICES ASSUME Init PROVE TypeOK
  OBVIOUS
<1>1. DOMAIN NoMap = {} /\ \A S, T : Partial(NoMap, S, T)
  BY DEF NoMap, Partial
<1>2. \A S : <<>> \in Seq(S) /\ Len(<<>>) = 0
  OBVIOUS
<1>3. ConfigType
  BY <1>1 DEF Init, ConfigType
<1>4. AllocType
  BY <1>1, <1>2, Zenon DEF Init, AllocType
<1>5. HsType
  BY <1>1, <1>2, Zenon DEF Init, HsType
<1>6. DoneType
  BY DEF Init, DoneType
<1>7. LoopType
  BY <1>2 DEF Init, LoopType
<1> QED BY <1>3, <1>4, <1>5, <1>6, <1>7, TypeParts

\* The event of a caller.
LEMMA TakeFacts ==
  ASSUME NEW sort, NEW c, Take(sort, c), c.op = "stopWork" => c \in StopCalls
  PROVE  /\ loop = "running" /\ event = None /\ event' \in {Other} \cup StopCalls
         /\ event' = IF c.op = "stopWork" THEN c ELSE Other
BY DEF Take, Idle

\* The task at the head of the agenda.
LEMMA HeadFacts ==
  ASSUME LoopType, NEW op, Task(op)
  PROVE  /\ loop = "running" /\ agenda # <<>> /\ Head(agenda).op = op /\ Head(agenda) \in Tasks
         /\ agenda \in Seq(Tasks) /\ Tail(agenda) \in Seq(Tasks)
         /\ Then(<<>>) => agenda' = Tail(agenda)
<1>1. loop = "running" /\ agenda # <<>> /\ Head(agenda).op = op /\ agenda \in Seq(Tasks)
  BY DEF LoopType, Task
<1>2. Head(agenda) \in Tasks /\ Tail(agenda) \in Seq(Tasks) /\ <<>> \o Tail(agenda) = Tail(agenda)
  BY <1>1, PopFacts, Zenon
<1> QED BY <1>1, <1>2 DEF Then

\* The loop, when no work is added.
LEMMA LoopTypeNext ==
  ASSUME UNCHANGED <<aWork, hWork>>, loop' \in {"running", "stopped"}, agenda' \in Seq(Tasks),
         event' \in {None, Other} \cup StopCalls
  PROVE  LoopType'
<1>1. Tasks' = Tasks
  BY Frames
<1>2. agenda' \in Seq(Tasks')
  BY <1>1
<1> QED BY <1>2 DEF LoopType

\* The events of callers that change no work.
LEMMA ConfigTypes ==
  ASSUME ConfigType, NEW c \in ConfigCalls, Configure(c)
  PROVE  ConfigType'
<1>1. hasServers' \in BOOLEAN /\ disco' = disco
  BY DEF Configure
<1>2. Partial(servers, Servers, Regions)
  BY DEF ConfigType
<1>3. Partial(servers', Servers, Regions)
  <2>1. CASE c.op = "servers" /\ servers' = NewServers(c)
    <3>1. \A v \in c.set : v \in Candidates
      BY <2>1 DEF ConfigCalls
    <3>2. \A n \in {NodeKey(v) : v \in c.set} :
            /\ n \in Servers
            /\ (CHOOSE v \in c.set : NodeKey(v) = n)[2] \in Regions
      BY <3>1 DEF Candidates, NodeKey
    <3> QED BY <2>1, <3>2 DEF NewServers, Partial
  <2>2. CASE c.op \in {"upsert", "derpHome"} /\ servers' = With(servers, NodeKey(c.cand), c.cand[2])
    <3>1. c.cand \in Candidates
      BY <2>2 DEF ConfigCalls
    <3>2. NodeKey(c.cand) \in Servers /\ c.cand[2] \in Regions
      BY <3>1 DEF Candidates, NodeKey
    <3> QED BY <1>2, <2>2, <3>2, PartialMaps
  <2>3. CASE c.op = "remove" /\ servers' = Without(servers, c.server)
    BY <1>2, <2>3, PartialMaps
  <2>4. CASE servers' = servers
    BY <1>2, <2>4
  <2> QED BY <2>1, <2>2, <2>3, <2>4 DEF Configure
<1> QED BY <1>1, <1>3 DEF ConfigType

\* The handshakes that are started.
LEMMA StartHandshakeType ==
  ASSUME HsType, NEW e, StartHandshake(e), e.ep \in Endpoints, e.se \in ServerEndpoints
  PROVE  /\ HsType' /\ Len(hWork') = Len(hWork) + 1 /\ DOMAIN hWork' = DOMAIN hWork \cup {Len(hWork) + 1}
         /\ \A g \in DOMAIN hWork :
              hWork'[g] = hWork[g] /\ hState'[g] = hState[g] /\ ready'[g] = ready[g]
         /\ hWork'[Len(hWork) + 1] = [ep |-> e.ep, se |-> e.se]
         /\ hState'[Len(hWork) + 1].pc = "begin" /\ ready'[Len(hWork) + 1] = 0
<1> DEFINE w == [ep |-> e.ep, se |-> e.se]
           s == [pc |-> "begin", answered |-> FALSE, pings |-> 0, pong |-> FALSE]
<1>1. w \in HRecords /\ s \in HStates /\ 0 \in Nat /\ s.pc = "begin"
  BY LimitAssumption DEF HRecords, HStates
<1>2. /\ hWork' = Append(hWork, w) /\ hState' = Append(hState, s) /\ ready' = Append(ready, 0)
      /\ hsByDisco' = With(hsByDisco, <<e.ep, e.se.disco>>, Len(hWork) + 1)
      /\ hsBySDV' = With(hsBySDV, SDV(e.se), Len(hWork) + 1)
      /\ UNCHANGED <<awaitingPong, apvToWork>>
  BY DEF StartHandshake
<1>3. /\ hWork \in Seq(HRecords) /\ hState \in Seq(HStates) /\ ready \in Seq(Nat)
      /\ Len(hState) = Len(hWork) /\ Len(ready) = Len(hWork)
      /\ DOMAIN hWork = 1 .. Len(hWork) /\ DOMAIN hState = DOMAIN hWork /\ DOMAIN ready = DOMAIN hWork
      /\ Len(hWork) \in Nat
  BY WorkFacts DEF HsType
<1> HIDE DEF w, s
<1>4. /\ hWork' \in Seq(HRecords) /\ Len(hWork') = Len(hWork) + 1
      /\ hWork'[Len(hWork) + 1] = w /\ \A g \in DOMAIN hWork : hWork'[g] = hWork[g]
  BY <1>1, <1>2, <1>3, AppendFacts
<1>5. /\ hState' \in Seq(HStates) /\ Len(hState') = Len(hWork) + 1
      /\ hState'[Len(hWork) + 1] = s /\ \A g \in DOMAIN hWork : hState'[g] = hState[g]
  BY <1>1, <1>2, <1>3, AppendFacts
<1>6. /\ ready' \in Seq(Nat) /\ Len(ready') = Len(hWork) + 1
      /\ ready'[Len(hWork) + 1] = 0 /\ \A g \in DOMAIN hWork : ready'[g] = ready[g]
  BY <1>1, <1>2, <1>3, AppendFacts
<1>7. DOMAIN hWork' = DOMAIN hWork \cup {Len(hWork) + 1}
  BY <1>3, <1>4
<1>8. e.se.disco \in ServerDiscos /\ e.se.vni \in VNIs
  BY DEF StartHandshake, ServerEndpoints
<1>9. Partial(hsByDisco', Endpoints \X ServerDiscos, DOMAIN hWork')
  BY <1>2, <1>7, <1>8 DEF HsType, Partial, With
<1>10. Partial(hsBySDV', ServerDiscos \X VNIs, DOMAIN hWork')
  BY <1>2, <1>7, <1>8 DEF HsType, Partial, With, SDV
<1>11. /\ Partial(awaitingPong', DOMAIN hWork', AddrPorts \X VNIs)
       /\ Partial(apvToWork', AddrPorts \X VNIs, DOMAIN hWork')
  BY <1>2, <1>7 DEF HsType, Partial
<1>12. HsType'
  BY <1>4, <1>5, <1>6, <1>9, <1>10, <1>11 DEF HsType
<1> QED BY <1>1, <1>4, <1>5, <1>6, <1>7, <1>12 DEF w

\* A challenge that makes g wait for pongs from an address.
Challenged(m, g) ==
  /\ <<m.disco, m.vni>> \in DOMAIN hsBySDV /\ g = hsBySDV[<<m.disco, m.vni>>]
  /\ g \notin DOMAIN awaitingPong /\ <<m.from, m.vni>> \notin DOMAIN apvToWork
  /\ <<m.from, m.vni>> \in AddrPorts \X VNIs
  /\ awaitingPong' = With(awaitingPong, g, <<m.from, m.vni>>)
  /\ apvToWork' = With(apvToWork, <<m.from, m.vni>>, g)

\* What a message does: it is given to the work it is for, if there is one.
LEMMA RxFacts ==
  ASSUME AllocType, HsType, NEW m \in Messages, RxDiscoMsg(m)
  PROVE  /\ agenda' = <<>> \/ \E t \in Tasks : t.op = "give" /\ agenda' = <<t>>
         /\ UNCHANGED <<awaitingPong, apvToWork>> \/ \E g \in DOMAIN hWork : Challenged(m, g)
<1> DEFINE to == {w \in Target(m) : Passes(m, w)}
           t(w) == [op |-> "give", work |-> w, msg |-> m]
<1>1. /\ agenda' = IF to = {} THEN <<>>
                   ELSE <<[op |-> "give", work |-> CHOOSE w \in to : TRUE, msg |-> m]>>
      /\ IF m.type = "challenge" /\ to # {}
           THEN LET g == (CHOOSE w \in to : TRUE)[2] IN
                  /\ awaitingPong' = With(awaitingPong, g, <<m.from, m.vni>>)
                  /\ apvToWork' = With(apvToWork, <<m.from, m.vni>>, g)
           ELSE UNCHANGED <<awaitingPong, apvToWork>>
  BY Zenon DEF RxDiscoMsg
<1>2. CASE to = {}
  BY <1>1, <1>2
<1>3. CASE to # {}
  <2>1. PICK w : w = (CHOOSE x \in to : TRUE)
    OBVIOUS
  <2>2. w \in Target(m) /\ Passes(m, w)
    BY <1>3, <2>1
  <2>3. /\ agenda' = <<t(w)>>
        /\ IF m.type = "challenge"
             THEN /\ awaitingPong' = With(awaitingPong, w[2], <<m.from, m.vni>>)
                  /\ apvToWork' = With(apvToWork, <<m.from, m.vni>>, w[2])
             ELSE UNCHANGED <<awaitingPong, apvToWork>>
    <3> HIDE DEF to
    <3> QED BY <1>1, <1>3, <2>1
  <2> HIDE DEF to
  <2>4. CASE m \in AllocMessages
    <3>1. /\ m.type = "allocResp" /\ <<m.server, m.keys>> \in DOMAIN allocByKeys
          /\ w = Alloc(allocByKeys[<<m.server, m.keys>>])
      BY <2>2, <2>4 DEF Target, AllocMessages
    <3>2. allocByKeys[<<m.server, m.keys>>] \in DOMAIN aWork
      BY <3>1 DEF AllocType, Partial
    <3>3. t(w) \in Tasks /\ t(w).op = "give"
      BY <2>4, <3>1, <3>2 DEF Tasks
    <3>4. UNCHANGED <<awaitingPong, apvToWork>>
      BY <2>3, <3>1
    <3> QED BY <2>3, <3>3, <3>4
  <2>5. CASE m \in HandshakeMessages /\ m.type = "challenge"
    <3> DEFINE g == hsBySDV[<<m.disco, m.vni>>]
    <3>1. <<m.disco, m.vni>> \in DOMAIN hsBySDV /\ w = Handshake(g)
      BY <2>2, <2>5 DEF Target
    <3>2. g \in DOMAIN hWork
      BY <3>1 DEF HsType, Partial
    <3>3. t(w) \in Tasks /\ t(w).op = "give"
      BY <2>5, <3>1, <3>2 DEF Tasks
    <3>4. w[2] = g
      BY <3>1 DEF Handshake
    <3>5. <<m.from, m.vni>> \in AddrPorts \X VNIs
      BY <2>5 DEF HandshakeMessages
    <3>6. g \notin DOMAIN awaitingPong /\ <<m.from, m.vni>> \notin DOMAIN apvToWork
      BY <2>2, <2>5, <3>4 DEF Passes
    <3> HIDE DEF g
    <3>7. Challenged(m, g)
      BY <2>3, <2>5, <3>1, <3>4, <3>5, <3>6, Zenon DEF Challenged, g
    <3> QED BY <2>3, <3>2, <3>3, <3>7, Zenon
  <2>6. CASE m \in HandshakeMessages /\ m.type # "challenge"
    <3>1. /\ <<m.from, m.vni>> \in DOMAIN apvToWork
          /\ w = Handshake(apvToWork[<<m.from, m.vni>>])
      BY <2>2, <2>6 DEF Target, HandshakeMessages
    <3>2. apvToWork[<<m.from, m.vni>>] \in DOMAIN hWork
      BY <3>1 DEF HsType, Partial
    <3>3. t(w) \in Tasks /\ t(w).op = "give"
      BY <2>6, <3>1, <3>2 DEF Tasks
    <3>4. UNCHANGED <<awaitingPong, apvToWork>>
      BY <2>3, <2>6
    <3> QED BY <2>3, <3>3, <3>4
  <2> QED BY <2>4, <2>5, <2>6 DEF Messages
<1> QED BY <1>2, <1>3

\* The works that a task may cancel.
LEMMA OfFacts ==
  ASSUME NEW ep
  PROVE  /\ AllocType => AllocsOf(ep) \subseteq DOMAIN aWork
         /\ HsType => HandshakesOf(ep) \subseteq DOMAIN hWork
         /\ AllocsOf(ep) = {} <=> \A k \in DOMAIN allocByRelay : k[1] # ep
         /\ HandshakesOf(ep) = {} <=> \A k \in DOMAIN hsByDisco : k[1] # ep
BY DEF AllocsOf, HandshakesOf, AllocType, HsType, Partial

\* The rivals of an endpoint are tracked.
LEMMA RivalFacts ==
  ASSUME NEW e
  PROVE  /\ HsType => Rivals(e) \subseteq DOMAIN hWork
         /\ Rivals(e) = {} => /\ SDV(e.se) \notin DOMAIN hsBySDV
                              /\ <<e.ep, e.se.disco>> \notin DOMAIN hsByDisco
BY DEF Rivals, HsType, Partial

\* The works that stopWorkRunLoop visits, and the task that waits for one.
LEMMA VisitFacts ==
  /\ \A w \in Works : Await(w) \in Tasks
  /\ AllocType => \A ep : {Alloc(g) : g \in AllocsOf(ep)} \subseteq Works
  /\ HsType => \A ep : {Handshake(g) : g \in HandshakesOf(ep)} \subseteq Works
  /\ \A S : S \subseteq Works => [op |-> "stopEach", left |-> S] \in Tasks
<1>1. ASSUME NEW w \in Works PROVE Await(w) \in Tasks
  <2>1. CASE \E g \in DOMAIN aWork : w = Alloc(g)
    <3>1. PICK g \in DOMAIN aWork : w = Alloc(g)
      BY <2>1
    <3>2. Await(w) = [op |-> "awaitAlloc", gen |-> g]
      BY <3>1 DEF Await, Alloc
    <3> QED BY <3>2 DEF Tasks
  <2>2. CASE \E g \in DOMAIN hWork : w = Handshake(g)
    <3>1. PICK g \in DOMAIN hWork : w = Handshake(g)
      BY <2>2
    <3>2. Await(w) = [op |-> "awaitHandshake", gen |-> g]
      BY <3>1 DEF Await, Handshake
    <3> QED BY <3>2 DEF Tasks
  <2> QED BY <2>1, <2>2 DEF Works
<1>2. /\ AllocType => \A ep : {Alloc(g) : g \in AllocsOf(ep)} \subseteq Works
      /\ HsType => \A ep : {Handshake(g) : g \in HandshakesOf(ep)} \subseteq Works
  BY OfFacts DEF Works
<1>3. ASSUME NEW S, S \subseteq Works PROVE [op |-> "stopEach", left |-> S] \in Tasks
  BY <1>3 DEF Tasks
<1> QED BY <1>1, <1>2, <1>3

\* The goroutine of an allocation goes on.
LEMMA AStateFacts ==
  ASSUME AllocType, NEW g \in DOMAIN aWork, NEW pc \in {"wait", "return", "offer", "gone"},
         aState' = [aState EXCEPT ![g].pc = pc]
  PROVE  /\ aState' \in Seq(AStates) /\ Len(aState') = Len(aState)
         /\ aState'[g].pc = pc /\ \A h \in DOMAIN aWork : h # g => aState'[h] = aState[h]
<1>1. g \in DOMAIN aState /\ aState \in Seq(AStates) /\ aState[g] \in AStates
  BY WorkFacts DEF AllocType
<1> DEFINE v == [aState[g] EXCEPT !.pc = pc]
<1>2. v \in AStates /\ v.pc = pc
  BY <1>1 DEF AStates
<1>3. aState' = [aState EXCEPT ![g] = v]
  OBVIOUS
<1> HIDE DEF v
<1>4. /\ aState' \in Seq(AStates) /\ Len(aState') = Len(aState) /\ aState'[g] = v
      /\ \A h \in DOMAIN aState : h # g => aState'[h] = aState[h]
  BY <1>1, <1>2, <1>3, SeqExcept
<1> QED BY <1>2, <1>4, WorkFacts

\* The goroutine of a handshake goes on.
LEMMA HStateFacts ==
  ASSUME HsType, NEW g \in DOMAIN hWork, NEW pc \in {"begin", "wait", "return", "offer", "gone"},
         \/ hState' = [hState EXCEPT ![g].pc = pc]
         \/ hState' = [hState EXCEPT ![g] = [@ EXCEPT !.pc = pc, !.answered = FALSE, !.pings = 0]]
  PROVE  /\ hState' \in Seq(HStates) /\ Len(hState') = Len(hState)
         /\ hState'[g].pc = pc /\ hState'[g].pong = hState[g].pong
         /\ \A h \in DOMAIN hWork : h # g => hState'[h] = hState[h]
<1>1. g \in DOMAIN hState /\ hState \in Seq(HStates) /\ hState[g] \in HStates
  BY WorkFacts DEF HsType
<1> DEFINE u == [hState[g] EXCEPT !.pc = pc]
           v == [hState[g] EXCEPT !.pc = pc, !.answered = FALSE, !.pings = 0]
<1>2. /\ u \in HStates /\ u.pc = pc /\ u.pong = hState[g].pong
      /\ v \in HStates /\ v.pc = pc /\ v.pong = hState[g].pong
  <2>1. 0 \in 0 .. LimitPings
    BY LimitAssumption
  <2> QED BY <1>1, <2>1 DEF HStates
<1>3. PICK s \in {u, v} : hState' = [hState EXCEPT ![g] = s]
  OBVIOUS
<1>4. s \in HStates /\ s.pc = pc /\ s.pong = hState[g].pong
  BY <1>2
<1> HIDE DEF u, v
<1>5. /\ hState' \in Seq(HStates) /\ Len(hState') = Len(hState) /\ hState'[g] = s
      /\ \A h \in DOMAIN hState : h # g => hState'[h] = hState[h]
  BY <1>1, <1>3, <1>4, SeqExcept
<1> QED BY <1>4, <1>5, WorkFacts

\* Every step keeps the types.
LEMMA TypeNext == TypeOK /\ [Next]_vars => TypeOK'
<1> SUFFICES ASSUME TypeOK, [Next]_vars PROVE TypeOK'
  OBVIOUS
<1>0. ConfigType /\ AllocType /\ HsType /\ DoneType /\ LoopType
  BY TypeParts
<1>s. \A t \in Tasks : <<t>> \in Seq(Tasks)
  OBVIOUS
<1>e. <<>> \in Seq(Tasks)
  OBVIOUS
<1>l. loop \in {"running", "stopped"} /\ agenda \in Seq(Tasks) /\ event \in {None, Other} \cup StopCalls
  BY <1>0 DEF LoopType
<1>1. CASE CallNext \/ StartLoop \/ EndEvent \/ UNCHANGED vars
  <2>1. ConfigType'
    <3>1. CASE \E ep \in Endpoints : DiscoChanges(ep)
      BY <1>0, <3>1 DEF DiscoChanges, ConfigType, Partial
    <3>2. CASE UNCHANGED config
      BY <1>0, <3>2, Frames
    <3> QED BY <1>1, <3>1, <3>2 DEF CallNext, Call, StartLoop, EndEvent, vars
  <2>2. /\ UNCHANGED <<allocMaps, aWork, aState, hsMaps, hWork, hState, ready, doneCh, canceled,
                       discoInfo>>
        /\ loop' \in {"running", "stopped"} /\ agenda' = agenda
        /\ event' \in {None, Other} \cup StopCalls
    BY <1>1, <1>l DEF CallNext, Call, DiscoChanges, StartLoop, EndEvent, vars, works, routines
  <2>3. AllocType' /\ HsType' /\ DoneType'
    BY <1>0, <2>2, Frames
  <2>4. LoopType'
    BY <1>l, <2>2, LoopTypeNext
  <2> QED BY <2>1, <2>3, <2>4, TypePartsNext
<1>2. ASSUME NEW c \in ConfigCalls, Configure(c) PROVE TypeOK'
  <2>1. ConfigType'
    BY <1>0, <1>2, ConfigTypes
  <2>2. UNCHANGED <<allocMaps, hsMaps, aWork, hWork, ready, aState, hState, doneCh, discoInfo,
                    canceled, loop, agenda>>
    BY <1>2 DEF Configure, works, routines
  <2>3. event' \in {None, Other} \cup StopCalls
    BY <1>2, TakeFacts DEF Configure, ConfigCalls
  <2>4. AllocType' /\ HsType' /\ DoneType'
    BY <1>0, <2>2, Frames
  <2>5. LoopType'
    BY <1>l, <2>2, <2>3, LoopTypeNext
  <2> QED BY <2>1, <2>4, <2>5, TypePartsNext
<1>3. ASSUME NEW c \in WorkCalls, StartDiscovery(c) PROVE TypeOK'
  <2>1. PICK asked, n, order, pl : Discovery(c, asked, n, order, pl)
    BY <1>0, <1>3, DiscoveryFacts
  <2>2. c.ep \in Endpoints /\ c.best \in Best
    BY <1>0, <1>3, DiscoveryFacts
  <2>3. AllocType' /\ DOMAIN aWork \subseteq DOMAIN aWork'
    BY <1>0, <2>1, <2>2, DiscoveryWorks
  <2>4. UNCHANGED <<config, hsMaps, hWork, ready, hState, doneCh, discoInfo, canceled, loop, agenda>>
    BY <1>3 DEF StartDiscovery
  <2>5. ConfigType' /\ HsType'
    BY <1>0, <2>4, Frames
  <2>6. Tasks \subseteq Tasks' /\ Works \subseteq Works'
    BY <2>3, <2>4, TasksGrow
  <2>7. DoneType'
    BY <1>0, <2>4, <2>6 DEF DoneType
  <2>8. event' = Other
    BY <1>3 DEF StartDiscovery, Take
  <2>9. agenda' \in Seq(Tasks')
    BY <1>l, <2>4, <2>6, SeqWider, Zenon
  <2>10. LoopType'
    BY <1>l, <2>4, <2>8, <2>9 DEF LoopType
  <2> QED BY <2>3, <2>5, <2>7, <2>10, TypePartsNext
<1>4. ASSUME NEW c \in WorkCalls, Accept(c) PROVE TypeOK'
  <2>1. UNCHANGED <<config, allocMaps, hsMaps, aWork, hWork, ready, aState, hState, doneCh,
                    discoInfo, canceled, loop>> /\ agenda' = <<c>>
    BY <1>4 DEF Accept, works, routines
  <2>2. c \in Tasks /\ c.op = "newServerEndpoint"
    BY <1>4 DEF Accept, WorkCalls, Tasks, StopCalls
  <2>3. event' \in {None, Other} \cup StopCalls
    BY <1>4, <2>2, TakeFacts DEF Accept
  <2>4. ConfigType' /\ AllocType' /\ HsType' /\ DoneType'
    BY <1>0, <2>1, Frames
  <2>5. LoopType'
    BY <1>l, <1>s, <2>1, <2>2, <2>3, LoopTypeNext
  <2> QED BY <2>4, <2>5, TypePartsNext
<1>5. ASSUME NEW m \in Messages, RxDiscoMsg(m) PROVE TypeOK'
  <2>1. UNCHANGED <<config, allocMaps, hsByDisco, hsBySDV, aWork, hWork, ready, aState, hState,
                    doneCh, discoInfo, canceled, loop>> /\ event' = Other
    BY <1>5 DEF RxDiscoMsg, Take, works, routines
  <2>2. agenda' \in Seq(Tasks)
    BY <1>0, <1>5, <1>s, <1>e, RxFacts
  <2>3. ConfigType' /\ AllocType' /\ DoneType'
    BY <1>0, <2>1, Frames
  <2>4. LoopType'
    BY <1>l, <2>1, <2>2, LoopTypeNext
  <2>5. /\ Partial(awaitingPong', DOMAIN hWork, AddrPorts \X VNIs)
        /\ Partial(apvToWork', AddrPorts \X VNIs, DOMAIN hWork)
    <3>1. CASE UNCHANGED <<awaitingPong, apvToWork>>
      BY <1>0, <3>1 DEF HsType
    <3>2. ASSUME NEW g \in DOMAIN hWork, Challenged(m, g)
          PROVE  /\ Partial(awaitingPong', DOMAIN hWork, AddrPorts \X VNIs)
                 /\ Partial(apvToWork', AddrPorts \X VNIs, DOMAIN hWork)
      BY <1>0, <3>2, PartialMaps, Zenon DEF HsType, Challenged
    <3> QED BY <1>0, <1>5, <3>1, <3>2, RxFacts
  <2>6. HsType'
    BY <1>0, <2>1, <2>5 DEF HsType, Partial
  <2> QED BY <2>3, <2>4, <2>6, TypePartsNext
<1>6. ASSUME NEW g \in DOMAIN aWork, TakeAllocDone(g) PROVE TypeOK'
  <2>1. /\ UNCHANGED <<config, hsMaps, aWork, hWork, ready, hState, doneCh, discoInfo, canceled, loop>>
        /\ event' = Other /\ AllocDone(g, <<>>) /\ aState' = [aState EXCEPT ![g].pc = "gone"]
    BY <1>6 DEF TakeAllocDone, works
  <2>2. aState' \in Seq(AStates) /\ Len(aState') = Len(aState)
    BY <1>0, <2>1, AStateFacts
  <2>3. AllocType' /\ agenda' \in Seq(Tasks)
    BY <1>0, <1>e, <2>1, <2>2, AllocDoneType, PushFacts
  <2>4. ConfigType' /\ HsType' /\ DoneType'
    BY <1>0, <2>1, Frames
  <2>5. LoopType'
    BY <1>l, <2>1, <2>3, LoopTypeNext
  <2> QED BY <2>3, <2>4, <2>5, TypePartsNext
<1>7. ASSUME NEW g \in DOMAIN hWork, TakeHandshakeDone(g) PROVE TypeOK'
  <2>1. /\ UNCHANGED <<config, allocMaps, aWork, hWork, aState, doneCh, discoInfo, canceled, loop,
                       agenda>>
        /\ event' = Other /\ HandshakeDone(g) /\ hState' = [hState EXCEPT ![g].pc = "gone"]
    BY <1>7 DEF TakeHandshakeDone
  <2>2. hState' \in Seq(HStates) /\ Len(hState') = Len(hState)
    BY <1>0, <2>1, HStateFacts
  <2>3. HsType'
    BY <1>0, <2>1, <2>2, HandshakeDoneType
  <2>4. ConfigType' /\ AllocType' /\ DoneType'
    BY <1>0, <2>1, Frames
  <2>5. LoopType'
    BY <1>l, <2>1, LoopTypeNext
  <2> QED BY <2>3, <2>4, <2>5, TypePartsNext
<1>8. ASSUME AwaitAlloc PROVE TypeOK'
  <2>1. Task("awaitAlloc")
    BY <1>8 DEF AwaitAlloc
  <2>2. Tail(agenda) \in Seq(Tasks) /\ Head(agenda).gen \in DOMAIN aWork
    BY <1>0, <2>1, HeadFacts, TaskFacts
  <2>3. /\ UNCHANGED <<config, hsMaps, aWork, hWork, ready, aState, hState, discoInfo, canceled, loop,
                       event>>
        /\ doneCh' \subseteq doneCh /\ AllocDone(Head(agenda).gen, Tail(agenda))
    BY <1>8 DEF AwaitAlloc, works
  <2>4. aState' \in Seq(AStates) /\ Len(aState') = Len(aState)
    BY <1>0, <2>3 DEF AllocType
  <2>5. AllocType' /\ agenda' \in Seq(Tasks)
    BY <1>0, <2>2, <2>3, <2>4, AllocDoneType, PushFacts
  <2>6. ConfigType' /\ HsType'
    BY <1>0, <2>3, Frames
  <2>7. DoneType'
    BY <1>0, <2>3, Frames DEF DoneType
  <2>8. LoopType'
    BY <1>l, <2>3, <2>5, LoopTypeNext
  <2> QED BY <2>5, <2>6, <2>7, <2>8, TypePartsNext
<1>9. ASSUME AwaitHandshake PROVE TypeOK'
  <2>1. Task("awaitHandshake") /\ Then(<<>>)
    BY <1>9 DEF AwaitHandshake
  <2>2. Tail(agenda) \in Seq(Tasks) /\ Head(agenda).gen \in DOMAIN hWork /\ agenda' = Tail(agenda)
    BY <1>0, <2>1, HeadFacts, TaskFacts
  <2>3. /\ UNCHANGED <<config, allocMaps, aWork, hWork, aState, hState, discoInfo, canceled, loop,
                       event>>
        /\ doneCh' \subseteq doneCh /\ HandshakeDone(Head(agenda).gen)
    BY <1>9 DEF AwaitHandshake
  <2>4. hState' \in Seq(HStates) /\ Len(hState') = Len(hState)
    BY <1>0, <2>3 DEF HsType
  <2>5. HsType'
    BY <1>0, <2>2, <2>3, <2>4, HandshakeDoneType
  <2>6. ConfigType' /\ AllocType'
    BY <1>0, <2>3, Frames
  <2>7. DoneType'
    BY <1>0, <2>3, Frames DEF DoneType
  <2>8. LoopType'
    BY <1>l, <2>2, <2>3, LoopTypeNext
  <2> QED BY <2>5, <2>6, <2>7, <2>8, TypePartsNext
<1>10. ASSUME StopPass PROVE TypeOK'
  <2>1. Task("stopPass")
    BY <1>10 DEF StopPass
  <2>2. Tail(agenda) \in Seq(Tasks)
    BY <1>0, <2>1, HeadFacts
  <2>3. UNCHANGED <<config, allocMaps, hsMaps, aWork, hWork, ready, aState, hState, doneCh,
                    discoInfo, canceled, loop, event>>
    BY <1>10 DEF StopPass, works, routines
  <2>4. ConfigType' /\ AllocType' /\ HsType' /\ DoneType'
    BY <1>0, <2>3, Frames
  <2>5. PICK S : S \subseteq Works /\ agenda' = <<[op |-> "stopEach", left |-> S]>> \o Tail(agenda)
    BY <1>0, <1>10, VisitFacts DEF StopPass, Then
  <2>6. agenda' \in Seq(Tasks)
    BY <2>2, <2>5, VisitFacts, PushFacts
  <2>7. LoopType'
    BY <1>l, <2>3, <2>6, LoopTypeNext
  <2> QED BY <2>4, <2>7, TypePartsNext
<1>16. ASSUME StopEach PROVE TypeOK'
  <2>1. Task("stopEach")
    BY <1>16 DEF StopEach
  <2>2. /\ Tail(agenda) \in Seq(Tasks) /\ (Then(<<>>) => agenda' = Tail(agenda))
        /\ Head(agenda).left \subseteq Works
    BY <1>0, <2>1, HeadFacts, TaskFacts
  <2>3. UNCHANGED <<config, allocMaps, hsMaps, aWork, hWork, ready, aState, hState, doneCh,
                    discoInfo, loop, event>>
    BY <1>16 DEF StopEach, works, routines
  <2>4. ConfigType' /\ AllocType' /\ HsType'
    BY <1>0, <2>3, Frames
  <2>5. canceled' \subseteq Works /\ agenda' \in Seq(Tasks)
    <3>1. CASE Then(<<>>) /\ UNCHANGED canceled
      BY <1>0, <2>2, <3>1 DEF DoneType
    <3>2. ASSUME NEW S, S \subseteq Works, NEW w \in Works, canceled' = canceled \cup {w},
                 agenda' = <<Await(w), [op |-> "stopEach", left |-> S]>> \o Tail(agenda)
          PROVE  canceled' \subseteq Works /\ agenda' \in Seq(Tasks)
      <4>1. Await(w) \in Tasks /\ [op |-> "stopEach", left |-> S] \in Tasks
        BY <3>2, VisitFacts
      <4> QED BY <1>0, <2>2, <3>2, <4>1 DEF DoneType
    <3> QED BY <1>16, <2>2, <3>1, <3>2 DEF StopEach, Then
  <2>6. DoneType'
    BY <1>0, <2>3, <2>5, Frames DEF DoneType
  <2>7. LoopType'
    BY <1>l, <2>3, <2>5, LoopTypeNext
  <2> QED BY <2>4, <2>6, <2>7, TypePartsNext
<1>17. ASSUME NEW c \in WorkCalls, StopWork(c) PROVE TypeOK'
  <2>1. /\ UNCHANGED <<config, allocMaps, hsMaps, aWork, hWork, ready, aState, hState, doneCh,
                       discoInfo, canceled, loop>>
        /\ agenda' = <<Pass("alloc", c.ep), Pass("handshake", c.ep)>>
    BY <1>17 DEF StopWork, works, routines
  <2>2. c \in StopCalls
    BY <1>17 DEF StopWork, WorkCalls, StopCalls
  <2>3. Pass("alloc", c.ep) \in Tasks /\ Pass("handshake", c.ep) \in Tasks
    BY <2>2 DEF StopCalls, Pass, Tasks
  <2>4. event' \in {None, Other} \cup StopCalls
    BY <1>17, <2>2, TakeFacts DEF StopWork
  <2>5. ConfigType' /\ AllocType' /\ HsType' /\ DoneType'
    BY <1>0, <2>1, Frames
  <2>6. agenda' \in Seq(Tasks)
    BY <2>1, <2>3
  <2>7. LoopType'
    BY <1>l, <2>1, <2>4, <2>6, LoopTypeNext
  <2> QED BY <2>5, <2>7, TypePartsNext
<1>11. ASSUME NewServerEndpoint PROVE TypeOK'
  <2>1. Task("newServerEndpoint")
    BY <1>11 DEF NewServerEndpoint
  <2>2. PICK e \in Tasks : e = Head(agenda) /\ e.op = "newServerEndpoint"
    BY <1>0, <2>1, HeadFacts
  <2>3. Tail(agenda) \in Seq(Tasks) /\ (Then(<<>>) => agenda' = Tail(agenda))
    BY <1>0, <2>1, HeadFacts
  <2>4. UNCHANGED <<config, allocMaps, aWork, aState, doneCh, discoInfo, loop, event>>
    BY <1>11 DEF NewServerEndpoint
  <2>5. ConfigType' /\ AllocType'
    BY <1>0, <2>4, Frames
  <2>6. CASE ReplaceOlder(e)
    <3>1. PICK g \in Rivals(e) : /\ canceled' = canceled \cup {Handshake(g)}
                                  /\ agenda' = <<Await(Handshake(g))>> \o agenda
      BY <2>6 DEF ReplaceOlder
    <3>2. UNCHANGED <<hsMaps, hWork, hState, ready>>
      BY <2>6 DEF ReplaceOlder
    <3>3. g \in DOMAIN hWork
      BY <1>0, RivalFacts
    <3>4. canceled' \subseteq Works
      BY <1>0, <3>1, <3>3 DEF DoneType, Works
    <3>5. agenda' \in Seq(Tasks)
      <4>1. Handshake(g) \in Works
        BY <3>3 DEF Works
      <4> QED BY <1>l, <3>1, <4>1, VisitFacts, PushFacts
    <3>6. HsType'
      BY <1>0, <3>2, Frames
    <3>7. DoneType'
      BY <1>0, <2>4, <3>2, <3>4, Frames DEF DoneType
    <3>8. LoopType'
      BY <1>l, <2>4, <3>2, <3>5, LoopTypeNext
    <3> QED BY <2>5, <3>6, <3>7, <3>8, TypePartsNext
  <2>7. CASE Discard(e)
    <3>1. UNCHANGED <<hsMaps, hWork, hState, ready, canceled>> /\ Then(<<>>)
      BY <2>7 DEF Discard
    <3>2. HsType' /\ DoneType'
      BY <1>0, <2>4, <3>1, Frames
    <3>3. LoopType'
      BY <1>l, <2>3, <2>4, <3>1, LoopTypeNext
    <3> QED BY <2>5, <3>2, <3>3, TypePartsNext
  <2>8. CASE StartHandshake(e)
    <3>1. HsType' /\ DOMAIN hWork' = DOMAIN hWork \cup {Len(hWork) + 1}
      BY <1>0, <2>2, <2>8, StartHandshakeType, TaskFacts
    <3>2. Tasks \subseteq Tasks' /\ Works \subseteq Works'
      BY <2>4, <3>1, TasksGrow
    <3>3. Then(<<>>) /\ UNCHANGED canceled
      BY <2>8 DEF StartHandshake
    <3>4. DoneType'
      BY <1>0, <2>4, <3>1, <3>2, <3>3 DEF DoneType
    <3>5. agenda' = Tail(agenda)
      BY <2>3, <3>3
    <3>6. Tail(agenda) \in Seq(Tasks')
      BY <2>3, <3>2, SeqWider, Zenon
    <3>7. LoopType'
      BY <1>l, <2>4, <3>5, <3>6 DEF LoopType
    <3> QED BY <2>5, <3>1, <3>4, <3>7, TypePartsNext
  <2> QED BY <1>11, <2>2, <2>6, <2>7, <2>8 DEF NewServerEndpoint
<1>12. ASSUME Give PROVE TypeOK'
  <2>1. Task("give")
    BY <1>12 DEF Give
  <2>2. PICK t \in Tasks : t = Head(agenda) /\ t.op = "give"
    BY <1>0, <2>1, HeadFacts
  <2>3. Tail(agenda) \in Seq(Tasks) /\ (Then(<<>>) => agenda' = Tail(agenda))
    BY <1>0, <2>1, HeadFacts
  <2>4. UNCHANGED <<config, aWork, hWork, discoInfo, canceled, loop, event>>
    BY <1>12 DEF Give
  <2>5. /\ t.work[1] = "alloc" => t.work[2] \in DOMAIN aWork /\ t.msg \in AllocMessages
        /\ t.work[1] = "handshake" => t.work[2] \in DOMAIN hWork
    BY <2>2, TaskFacts DEF Alloc, Handshake
  <2>6. ConfigType'
    BY <1>0, <2>4, Frames
  <2>7. AllocType' /\ HsType' /\ doneCh' \subseteq doneCh /\ agenda' \in Seq(Tasks)
    <3>1. ASSUME t.work[1] = "alloc", AllocHears(t.work[2], t.msg), Then(<<>>),
                 UNCHANGED <<allocMaps, hsMaps, ready, hState, doneCh>>
          PROVE  AllocType' /\ HsType' /\ doneCh' \subseteq doneCh /\ agenda' \in Seq(Tasks)
      <4>1. t.msg.se \in ServerEndpoints
        BY <2>5, <3>1 DEF AllocMessages
      <4>2. [pc |-> "return", se |-> t.msg.se] \in AStates
        BY <4>1 DEF AStates
      <4>3. t.work[2] \in DOMAIN aState /\ aState \in Seq(AStates)
        BY <1>0, <2>5, <3>1, WorkFacts DEF AllocType
      <4>4. aState' \in Seq(AStates) /\ Len(aState') = Len(aState)
        BY <3>1, <4>2, <4>3, SeqExcept DEF AllocHears
      <4>5. AllocType'
        BY <1>0, <2>4, <3>1, <4>4 DEF AllocType, allocMaps, Partial
      <4> QED BY <1>0, <2>3, <2>4, <3>1, <4>5, Frames
    <3>2. ASSUME t.work[1] = "handshake", HandshakeHears(t.work[2], t.msg), Then(<<>>),
                 UNCHANGED <<allocMaps, hsMaps, ready, aState, doneCh>>
          PROVE  AllocType' /\ HsType' /\ doneCh' \subseteq doneCh /\ agenda' \in Seq(Tasks)
      <4>1. hState' \in Seq(HStates) /\ Len(hState') = Len(hState)
        BY <1>0, <2>5, <3>2, HearsType
      <4>2. HsType'
        BY <1>0, <2>4, <3>2, <4>1 DEF HsType, hsMaps, Partial
      <4> QED BY <1>0, <2>3, <2>4, <3>2, <4>2, Frames
    <3>3. ASSUME t.work[1] = "alloc", doneCh' \subseteq doneCh, AllocDone(t.work[2], Tail(agenda)),
                 UNCHANGED <<hsMaps, ready, aState, hState>>
          PROVE  AllocType' /\ HsType' /\ doneCh' \subseteq doneCh /\ agenda' \in Seq(Tasks)
      <4>1. aState' \in Seq(AStates) /\ Len(aState') = Len(aState)
        BY <1>0, <3>3 DEF AllocType
      <4>2. AllocType' /\ agenda' \in Seq(Tasks)
        BY <1>0, <2>3, <2>4, <2>5, <3>3, <4>1, AllocDoneType, PushFacts
      <4> QED BY <1>0, <2>4, <3>3, <4>2, Frames
    <3>4. ASSUME t.work[1] = "handshake", doneCh' \subseteq doneCh, HandshakeDone(t.work[2]),
                 Then(<<>>), UNCHANGED <<allocMaps, aState, hState>>
          PROVE  AllocType' /\ HsType' /\ doneCh' \subseteq doneCh /\ agenda' \in Seq(Tasks)
      <4>1. hState' \in Seq(HStates) /\ Len(hState') = Len(hState)
        BY <1>0, <3>4 DEF HsType
      <4>2. HsType'
        BY <1>0, <2>4, <2>5, <3>4, <4>1, HandshakeDoneType
      <4> QED BY <1>0, <2>3, <2>4, <3>4, <4>2, Frames
    <3> QED BY <1>12, <2>2, <3>1, <3>2, <3>3, <3>4 DEF Give
  <2>8. DoneType'
    BY <1>0, <2>4, <2>7, Frames DEF DoneType
  <2>9. LoopType'
    BY <1>l, <2>4, <2>7, LoopTypeNext
  <2> QED BY <2>6, <2>7, <2>8, <2>9, TypePartsNext
<1>13. ASSUME NEW g \in DOMAIN hWork, HandshakeBegins(g) \/ HandshakeReturns(g) PROVE TypeOK'
  <2>1. /\ UNCHANGED <<config, allocMaps, hsMaps, aWork, hWork, ready, aState, canceled, loop, agenda,
                       event>>
        /\ doneCh' \subseteq doneCh \cup {Handshake(g)}
        /\ \/ discoInfo' = [discoInfo EXCEPT ![hWork[g].se.disco] = @ \cup {g}]
           \/ discoInfo' = [discoInfo EXCEPT ![hWork[g].se.disco] = @ \ {g}]
    BY <1>13 DEF HandshakeBegins, HandshakeReturns, works
  <2>2. hState' \in Seq(HStates) /\ Len(hState') = Len(hState)
    <3>1. \/ \E pc \in {"wait", "return"} : hState' = [hState EXCEPT ![g].pc = pc]
          \/ hState' = [hState EXCEPT ![g] = [@ EXCEPT !.pc = "offer", !.answered = FALSE, !.pings = 0]]
      BY <1>13 DEF HandshakeBegins, HandshakeReturns
    <3> QED BY <1>0, <3>1, HStateFacts
  <2>3. HsType'
    BY <1>0, <2>1, <2>2 DEF HsType, hsMaps, Partial
  <2>4. ConfigType' /\ AllocType'
    BY <1>0, <2>1, Frames
  <2>5. DoneType'
    <3>1. Works' = Works /\ Handshake(g) \in Works
      BY <2>1, Frames DEF Works
    <3>2. discoInfo' \in [ServerDiscos -> SUBSET DOMAIN hWork]
      BY <1>0, <2>1 DEF DoneType
    <3> QED BY <1>0, <2>1, <3>1, <3>2 DEF DoneType
  <2>6. LoopType'
    BY <1>l, <2>1, LoopTypeNext
  <2> QED BY <2>3, <2>4, <2>5, <2>6, TypePartsNext
<1>14. ASSUME NEW g \in DOMAIN aWork, AllocReturns(g) PROVE TypeOK'
  <2>1. /\ UNCHANGED <<config, allocMaps, hsMaps, aWork, hWork, ready, hState, discoInfo, canceled,
                       loop, agenda, event>>
        /\ doneCh' = doneCh \cup {Alloc(g)} /\ aState' = [aState EXCEPT ![g].pc = "offer"]
    BY <1>14 DEF AllocReturns, works
  <2>2. aState' \in Seq(AStates) /\ Len(aState') = Len(aState)
    BY <1>0, <2>1, AStateFacts
  <2>3. AllocType'
    BY <1>0, <2>1, <2>2 DEF AllocType, allocMaps, Partial
  <2>4. ConfigType' /\ HsType'
    BY <1>0, <2>1, Frames
  <2>5. DoneType'
    <3>1. Works' = Works /\ Alloc(g) \in Works
      BY <2>1, Frames DEF Works
    <3> QED BY <1>0, <2>1, <3>1 DEF DoneType
  <2>6. LoopType'
    BY <1>l, <2>1, LoopTypeNext
  <2> QED BY <2>3, <2>4, <2>5, <2>6, TypePartsNext
<1>15. ASSUME NEW w \in Works, OfferCanceled(w) PROVE TypeOK'
  <2>1. UNCHANGED <<config, allocMaps, hsMaps, aWork, hWork, ready, doneCh, discoInfo, canceled, loop,
                    agenda, event>>
    BY <1>15 DEF OfferCanceled, works
  <2>2. \/ \E g \in DOMAIN aWork : aState' = [aState EXCEPT ![g].pc = "gone"] /\ UNCHANGED hState
        \/ \E g \in DOMAIN hWork : hState' = [hState EXCEPT ![g].pc = "gone"] /\ UNCHANGED aState
    <3>1. w[1] = "alloc" => w[2] \in DOMAIN aWork
      BY DEF Works, Alloc, Handshake
    <3>2. w[1] # "alloc" => w[2] \in DOMAIN hWork
      BY DEF Works, Alloc, Handshake
    <3> QED BY <1>15, <3>1, <3>2 DEF OfferCanceled
  <2>3. AllocType' /\ HsType'
    <3>1. ASSUME NEW g \in DOMAIN aWork, aState' = [aState EXCEPT ![g].pc = "gone"], UNCHANGED hState
          PROVE  AllocType' /\ HsType'
      <4>1. aState' \in Seq(AStates) /\ Len(aState') = Len(aState)
        BY <1>0, <3>1, AStateFacts
      <4>2. AllocType'
        BY <1>0, <2>1, <4>1 DEF AllocType, allocMaps, Partial
      <4> QED BY <1>0, <2>1, <3>1, <4>2, Frames
    <3>2. ASSUME NEW g \in DOMAIN hWork, hState' = [hState EXCEPT ![g].pc = "gone"], UNCHANGED aState
          PROVE  AllocType' /\ HsType'
      <4>1. hState' \in Seq(HStates) /\ Len(hState') = Len(hState)
        BY <1>0, <3>2, HStateFacts
      <4>2. HsType'
        BY <1>0, <2>1, <4>1 DEF HsType, hsMaps, Partial
      <4> QED BY <1>0, <2>1, <3>2, <4>2, Frames
    <3> QED BY <2>2, <3>1, <3>2
  <2>4. ConfigType' /\ DoneType'
    BY <1>0, <2>1, Frames
  <2>5. LoopType'
    BY <1>l, <2>1, LoopTypeNext
  <2> QED BY <2>3, <2>4, <2>5, TypePartsNext
<1> QED
  BY <1>1, <1>2, <1>3, <1>4, <1>5, <1>6, <1>7, <1>8, <1>9, <1>10, <1>11, <1>12, <1>13, <1>14, <1>15,
     <1>16, <1>17 DEF Next, LoopNext, WorkNext

-----------------------------------------------------------------------------
(* What a step does to the handshakes and to the allocations.                *)

Working == {"begin", "wait", "return"}

\* The goroutine of a work goes on, from pc to pcN; it is in doneCh, or will be.
Moves(pc, pcN, done, doneN) ==
  \/ pcN = pc /\ done = doneN
  \/ pc \in Working /\ pcN \in Working /\ done = doneN
  \/ pc \in Working /\ pcN = "offer" /\ doneN
  \/ pc = "offer" /\ pcN = "gone" /\ done = doneN

HsMoves ==
  \A g \in DOMAIN hWork :
    /\ Moves(hState[g].pc, hState'[g].pc, Handshake(g) \in doneCh, Handshake(g) \in doneCh')
    /\ hState[g].pong => hState'[g].pong

\* Nothing but goroutines.
HsStill == UNCHANGED <<hsMaps, hWork, ready>> /\ HsMoves

\* The done event of g is taken, from doneCh or as it was offered.
HsDone(g) ==
  /\ HandshakeDone(g) /\ UNCHANGED hWork /\ loop = "running" /\ loop' = loop
  /\ hState[g].pc = "offer" \/ Handshake(g) \in doneCh
  /\ Handshake(g) \in doneCh' => Handshake(g) \in doneCh
  /\ hState[g].pc = "offer" => hState'[g].pc \in {"offer", "gone"}
  /\ hState[g].pc # "offer" => hState'[g].pc = hState[g].pc
  /\ \A h \in DOMAIN hWork :
       /\ hState'[h].pong = hState[h].pong
       /\ h # g => /\ hState'[h].pc = hState[h].pc
                   /\ Handshake(h) \in doneCh' <=> Handshake(h) \in doneCh

HsStarted(e) ==
  /\ StartHandshake(e) /\ e.ep \in Endpoints /\ e.se \in ServerEndpoints
  /\ UNCHANGED doneCh /\ loop = "running" /\ loop' = loop

HsChallenged(m, g) ==
  /\ Challenged(m, g) /\ UNCHANGED <<hsByDisco, hsBySDV, hWork, ready, hState, doneCh>>
  /\ loop = "running" /\ loop' = loop

\* Every step does one of these to the handshakes.
LEMMA HsKinds ==
  ASSUME TypeOK, [Next]_vars
  PROVE  \/ HsStill
         \/ \E g \in DOMAIN hWork : HsDone(g)
         \/ \E e : HsStarted(e)
         \/ \E m : \E g \in DOMAIN hWork : HsChallenged(m, g)
<1>0. ConfigType /\ AllocType /\ HsType /\ DoneType /\ LoopType
  BY TypeParts
<1>a. \A g, h : Alloc(g) # Handshake(h) /\ (Handshake(g) = Handshake(h) => g = h)
  BY DEF Alloc, Handshake
<1>b. ASSUME UNCHANGED <<hsMaps, hWork, ready, hState>>,
             \A h : Handshake(h) \in doneCh' <=> Handshake(h) \in doneCh
      PROVE  HsStill
  <2>1. HsMoves
    BY <1>b DEF HsMoves, Moves
  <2> QED BY <1>b, <2>1 DEF HsStill
<1>1. CASE \/ CallNext \/ StartLoop \/ EndEvent \/ UNCHANGED vars
           \/ \E c \in ConfigCalls : Configure(c)
           \/ \E c \in WorkCalls : StartDiscovery(c) \/ StopWork(c) \/ Accept(c)
           \/ StopPass \/ StopEach
  <2>1. UNCHANGED <<hsMaps, hWork, ready, hState, doneCh>>
    BY <1>1 DEF CallNext, Call, DiscoChanges, StartLoop, EndEvent, vars, Configure, StartDiscovery,
         Accept, StopWork, StopPass, StopEach, works, routines
  <2> QED BY <1>b, <2>1
<1>2. ASSUME NEW m \in Messages, RxDiscoMsg(m)
      PROVE  HsStill \/ \E g \in DOMAIN hWork : HsChallenged(m, g)
  <2>1. UNCHANGED <<hsByDisco, hsBySDV, hWork, ready, hState, doneCh, loop>> /\ loop = "running"
    BY <1>2 DEF RxDiscoMsg, Take, Idle, works, routines
  <2>2. CASE UNCHANGED <<awaitingPong, apvToWork>>
    BY <1>b, <2>1, <2>2 DEF hsMaps
  <2>3. ASSUME NEW g \in DOMAIN hWork, Challenged(m, g) PROVE HsChallenged(m, g)
    BY <2>1, <2>3 DEF HsChallenged
  <2> QED BY <1>0, <1>2, <2>2, <2>3, RxFacts
<1>3. ASSUME NEW g \in DOMAIN aWork, TakeAllocDone(g) \/ AllocReturns(g) PROVE HsStill
  <2>1. UNCHANGED <<hsMaps, hWork, ready, hState>>
    BY <1>3 DEF TakeAllocDone, AllocReturns, works
  <2>2. doneCh' = doneCh \/ doneCh' = doneCh \cup {Alloc(g)}
    BY <1>3 DEF TakeAllocDone, AllocReturns
  <2> QED BY <1>a, <1>b, <2>1, <2>2
<1>4. ASSUME AwaitAlloc PROVE HsStill
  <2>1. UNCHANGED <<hsMaps, hWork, ready, hState>> /\ doneCh' = doneCh \ {Alloc(Head(agenda).gen)}
    BY <1>4 DEF AwaitAlloc, works
  <2> QED BY <1>a, <1>b, <2>1
<1>5. ASSUME NEW g \in DOMAIN hWork, TakeHandshakeDone(g) PROVE HsDone(g)
  <2>1. /\ HandshakeDone(g) /\ UNCHANGED <<hWork, doneCh, loop>> /\ loop = "running"
        /\ hState[g].pc = "offer" /\ hState' = [hState EXCEPT ![g].pc = "gone"]
    BY <1>5 DEF TakeHandshakeDone, Idle
  <2>2. /\ hState'[g].pc = "gone" /\ hState'[g].pong = hState[g].pong
        /\ \A h \in DOMAIN hWork : h # g => hState'[h] = hState[h]
    BY <1>0, <2>1, HStateFacts
  <2> QED BY <2>1, <2>2 DEF HsDone
<1>6. ASSUME AwaitHandshake PROVE \E g \in DOMAIN hWork : HsDone(g)
  <2>1. PICK g : g = Head(agenda).gen
    OBVIOUS
  <2>2. g \in DOMAIN hWork /\ loop = "running"
    BY <1>0, <1>6, <2>1, HeadFacts, TaskFacts DEF AwaitHandshake
  <2>3. /\ HandshakeDone(g) /\ UNCHANGED <<hWork, hState, loop>>
        /\ Handshake(g) \in doneCh /\ doneCh' = doneCh \ {Handshake(g)}
    BY <1>6, <2>1 DEF AwaitHandshake
  <2>4. HsDone(g)
    BY <1>a, <2>2, <2>3 DEF HsDone
  <2> QED BY <2>2, <2>4
<1>7. ASSUME NewServerEndpoint PROVE HsStill \/ \E e : HsStarted(e)
  <2>1. PICK e : e = Head(agenda)
    OBVIOUS
  <2>2. loop = "running" /\ e.ep \in Endpoints /\ e.se \in ServerEndpoints
    BY <1>0, <1>7, <2>1, HeadFacts, TaskFacts DEF NewServerEndpoint
  <2>3. UNCHANGED <<doneCh, loop>>
    BY <1>7 DEF NewServerEndpoint
  <2>4. CASE ReplaceOlder(e) \/ Discard(e)
    <3>1. UNCHANGED <<hsMaps, hWork, hState, ready>>
      BY <2>4 DEF ReplaceOlder, Discard
    <3> QED BY <1>b, <2>3, <3>1
  <2>5. CASE StartHandshake(e)
    BY <2>2, <2>3, <2>5 DEF HsStarted
  <2> QED BY <1>7, <2>1, <2>4, <2>5 DEF NewServerEndpoint
<1>8. ASSUME Give PROVE HsStill \/ \E g \in DOMAIN hWork : HsDone(g)
  <2>1. PICK t \in Tasks : t = Head(agenda) /\ t.op = "give"
    BY <1>0, <1>8, HeadFacts DEF Give
  <2>2. loop = "running" /\ UNCHANGED <<hWork, loop>>
    BY <1>8 DEF Give, Task
  <2>3. PICK w, g, m : w = t.work /\ g = w[2] /\ m = t.msg
    OBVIOUS
  <2>4. w[1] = "handshake" => w = Handshake(g) /\ g \in DOMAIN hWork
    BY <2>1, <2>3, TaskFacts DEF Alloc, Handshake
  <2>5. w[1] = "alloc" => w = Alloc(g)
    BY <2>1, <2>3, TaskFacts DEF Alloc, Handshake
  <2>6. CASE w[1] = "alloc" /\ UNCHANGED <<hsMaps, ready, hState>> /\ doneCh' \in {doneCh, doneCh \ {w}}
    BY <1>a, <1>b, <2>2, <2>5, <2>6
  <2>7. CASE /\ w[1] = "handshake" /\ PC(w) = "wait" /\ HandshakeHears(g, m)
             /\ UNCHANGED <<hsMaps, ready, doneCh>>
    <3>1. /\ hState'[g].pc \in {hState[g].pc, "return"} /\ (hState[g].pong => hState'[g].pong)
          /\ \A h \in DOMAIN hWork : h # g => hState'[h] = hState[h]
      BY <1>0, <2>4, <2>7, HearsType
    <3>2. hState[g].pc = "wait"
      BY <2>3, <2>7 DEF PC
    <3>3. HsMoves
      BY <2>7, <3>1, <3>2 DEF HsMoves, Moves, Working
    <3> QED BY <2>2, <2>7, <3>3 DEF HsStill
  <2>8. CASE /\ w[1] = "handshake" /\ w \in doneCh /\ doneCh' = doneCh \ {w} /\ HandshakeDone(g)
             /\ UNCHANGED hState
    <3>1. HsDone(g)
      BY <1>a, <2>2, <2>4, <2>8 DEF HsDone
    <3> QED BY <2>4, <2>8, <3>1
  <2> QED BY <1>8, <2>1, <2>3, <2>6, <2>7, <2>8 DEF Give
<1>9. ASSUME NEW g \in DOMAIN hWork, HandshakeBegins(g) \/ HandshakeReturns(g) PROVE HsStill
  <2>1. UNCHANGED <<hsMaps, hWork, ready>>
    BY <1>9 DEF HandshakeBegins, HandshakeReturns, works
  <2>2. CASE HandshakeBegins(g)
    <3>1. PICK pc \in {"wait", "return"} : hState' = [hState EXCEPT ![g].pc = pc]
      BY <2>2 DEF HandshakeBegins
    <3>2. /\ hState'[g].pc = pc /\ hState'[g].pong = hState[g].pong
          /\ \A h \in DOMAIN hWork : h # g => hState'[h] = hState[h]
      BY <1>0, <3>1, HStateFacts
    <3>3. hState[g].pc = "begin" /\ doneCh' = doneCh
      BY <2>2 DEF HandshakeBegins
    <3>4. HsMoves
      BY <3>2, <3>3 DEF HsMoves, Moves, Working
    <3> QED BY <2>1, <3>4 DEF HsStill
  <2>3. CASE HandshakeReturns(g)
    <3>1. /\ hState' = [hState EXCEPT ![g] = [@ EXCEPT !.pc = "offer", !.answered = FALSE, !.pings = 0]]
          /\ hState[g].pc \in Working /\ doneCh' = doneCh \cup {Handshake(g)}
      BY <2>3 DEF HandshakeReturns, Working
    <3>2. /\ hState'[g].pc = "offer" /\ hState'[g].pong = hState[g].pong
          /\ \A h \in DOMAIN hWork : h # g => hState'[h] = hState[h]
      BY <1>0, <3>1, HStateFacts
    <3>3. HsMoves
      BY <1>a, <3>1, <3>2 DEF HsMoves, Moves
    <3> QED BY <2>1, <3>3 DEF HsStill
  <2> QED BY <1>9, <2>2, <2>3
<1>10. ASSUME NEW w \in Works, OfferCanceled(w) PROVE HsStill
  <2>1. UNCHANGED <<hsMaps, hWork, ready, doneCh>>
    BY <1>10 DEF OfferCanceled, works
  <2>2. CASE w[1] = "alloc"
    BY <1>b, <1>10, <2>1, <2>2 DEF OfferCanceled
  <2>3. CASE w[1] # "alloc"
    <3>1. PICK g \in DOMAIN hWork : w = Handshake(g)
      BY <2>3 DEF Works, Alloc
    <3>2. hState[g].pc = "offer" /\ hState' = [hState EXCEPT ![g].pc = "gone"]
      BY <1>10, <2>3, <3>1 DEF OfferCanceled, PC, Handshake
    <3>3. /\ hState'[g].pc = "gone" /\ hState'[g].pong = hState[g].pong
          /\ \A h \in DOMAIN hWork : h # g => hState'[h] = hState[h]
      BY <1>0, <3>2, HStateFacts
    <3>4. HsMoves
      BY <2>1, <3>2, <3>3 DEF HsMoves, Moves
    <3> QED BY <2>1, <3>4 DEF HsStill
  <2> QED BY <2>2, <2>3
<1> QED
  BY <1>1, <1>2, <1>3, <1>4, <1>5, <1>6, <1>7, <1>8, <1>9, <1>10
     DEF Next, LoopNext, WorkNext

AMoves ==
  \A g \in DOMAIN aWork :
    Moves(aState[g].pc, aState'[g].pc, Alloc(g) \in doneCh, Alloc(g) \in doneCh')

\* Nothing but goroutines.
AStill == UNCHANGED <<allocMaps, aWork>> /\ AMoves

\* The allocation g leaves the maps, if it is there.
AllocLeaves(g) ==
  IF CurrentAlloc(g)
    THEN /\ allocByRelay' = Without(allocByRelay, <<aWork[g].ep, aWork[g].cand>>)
         /\ allocByKeys' = Without(allocByKeys, <<NodeKey(aWork[g].cand), aWork[g].keys>>)
    ELSE UNCHANGED allocMaps

\* The done event of g is taken, from doneCh or as it was offered.
ADone(g) ==
  /\ AllocLeaves(g) /\ UNCHANGED aWork /\ loop = "running" /\ loop' = loop
  /\ aState[g].pc = "offer" \/ Alloc(g) \in doneCh
  /\ Alloc(g) \in doneCh' => Alloc(g) \in doneCh
  /\ aState[g].pc = "offer" => aState'[g].pc \in {"offer", "gone"}
  /\ aState[g].pc # "offer" => aState'[g].pc = aState[g].pc
  /\ \A h \in DOMAIN aWork : h # g => /\ aState'[h].pc = aState[h].pc
                                      /\ Alloc(h) \in doneCh' <=> Alloc(h) \in doneCh

AStarted(c, asked, n, order, pl) ==
  /\ Discovery(c, asked, n, order, pl) /\ c.ep \in Endpoints /\ c.best \in Best
  /\ UNCHANGED doneCh /\ loop = "running" /\ loop' = loop

\* Every step does one of these to the allocations.
LEMMA AllocKinds ==
  ASSUME TypeOK, [Next]_vars
  PROVE  \/ AStill
         \/ \E g \in DOMAIN aWork : ADone(g)
         \/ \E c, asked, n, order, pl : AStarted(c, asked, n, order, pl)
<1>0. ConfigType /\ AllocType /\ HsType /\ DoneType /\ LoopType
  BY TypeParts
<1>a. \A g, h : Alloc(g) # Handshake(h) /\ (Alloc(g) = Alloc(h) => g = h)
  BY DEF Alloc, Handshake
<1>b. ASSUME UNCHANGED <<allocMaps, aWork, aState>>,
             \A h : Alloc(h) \in doneCh' <=> Alloc(h) \in doneCh
      PROVE  AStill
  <2>1. AMoves
    BY <1>b DEF AMoves, Moves
  <2> QED BY <1>b, <2>1 DEF AStill
<1>c. ASSUME NEW g, NEW rest, AllocDone(g, rest) PROVE AllocLeaves(g)
  BY <1>c, Zenon DEF AllocDone, AllocLeaves
<1>1. CASE \/ CallNext \/ StartLoop \/ EndEvent \/ UNCHANGED vars
           \/ \E c \in ConfigCalls : Configure(c)
           \/ \E c \in WorkCalls : StopWork(c) \/ Accept(c)
           \/ \E m \in Messages : RxDiscoMsg(m)
           \/ StopPass \/ StopEach \/ NewServerEndpoint
  <2>1. UNCHANGED <<allocMaps, aWork, aState, doneCh>>
    BY <1>1 DEF CallNext, Call, DiscoChanges, StartLoop, EndEvent, vars, Configure, RxDiscoMsg,
         Accept, StopWork, StopPass, StopEach, NewServerEndpoint, works, routines
  <2> QED BY <1>b, <2>1
<1>2. ASSUME NEW c \in WorkCalls, StartDiscovery(c)
      PROVE  \E asked, n, order, pl : AStarted(c, asked, n, order, pl)
  <2>1. PICK asked, n, order, pl : Discovery(c, asked, n, order, pl)
    BY <1>0, <1>2, DiscoveryFacts
  <2>2. c.ep \in Endpoints /\ c.best \in Best
    BY <1>0, <1>2, DiscoveryFacts
  <2>3. UNCHANGED <<doneCh, loop>> /\ loop = "running"
    BY <1>2 DEF StartDiscovery, Take, Idle
  <2>4. AStarted(c, asked, n, order, pl)
    BY <2>1, <2>2, <2>3 DEF AStarted
  <2> QED BY <2>4
<1>3. ASSUME NEW g \in DOMAIN hWork,
             TakeHandshakeDone(g) \/ HandshakeBegins(g) \/ HandshakeReturns(g)
      PROVE  AStill
  <2>1. UNCHANGED <<allocMaps, aWork, aState>>
    BY <1>3 DEF TakeHandshakeDone, HandshakeBegins, HandshakeReturns, works
  <2>2. doneCh' = doneCh \/ doneCh' = doneCh \cup {Handshake(g)}
    BY <1>3 DEF TakeHandshakeDone, HandshakeBegins, HandshakeReturns
  <2> QED BY <1>a, <1>b, <2>1, <2>2
<1>4. ASSUME AwaitHandshake PROVE AStill
  <2>1. /\ UNCHANGED <<allocMaps, aWork, aState>>
        /\ doneCh' = doneCh \ {Handshake(Head(agenda).gen)}
    BY <1>4 DEF AwaitHandshake
  <2> QED BY <1>a, <1>b, <2>1
<1>5. ASSUME NEW g \in DOMAIN aWork, TakeAllocDone(g) PROVE ADone(g)
  <2>1. /\ AllocDone(g, <<>>) /\ UNCHANGED <<aWork, doneCh, loop>> /\ loop = "running"
        /\ aState[g].pc = "offer" /\ aState' = [aState EXCEPT ![g].pc = "gone"]
    BY <1>5 DEF TakeAllocDone, Idle, works
  <2>2. aState'[g].pc = "gone" /\ \A h \in DOMAIN aWork : h # g => aState'[h] = aState[h]
    BY <1>0, <2>1, AStateFacts
  <2> QED BY <1>c, <2>1, <2>2 DEF ADone
<1>6. ASSUME AwaitAlloc PROVE \E g \in DOMAIN aWork : ADone(g)
  <2>1. PICK g : g = Head(agenda).gen
    OBVIOUS
  <2>2. g \in DOMAIN aWork /\ loop = "running"
    BY <1>0, <1>6, <2>1, HeadFacts, TaskFacts DEF AwaitAlloc
  <2>3. /\ AllocDone(g, Tail(agenda)) /\ UNCHANGED <<aWork, aState, loop>>
        /\ Alloc(g) \in doneCh /\ doneCh' = doneCh \ {Alloc(g)}
    BY <1>6, <2>1 DEF AwaitAlloc, works
  <2>4. ADone(g)
    BY <1>a, <1>c, <2>2, <2>3 DEF ADone
  <2> QED BY <2>2, <2>4
<1>7. ASSUME Give PROVE AStill \/ \E g \in DOMAIN aWork : ADone(g)
  <2>1. PICK t \in Tasks : t = Head(agenda) /\ t.op = "give"
    BY <1>0, <1>7, HeadFacts DEF Give
  <2>2. loop = "running" /\ UNCHANGED <<aWork, loop>>
    BY <1>7 DEF Give, Task
  <2>3. PICK w, g, m : w = t.work /\ g = w[2] /\ m = t.msg
    OBVIOUS
  <2>4. w[1] = "alloc" => w = Alloc(g) /\ g \in DOMAIN aWork
    BY <2>1, <2>3, TaskFacts DEF Alloc, Handshake
  <2>5. w[1] = "handshake" => w = Handshake(g)
    BY <2>1, <2>3, TaskFacts DEF Alloc, Handshake
  <2>6. CASE w[1] = "handshake" /\ UNCHANGED <<allocMaps, aState>> /\ doneCh' \in {doneCh, doneCh \ {w}}
    BY <1>a, <1>b, <2>2, <2>5, <2>6
  <2>7. CASE /\ w[1] = "alloc" /\ PC(w) = "wait" /\ AllocHears(g, m)
             /\ UNCHANGED <<allocMaps, doneCh>>
    <3>1. aState[g].pc = "wait"
      BY <2>3, <2>7 DEF PC
    <3>2. /\ aState'[g].pc \in {aState[g].pc, "return"}
          /\ \A h \in DOMAIN aWork : h # g => aState'[h] = aState[h]
      BY <1>0, <2>4, <2>7, WorkFacts DEF AllocHears
    <3>3. AMoves
      BY <2>7, <3>1, <3>2 DEF AMoves, Moves, Working
    <3> QED BY <2>2, <2>7, <3>3 DEF AStill
  <2>8. CASE /\ w[1] = "alloc" /\ w \in doneCh /\ doneCh' = doneCh \ {w}
             /\ AllocDone(g, Tail(agenda)) /\ UNCHANGED aState
    <3>1. ADone(g)
      BY <1>a, <1>c, <2>2, <2>4, <2>8 DEF ADone
    <3> QED BY <2>4, <2>8, <3>1
  <2> QED BY <1>7, <2>1, <2>3, <2>6, <2>7, <2>8 DEF Give
<1>8. ASSUME NEW g \in DOMAIN aWork, AllocReturns(g) PROVE AStill
  <2>1. /\ UNCHANGED <<allocMaps, aWork>> /\ aState' = [aState EXCEPT ![g].pc = "offer"]
        /\ aState[g].pc \in Working /\ doneCh' = doneCh \cup {Alloc(g)}
    BY <1>8 DEF AllocReturns, works, Working
  <2>2. aState'[g].pc = "offer" /\ \A h \in DOMAIN aWork : h # g => aState'[h] = aState[h]
    BY <1>0, <2>1, AStateFacts
  <2>3. AMoves
    BY <1>a, <2>1, <2>2 DEF AMoves, Moves
  <2> QED BY <2>1, <2>3 DEF AStill
<1>9. ASSUME NEW w \in Works, OfferCanceled(w) PROVE AStill
  <2>1. UNCHANGED <<allocMaps, aWork, doneCh>>
    BY <1>9 DEF OfferCanceled, works
  <2>2. CASE w[1] # "alloc"
    BY <1>b, <1>9, <2>1, <2>2 DEF OfferCanceled
  <2>3. CASE w[1] = "alloc"
    <3>1. PICK g \in DOMAIN aWork : w = Alloc(g)
      BY <2>3 DEF Works, Handshake
    <3>2. aState[g].pc = "offer" /\ aState' = [aState EXCEPT ![g].pc = "gone"]
      BY <1>9, <2>3, <3>1 DEF OfferCanceled, PC, Alloc
    <3>3. aState'[g].pc = "gone" /\ \A h \in DOMAIN aWork : h # g => aState'[h] = aState[h]
      BY <1>0, <3>2, AStateFacts
    <3>4. AMoves
      BY <2>1, <3>2, <3>3 DEF AMoves, Moves
    <3> QED BY <2>1, <3>4 DEF AStill
  <2> QED BY <2>2, <2>3
<1> QED
  BY <1>1, <1>2, <1>3, <1>4, <1>5, <1>6, <1>7, <1>8, <1>9
     DEF Next, LoopNext, WorkNext

-----------------------------------------------------------------------------
(* Two maps that hold the same works, each under a key of its own.           *)

In(f, key, g) == key[g] \in DOMAIN f /\ f[key[g]] = g

Indexed(f1, f2, k1, k2) ==
  /\ \A k \in DOMAIN f1 : k1[f1[k]] = k /\ In(f2, k2, f1[k])
  /\ \A k \in DOMAIN f2 : k2[f2[k]] = k /\ In(f1, k1, f2[k])

\* A work that leaves both maps takes no other with it.
LEMMA IndexedRemove ==
  ASSUME NEW f1, NEW f2, NEW k1, NEW k2, Indexed(f1, f2, k1, k2), NEW g, In(f1, k1, g)
  PROVE  LET r1 == Without(f1, k1[g])
             r2 == Without(f2, k2[g])
         IN /\ Indexed(r1, r2, k1, k2) /\ ~In(r1, k1, g)
            /\ \A h : h # g => (In(r1, k1, h) <=> In(f1, k1, h))
<1> DEFINE r1 == Without(f1, k1[g])
           r2 == Without(f2, k2[g])
<1>1. /\ DOMAIN r1 = DOMAIN f1 \ {k1[g]} /\ \A y \in DOMAIN f1 \ {k1[g]} : r1[y] = f1[y]
      /\ DOMAIN r2 = DOMAIN f2 \ {k2[g]} /\ \A y \in DOMAIN f2 \ {k2[g]} : r2[y] = f2[y]
  BY DEF Without, Restrict
<1>2. In(f2, k2, g)
  BY DEF Indexed, In
<1> HIDE DEF r1, r2
<1>3. ~In(r1, k1, g)
  BY <1>1 DEF In
<1>4. ASSUME NEW h, h # g PROVE In(r1, k1, h) <=> In(f1, k1, h)
  BY <1>1, <1>4 DEF In
<1>5. ASSUME NEW k \in DOMAIN r1 PROVE k1[r1[k]] = k /\ In(r2, k2, r1[k])
  <2>1. k \in DOMAIN f1 /\ r1[k] = f1[k] /\ f1[k] # g
    BY <1>1, <1>5 DEF Indexed, In
  <2>2. k1[f1[k]] = k /\ k2[f1[k]] \in DOMAIN f2 /\ f2[k2[f1[k]]] = f1[k]
    BY <2>1 DEF Indexed, In
  <2>3. k2[f1[k]] # k2[g]
    BY <1>2, <2>1, <2>2 DEF In
  <2> QED BY <1>1, <2>1, <2>2, <2>3 DEF In
<1>6. ASSUME NEW k \in DOMAIN r2 PROVE k2[r2[k]] = k /\ In(r1, k1, r2[k])
  <2>1. k \in DOMAIN f2 /\ r2[k] = f2[k] /\ f2[k] # g
    BY <1>1, <1>2, <1>6 DEF Indexed, In
  <2>2. k2[f2[k]] = k /\ k1[f2[k]] \in DOMAIN f1 /\ f1[k1[f2[k]]] = f2[k]
    BY <2>1 DEF Indexed, In
  <2>3. k1[f2[k]] # k1[g]
    BY <2>1, <2>2 DEF In
  <2> QED BY <1>1, <2>1, <2>2, <2>3 DEF In
<1>7. Indexed(r1, r2, k1, k2)
  BY <1>5, <1>6 DEF Indexed
<1> QED BY <1>3, <1>4, <1>7 DEF r1, r2

\* The maps r1 and r2 are f1 and f2 with the works of new, under keys that were free; old
\* are the works there were before.
Extended(f1, f2, k1, k2, r1, r2, m1, m2, old, new) ==
  /\ \A k \in DOMAIN f1 : f1[k] \in old /\ k \in DOMAIN r1 /\ r1[k] = f1[k]
  /\ \A k \in DOMAIN f2 : f2[k] \in old /\ k \in DOMAIN r2 /\ r2[k] = f2[k]
  /\ \A g \in old : g \notin new /\ m1[g] = k1[g] /\ m2[g] = k2[g]
  /\ \A k \in DOMAIN r1 : k \notin DOMAIN f1 => r1[k] \in new /\ m1[r1[k]] = k
  /\ \A k \in DOMAIN r2 : k \notin DOMAIN f2 => r2[k] \in new /\ m2[r2[k]] = k
  /\ \A g \in new : In(r1, m1, g) /\ In(r2, m2, g)

\* New works leave the others where they are.
LEMMA IndexedAdd ==
  ASSUME NEW f1, NEW f2, NEW k1, NEW k2, NEW r1, NEW r2, NEW m1, NEW m2, NEW old, NEW new,
         Indexed(f1, f2, k1, k2), Extended(f1, f2, k1, k2, r1, r2, m1, m2, old, new)
  PROVE  /\ Indexed(r1, r2, m1, m2)
         /\ \A g \in old : In(r1, m1, g) <=> In(f1, k1, g)
<1>1. ASSUME NEW k \in DOMAIN r1 PROVE m1[r1[k]] = k /\ In(r2, m2, r1[k])
  BY <1>1 DEF Extended, Indexed, In
<1>2. ASSUME NEW k \in DOMAIN r2 PROVE m2[r2[k]] = k /\ In(r1, m1, r2[k])
  BY <1>2 DEF Extended, Indexed, In
<1>3. ASSUME NEW g \in old PROVE In(r1, m1, g) <=> In(f1, k1, g)
  BY <1>3 DEF Extended, Indexed, In
<1> QED BY <1>1, <1>2, <1>3 DEF Indexed

-----------------------------------------------------------------------------
(* The invariant of the handshakes.                                          *)

DKeys == [g \in DOMAIN hWork |-> <<hWork[g].ep, hWork[g].se.disco>>]
SKeys == [g \in DOMAIN hWork |-> SDV(hWork[g].se)]

HsIndexes ==
  /\ Indexed(hsByDisco, hsBySDV, DKeys, SKeys)
  /\ \A g \in DOMAIN awaitingPong : Current(g)
  /\ Inverses(awaitingPong, apvToWork)

\* A work is in the maps as long as it has not returned, or its event is in doneCh;
\* a path that was reported is one of a work that has left them.
HsAccounted ==
  \A g \in DOMAIN hWork :
    /\ hState[g].pc \in Working => Current(g)
    /\ Current(g) => hState[g].pc \in Working \/ Handshake(g) \in doneCh
    /\ Handshake(g) \in doneCh => hState[g].pc \notin Working
    /\ ready[g] <= 1
    /\ ready[g] > 0 => hState[g].pong /\ ~Current(g)

\* Current by the keys.
LEMMA CurrentIn ==
  /\ \A g \in DOMAIN hWork : Current(g) <=> In(hsByDisco, DKeys, g)
  /\ \A g \in DOMAIN hWork : BySDV(g) <=> In(hsBySDV, SKeys, g)
BY DEF Current, BySDV, In, DKeys, SKeys

\* Current by the keys, after a step.
LEMMA CurrentInNext == \A g \in DOMAIN hWork' : Current(g)' <=> In(hsByDisco', DKeys', g)
BY DEF Current, In, DKeys

\* The maps do not change.
LEMMA HsStillNext ==
  ASSUME HsType, HsIndexes, HsAccounted, HsStill
  PROVE  HsIndexes' /\ HsAccounted'
<1>1. UNCHANGED <<hsByDisco, hsBySDV, awaitingPong, apvToWork, hWork, ready>>
  BY DEF HsStill, hsMaps
<1>2. \A g : Current(g)' <=> Current(g)
  BY <1>1 DEF Current
<1>3. DKeys' = DKeys /\ SKeys' = SKeys
  BY <1>1 DEF DKeys, SKeys
<1>4. HsIndexes'
  BY <1>1, <1>2, <1>3 DEF HsIndexes
<1>5. HsAccounted'
  <2> SUFFICES ASSUME NEW g \in DOMAIN hWork
               PROVE  /\ hState'[g].pc \in Working => Current(g)
                      /\ Current(g) => hState'[g].pc \in Working \/ Handshake(g) \in doneCh'
                      /\ Handshake(g) \in doneCh' => hState'[g].pc \notin Working
                      /\ ready[g] <= 1
                      /\ ready[g] > 0 => hState'[g].pong /\ ~Current(g)
    BY <1>1, <1>2 DEF HsAccounted
  <2>1. /\ Moves(hState[g].pc, hState'[g].pc, Handshake(g) \in doneCh, Handshake(g) \in doneCh')
        /\ hState[g].pong => hState'[g].pong
    BY DEF HsStill, HsMoves
  <2> QED BY <2>1 DEF HsAccounted, Moves, Working
<1> QED BY <1>4, <1>5

\* A work is done.
LEMMA HsDoneNext ==
  ASSUME HsType, HsIndexes, HsAccounted, NEW g \in DOMAIN hWork, HsDone(g)
  PROVE  HsIndexes' /\ HsAccounted'
<1>0. hWork' = hWork /\ DKeys' = DKeys /\ SKeys' = SKeys
  BY DEF HsDone, DKeys, SKeys
<1>1. /\ HsIndexes' /\ ~Current(g)'
      /\ \A h \in DOMAIN hWork : h # g => (Current(h)' <=> Current(h))
      /\ \A h \in DOMAIN hWork : h # g => ready'[h] = ready[h]
      /\ ready'[g] = IF Current(g) /\ hState[g].pong THEN ready[g] + 1 ELSE ready[g]
  <2>1. CASE ~Current(g)
    <3>1. UNCHANGED <<hsByDisco, hsBySDV, awaitingPong, apvToWork, ready>>
      BY <2>1 DEF HsDone, HandshakeDone, hsMaps
    <3>2. \A h : Current(h)' <=> Current(h)
      BY <1>0, <3>1 DEF Current
    <3>3. HsIndexes'
      BY <1>0, <3>1, <3>2 DEF HsIndexes
    <3> QED BY <2>1, <3>1, <3>2, <3>3
  <2>2. CASE Current(g)
    <3>1. /\ hsByDisco' = Without(hsByDisco, DKeys[g])
          /\ hsBySDV' = Without(hsBySDV, SKeys[g])
          /\ awaitingPong' = Without(awaitingPong, g)
          /\ apvToWork' = IF g \in DOMAIN awaitingPong
                            THEN Without(apvToWork, awaitingPong[g]) ELSE apvToWork
          /\ ready' = [ready EXCEPT ![g] = IF hState[g].pong THEN @ + 1 ELSE @]
      BY <2>2 DEF HsDone, HandshakeDone, DKeys, SKeys
    <3>2. /\ Indexed(hsByDisco', hsBySDV', DKeys, SKeys) /\ ~In(hsByDisco', DKeys, g)
          /\ \A h : h # g => (In(hsByDisco', DKeys, h) <=> In(hsByDisco, DKeys, h))
      <4>1. Indexed(hsByDisco, hsBySDV, DKeys, SKeys) /\ In(hsByDisco, DKeys, g)
        BY <2>2, CurrentIn DEF HsIndexes
      <4> DEFINE r1 == Without(hsByDisco, DKeys[g])
                 r2 == Without(hsBySDV, SKeys[g])
      <4>2. /\ Indexed(r1, r2, DKeys, SKeys) /\ ~In(r1, DKeys, g)
            /\ \A h : h # g => (In(r1, DKeys, h) <=> In(hsByDisco, DKeys, h))
        BY <4>1, IndexedRemove, Zenon
      <4> HIDE DEF r1, r2
      <4>3. hsByDisco' = r1 /\ hsBySDV' = r2
        BY <3>1 DEF r1, r2
      <4> QED BY <4>2, <4>3, Zenon
    <3>3. ~Current(g)' /\ \A h \in DOMAIN hWork : h # g => (Current(h)' <=> Current(h))
      BY <1>0, <3>2, CurrentIn, CurrentInNext
    <3>4. /\ DOMAIN awaitingPong' = DOMAIN awaitingPong \ {g}
          /\ \A h \in DOMAIN awaitingPong \ {g} : awaitingPong'[h] = awaitingPong[h]
      BY <3>1 DEF Without, Restrict
    <3>5. \A h \in DOMAIN awaitingPong : h \in DOMAIN hWork
      BY DEF HsType, Partial
    <3>6. \A h \in DOMAIN awaitingPong' : Current(h)'
      BY <3>3, <3>4, <3>5 DEF HsIndexes
    <3>7. Inverses(awaitingPong', apvToWork')
      <4>1. Inverses(awaitingPong, apvToWork)
        BY DEF HsIndexes
      <4>2. CASE g \in DOMAIN awaitingPong
        <5>1. /\ DOMAIN apvToWork' = DOMAIN apvToWork \ {awaitingPong[g]}
              /\ \A k \in DOMAIN apvToWork \ {awaitingPong[g]} : apvToWork'[k] = apvToWork[k]
          BY <3>1, <4>2 DEF Without, Restrict
        <5> QED BY <3>4, <4>1, <4>2, <5>1 DEF Inverses
      <4>3. CASE g \notin DOMAIN awaitingPong
        <5>1. apvToWork' = apvToWork
          BY <3>1, <4>3
        <5> QED BY <3>4, <4>1, <4>3, <5>1 DEF Inverses
      <4> QED BY <4>2, <4>3
    <3>8. HsIndexes'
      BY <1>0, <3>2, <3>6, <3>7 DEF HsIndexes
    <3>9. /\ \A h \in DOMAIN hWork : h # g => ready'[h] = ready[h]
          /\ ready'[g] = IF hState[g].pong THEN ready[g] + 1 ELSE ready[g]
      BY <3>1, WorkFacts
    <3> QED BY <2>2, <3>3, <3>8, <3>9
  <2> QED BY <2>1, <2>2
<1>2. HsAccounted'
  <2> SUFFICES ASSUME NEW h \in DOMAIN hWork
               PROVE  /\ hState'[h].pc \in Working => Current(h)'
                      /\ Current(h)' => hState'[h].pc \in Working \/ Handshake(h) \in doneCh'
                      /\ Handshake(h) \in doneCh' => hState'[h].pc \notin Working
                      /\ ready'[h] <= 1
                      /\ ready'[h] > 0 => hState'[h].pong /\ ~Current(h)'
    BY <1>0 DEF HsAccounted
  <2>1. CASE h # g
    BY <1>1, <2>1 DEF HsAccounted, HsDone
  <2>2. CASE h = g
    <3>1. hState[g].pc \notin Working /\ hState'[g].pc \notin Working
      BY DEF HsAccounted, HsDone, Working
    <3>2. ready[g] \in Nat /\ ready[g] <= 1 /\ (Current(g) => ready[g] = 0)
      BY WorkFacts DEF HsAccounted
    <3>3. hState'[g].pong = hState[g].pong
      BY DEF HsDone
    <3>4. ready'[g] <= 1 /\ (ready'[g] > 0 => hState'[g].pong)
      BY <1>1, <3>2, <3>3 DEF HsAccounted
    <3> QED BY <1>1, <2>2, <3>1, <3>4
  <2> QED BY <2>1, <2>2
<1> QED BY <1>1, <1>2

\* A handshake is started.
LEMMA HsStartedNext ==
  ASSUME HsType, DoneType, HsIndexes, HsAccounted, NEW e, HsStarted(e)
  PROVE  HsIndexes' /\ HsAccounted'
<1>0. PICK n : n = Len(hWork) + 1
  OBVIOUS
<1>1. /\ DOMAIN hWork' = DOMAIN hWork \cup {n}
      /\ \A g \in DOMAIN hWork :
           hWork'[g] = hWork[g] /\ hState'[g] = hState[g] /\ ready'[g] = ready[g]
      /\ hWork'[n] = [ep |-> e.ep, se |-> e.se] /\ hState'[n].pc = "begin" /\ ready'[n] = 0
  BY <1>0, StartHandshakeType DEF HsStarted
<1>2. n \notin DOMAIN hWork
  BY <1>0, WorkFacts
<1>3. /\ <<e.ep, e.se.disco>> \notin DOMAIN hsByDisco /\ SDV(e.se) \notin DOMAIN hsBySDV
      /\ hsByDisco' = With(hsByDisco, <<e.ep, e.se.disco>>, n)
      /\ hsBySDV' = With(hsBySDV, SDV(e.se), n)
      /\ UNCHANGED <<awaitingPong, apvToWork, doneCh>>
  BY <1>0, RivalFacts DEF HsStarted, StartHandshake
<1>4. /\ \A g \in DOMAIN hWork : DKeys'[g] = DKeys[g] /\ SKeys'[g] = SKeys[g]
      /\ DKeys'[n] = <<e.ep, e.se.disco>> /\ SKeys'[n] = SDV(e.se)
  BY <1>1 DEF DKeys, SKeys, SDV
<1>5. /\ DOMAIN hsByDisco' = DOMAIN hsByDisco \cup {<<e.ep, e.se.disco>>}
      /\ hsByDisco'[<<e.ep, e.se.disco>>] = n
      /\ \A k \in DOMAIN hsByDisco : hsByDisco'[k] = hsByDisco[k]
  BY <1>3 DEF With
<1>6. /\ DOMAIN hsBySDV' = DOMAIN hsBySDV \cup {SDV(e.se)} /\ hsBySDV'[SDV(e.se)] = n
      /\ \A k \in DOMAIN hsBySDV : hsBySDV'[k] = hsBySDV[k]
  BY <1>3 DEF With
<1>7. /\ \A k \in DOMAIN hsByDisco : hsByDisco[k] \in DOMAIN hWork
      /\ \A k \in DOMAIN hsBySDV : hsBySDV[k] \in DOMAIN hWork
      /\ DOMAIN awaitingPong \subseteq DOMAIN hWork
  BY DEF HsType, Partial
<1>8. /\ Indexed(hsByDisco', hsBySDV', DKeys', SKeys')
      /\ \A g \in DOMAIN hWork : In(hsByDisco', DKeys', g) <=> In(hsByDisco, DKeys, g)
      /\ In(hsByDisco', DKeys', n)
  <2>1. PICK r1, r2, m1, m2 : r1 = hsByDisco' /\ r2 = hsBySDV' /\ m1 = DKeys' /\ m2 = SKeys'
    OBVIOUS
  <2>2. Indexed(hsByDisco, hsBySDV, DKeys, SKeys)
    BY DEF HsIndexes
  <2>3. \A g \in {n} : In(r1, m1, g) /\ In(r2, m2, g)
    BY <1>4, <1>5, <1>6, <2>1 DEF In
  <2>4. \A g \in DOMAIN hWork : g \notin {n} /\ m1[g] = DKeys[g] /\ m2[g] = SKeys[g]
    BY <1>2, <1>4, <2>1
  <2>5. \A k \in DOMAIN hsByDisco : k \in DOMAIN r1 /\ r1[k] = hsByDisco[k]
    BY <1>5, <2>1
  <2>6. \A k \in DOMAIN hsBySDV : k \in DOMAIN r2 /\ r2[k] = hsBySDV[k]
    BY <1>6, <2>1
  <2>7. \A k \in DOMAIN r1 : k \notin DOMAIN hsByDisco => r1[k] \in {n} /\ m1[r1[k]] = k
    BY <1>4, <1>5, <2>1
  <2>8. \A k \in DOMAIN r2 : k \notin DOMAIN hsBySDV => r2[k] \in {n} /\ m2[r2[k]] = k
    BY <1>4, <1>6, <2>1
  <2>9. /\ \A k \in DOMAIN hsByDisco : hsByDisco[k] \in DOMAIN hWork
        /\ \A k \in DOMAIN hsBySDV : hsBySDV[k] \in DOMAIN hWork
    BY <1>7
  <2>10. /\ Indexed(r1, r2, m1, m2)
         /\ \A g \in DOMAIN hWork : In(r1, m1, g) <=> In(hsByDisco, DKeys, g)
    <3>1. Extended(hsByDisco, hsBySDV, DKeys, SKeys, r1, r2, m1, m2, DOMAIN hWork, {n})
      BY <2>3, <2>4, <2>5, <2>6, <2>7, <2>8, <2>9 DEF Extended
    <3> QED BY <2>2, <3>1, IndexedAdd, Zenon
  <2> QED BY <2>1, <2>3, <2>10
<1>9. Current(n)' /\ \A g \in DOMAIN hWork : Current(g)' <=> Current(g)
  BY <1>1, <1>8, CurrentIn, CurrentInNext
<1>10. HsIndexes'
  BY <1>3, <1>7, <1>8, <1>9 DEF HsIndexes
<1>11. Handshake(n) \notin doneCh
  BY <1>2 DEF DoneType, Works, Alloc, Handshake
<1>12. HsAccounted'
  <2> SUFFICES ASSUME NEW h \in DOMAIN hWork \cup {n}
               PROVE  /\ hState'[h].pc \in Working => Current(h)'
                      /\ Current(h)' => hState'[h].pc \in Working \/ Handshake(h) \in doneCh
                      /\ Handshake(h) \in doneCh => hState'[h].pc \notin Working
                      /\ ready'[h] <= 1
                      /\ ready'[h] > 0 => hState'[h].pong /\ ~Current(h)'
    BY <1>1, <1>3 DEF HsAccounted
  <2>1. CASE h \in DOMAIN hWork
    BY <1>1, <1>9, <2>1 DEF HsAccounted
  <2>2. CASE h = n
    BY <1>1, <1>9, <1>11, <2>2 DEF Working
  <2> QED BY <2>1, <2>2
<1> QED BY <1>10, <1>12

\* A challenge is given to a work.
LEMMA HsChallengedNext ==
  ASSUME HsType, HsIndexes, HsAccounted, NEW m, NEW g \in DOMAIN hWork, HsChallenged(m, g)
  PROVE  HsIndexes' /\ HsAccounted'
<1>1. UNCHANGED <<hsByDisco, hsBySDV, hWork, ready, hState, doneCh>>
  BY DEF HsChallenged
<1>2. \A h : Current(h)' <=> Current(h)
  BY <1>1 DEF Current
<1>3. DKeys' = DKeys /\ SKeys' = SKeys
  BY <1>1 DEF DKeys, SKeys
<1>4. HsAccounted'
  BY <1>1, <1>2 DEF HsAccounted
<1>5. PICK a : a = <<m.from, m.vni>>
  OBVIOUS
<1>6. /\ g \notin DOMAIN awaitingPong /\ a \notin DOMAIN apvToWork
      /\ awaitingPong' = With(awaitingPong, g, a) /\ apvToWork' = With(apvToWork, a, g)
  BY <1>5 DEF HsChallenged, Challenged
<1>7. Current(g)
  <2>1. PICK k \in DOMAIN hsBySDV : g = hsBySDV[k]
    BY DEF HsChallenged, Challenged
  <2>2. In(hsByDisco, DKeys, g)
    BY <2>1 DEF HsIndexes, Indexed
  <2> QED BY <2>2, CurrentIn
<1>8. /\ DOMAIN awaitingPong' = DOMAIN awaitingPong \cup {g} /\ awaitingPong'[g] = a
      /\ \A h \in DOMAIN awaitingPong : awaitingPong'[h] = awaitingPong[h]
  BY <1>6 DEF With
<1>9. /\ DOMAIN apvToWork' = DOMAIN apvToWork \cup {a} /\ apvToWork'[a] = g
      /\ \A k \in DOMAIN apvToWork : apvToWork'[k] = apvToWork[k]
  BY <1>6 DEF With
<1>10. Inverses(awaitingPong', apvToWork')
  BY <1>6, <1>8, <1>9 DEF HsIndexes, Inverses
<1>11. \A h \in DOMAIN awaitingPong' : Current(h)'
  BY <1>2, <1>7, <1>8 DEF HsIndexes
<1>12. HsIndexes'
  BY <1>1, <1>3, <1>10, <1>11 DEF HsIndexes
<1> QED BY <1>4, <1>12

-----------------------------------------------------------------------------
(* The invariant of the allocations.                                         *)

RKeys == [g \in DOMAIN aWork |-> <<aWork[g].ep, aWork[g].cand>>]
KKeys == [g \in DOMAIN aWork |-> <<NodeKey(aWork[g].cand), aWork[g].keys>>]

AllocIndexes == Indexed(allocByRelay, allocByKeys, RKeys, KKeys)

\* An allocation is in the maps as long as it has not returned, or its event is in doneCh.
AllocAccounted ==
  \A g \in DOMAIN aWork :
    /\ aState[g].pc \in Working => CurrentAlloc(g)
    /\ CurrentAlloc(g) => aState[g].pc \in Working \/ Alloc(g) \in doneCh
    /\ Alloc(g) \in doneCh => aState[g].pc \notin Working

\* CurrentAlloc by the keys.
LEMMA CurrentAllocIn ==
  /\ \A g \in DOMAIN aWork : CurrentAlloc(g) <=> In(allocByRelay, RKeys, g)
  /\ \A g \in DOMAIN aWork : ByKeys(g) <=> In(allocByKeys, KKeys, g)
BY DEF CurrentAlloc, ByKeys, In, RKeys, KKeys

\* CurrentAlloc by the keys, after a step.
LEMMA CurrentAllocInNext == \A g \in DOMAIN aWork' : CurrentAlloc(g)' <=> In(allocByRelay', RKeys', g)
BY DEF CurrentAlloc, In, RKeys

\* The maps do not change.
LEMMA AStillNext ==
  ASSUME AllocType, AllocIndexes, AllocAccounted, AStill
  PROVE  AllocIndexes' /\ AllocAccounted'
<1>1. UNCHANGED <<allocByRelay, allocByKeys, aWork>>
  BY DEF AStill, allocMaps
<1>2. \A g : CurrentAlloc(g)' <=> CurrentAlloc(g)
  BY <1>1 DEF CurrentAlloc
<1>3. RKeys' = RKeys /\ KKeys' = KKeys
  BY <1>1 DEF RKeys, KKeys
<1>4. AllocIndexes'
  BY <1>1, <1>3 DEF AllocIndexes
<1>5. AllocAccounted'
  <2> SUFFICES ASSUME NEW g \in DOMAIN aWork
               PROVE  /\ aState'[g].pc \in Working => CurrentAlloc(g)
                      /\ CurrentAlloc(g) => aState'[g].pc \in Working \/ Alloc(g) \in doneCh'
                      /\ Alloc(g) \in doneCh' => aState'[g].pc \notin Working
    BY <1>1, <1>2 DEF AllocAccounted
  <2>1. Moves(aState[g].pc, aState'[g].pc, Alloc(g) \in doneCh, Alloc(g) \in doneCh')
    BY DEF AStill, AMoves
  <2> QED BY <2>1 DEF AllocAccounted, Moves, Working
<1> QED BY <1>4, <1>5

\* An allocation is done.
LEMMA ADoneNext ==
  ASSUME AllocType, AllocIndexes, AllocAccounted, NEW g \in DOMAIN aWork, ADone(g)
  PROVE  AllocIndexes' /\ AllocAccounted'
<1>0. aWork' = aWork /\ RKeys' = RKeys /\ KKeys' = KKeys
  BY DEF ADone, RKeys, KKeys
<1>1. /\ AllocIndexes' /\ ~CurrentAlloc(g)'
      /\ \A h \in DOMAIN aWork : h # g => (CurrentAlloc(h)' <=> CurrentAlloc(h))
  <2>1. CASE ~CurrentAlloc(g)
    <3>1. UNCHANGED <<allocByRelay, allocByKeys>>
      BY <2>1 DEF ADone, AllocLeaves, allocMaps
    <3>2. \A h : CurrentAlloc(h)' <=> CurrentAlloc(h)
      BY <1>0, <3>1 DEF CurrentAlloc
    <3>3. AllocIndexes'
      BY <1>0, <3>1 DEF AllocIndexes
    <3> QED BY <2>1, <3>2, <3>3
  <2>2. CASE CurrentAlloc(g)
    <3>1. allocByRelay' = Without(allocByRelay, RKeys[g]) /\ allocByKeys' = Without(allocByKeys, KKeys[g])
      BY <2>2 DEF ADone, AllocLeaves, RKeys, KKeys
    <3>2. Indexed(allocByRelay, allocByKeys, RKeys, KKeys) /\ In(allocByRelay, RKeys, g)
      BY <2>2, CurrentAllocIn DEF AllocIndexes
    <3> DEFINE r1 == Without(allocByRelay, RKeys[g])
               r2 == Without(allocByKeys, KKeys[g])
    <3>3. /\ Indexed(r1, r2, RKeys, KKeys) /\ ~In(r1, RKeys, g)
          /\ \A h : h # g => (In(r1, RKeys, h) <=> In(allocByRelay, RKeys, h))
      BY <3>2, IndexedRemove, Zenon
    <3> HIDE DEF r1, r2
    <3>4. allocByRelay' = r1 /\ allocByKeys' = r2
      BY <3>1 DEF r1, r2
    <3>5. /\ AllocIndexes' /\ ~In(allocByRelay', RKeys, g)
          /\ \A h : h # g => (In(allocByRelay', RKeys, h) <=> In(allocByRelay, RKeys, h))
      BY <1>0, <3>3, <3>4, Zenon DEF AllocIndexes
    <3> QED BY <1>0, <3>5, CurrentAllocIn, CurrentAllocInNext
  <2> QED BY <2>1, <2>2
<1>2. AllocAccounted'
  <2> SUFFICES ASSUME NEW h \in DOMAIN aWork
               PROVE  /\ aState'[h].pc \in Working => CurrentAlloc(h)'
                      /\ CurrentAlloc(h)' => aState'[h].pc \in Working \/ Alloc(h) \in doneCh'
                      /\ Alloc(h) \in doneCh' => aState'[h].pc \notin Working
    BY <1>0 DEF AllocAccounted
  <2>1. CASE h # g
    BY <1>1, <2>1 DEF AllocAccounted, ADone
  <2>2. CASE h = g
    <3>1. aState[g].pc \notin Working /\ aState'[g].pc \notin Working
      BY DEF AllocAccounted, ADone, Working
    <3> QED BY <1>1, <2>2, <3>1
  <2> QED BY <2>1, <2>2
<1> QED BY <1>1, <1>2

\* Allocations are started.
LEMMA AStartedNext ==
  ASSUME ConfigType, AllocType, DoneType, AllocIndexes, AllocAccounted,
         NEW c, NEW asked, NEW n, NEW order, NEW pl, AStarted(c, asked, n, order, pl)
  PROVE  AllocIndexes' /\ AllocAccounted'
<1>0. Discovery(c, asked, n, order, pl) /\ c.ep \in Endpoints /\ c.best \in Best /\ doneCh' = doneCh
  BY DEF AStarted
<1>1. /\ Len(aWork') = Len(aWork) + n /\ AllocType'
      /\ \A g \in DOMAIN aWork : aWork'[g] = aWork[g] /\ aState'[g] = aState[g]
      /\ \A i \in 1 .. n :
           /\ aWork'[Len(aWork) + i] = [ep |-> c.ep, best |-> c.best, keys |-> disco[c.ep],
                                        cand |-> order[i]]
           /\ aState'[Len(aWork) + i] = [pc |-> "wait", se |-> None]
  BY <1>0, DiscoveryWorks
<1> DEFINE new == {Len(aWork) + i : i \in 1 .. n}
<1>2. /\ DOMAIN aWork' = DOMAIN aWork \cup new
      /\ \A g \in DOMAIN aWork : g \notin new
  <2>1. DOMAIN aWork = 1 .. Len(aWork) /\ Len(aWork) \in Nat /\ n \in Nat
    BY <1>0, WorkFacts DEF Discovery
  <2>2. DOMAIN aWork' = 1 .. Len(aWork')
    BY <1>1 DEF AllocType
  <2>3. \A g \in 1 .. Len(aWork) + n : g \in 1 .. Len(aWork) \/ g - Len(aWork) \in 1 .. n
    BY <2>1
  <2>4. \A g \in 1 .. Len(aWork) + n : g = Len(aWork) + (g - Len(aWork))
    BY <2>1
  <2> QED BY <1>1, <2>1, <2>2, <2>3, <2>4
<1>3. /\ \A g \in DOMAIN aWork : RKeys'[g] = RKeys[g] /\ KKeys'[g] = KKeys[g]
      /\ \A i \in 1 .. n : /\ RKeys'[Len(aWork) + i] = <<c.ep, order[i]>>
                           /\ KKeys'[Len(aWork) + i] = <<NodeKey(order[i]), disco[c.ep]>>
  <2>1. \A g \in DOMAIN aWork : RKeys'[g] = RKeys[g] /\ KKeys'[g] = KKeys[g]
    BY <1>1, <1>2 DEF RKeys, KKeys, NodeKey
  <2>2. ASSUME NEW i \in 1 .. n
        PROVE  /\ RKeys'[Len(aWork) + i] = <<c.ep, order[i]>>
               /\ KKeys'[Len(aWork) + i] = <<NodeKey(order[i]), disco[c.ep]>>
    <3>1. PICK g : g = Len(aWork) + i
      OBVIOUS
    <3>2. g \in DOMAIN aWork'
      BY <1>2, <3>1
    <3>3. aWork'[g].ep = c.ep /\ aWork'[g].keys = disco[c.ep] /\ aWork'[g].cand = order[i]
      <4>1. aWork'[g] = [ep |-> c.ep, best |-> c.best, keys |-> disco[c.ep], cand |-> order[i]]
        BY <1>1, <3>1, Zenon
      <4> QED BY <4>1
    <3>4. /\ RKeys'[g] = <<aWork'[g].ep, aWork'[g].cand>>
          /\ KKeys'[g] = <<NodeKey(aWork'[g].cand), aWork'[g].keys>>
      BY <3>2 DEF RKeys, KKeys, NodeKey
    <3> QED BY <3>1, <3>3, <3>4
  <2> QED BY <2>1, <2>2
<1>4. /\ order \in [1 .. n -> asked] /\ pl \in [asked -> 1 .. n]
      /\ \A v \in asked : order[pl[v]] = v
      /\ \A i \in 1 .. n : pl[order[i]] = i
  BY <1>0 DEF Discovery
<1>5. /\ DOMAIN allocByRelay' = DOMAIN allocByRelay \cup ({c.ep} \X asked)
      /\ \A v \in asked : allocByRelay'[<<c.ep, v>>] = Len(aWork) + pl[v]
      /\ \A k \in DOMAIN allocByRelay : allocByRelay'[k] = allocByRelay[k]
  BY <1>0 DEF Discovery
<1>6. /\ DOMAIN allocByKeys' = DOMAIN allocByKeys \cup {<<NodeKey(v), disco[c.ep]>> : v \in asked}
      /\ \A v \in asked : allocByKeys'[<<NodeKey(v), disco[c.ep]>>] = Len(aWork) + pl[v]
      /\ \A k \in DOMAIN allocByKeys : allocByKeys'[k] = allocByKeys[k]
  BY <1>0 DEF Discovery
<1>7. /\ Indexed(allocByRelay', allocByKeys', RKeys', KKeys')
      /\ \A g \in DOMAIN aWork : In(allocByRelay', RKeys', g) <=> In(allocByRelay, RKeys, g)
      /\ \A g \in new : In(allocByRelay', RKeys', g)
  <2>1. PICK r1, r2, m1, m2 : r1 = allocByRelay' /\ r2 = allocByKeys' /\ m1 = RKeys' /\ m2 = KKeys'
    OBVIOUS
  <2>2. Indexed(allocByRelay, allocByKeys, RKeys, KKeys)
    BY DEF AllocIndexes
  <2>3. \A g \in new : In(r1, m1, g) /\ In(r2, m2, g)
    <3> SUFFICES ASSUME NEW i \in 1 .. n
                 PROVE  In(r1, m1, Len(aWork) + i) /\ In(r2, m2, Len(aWork) + i)
      OBVIOUS
    <3>1. order[i] \in asked /\ pl[order[i]] = i
      BY <1>4
    <3>2. m1[Len(aWork) + i] = <<c.ep, order[i]>> /\ m2[Len(aWork) + i] = <<NodeKey(order[i]), disco[c.ep]>>
      BY <1>3, <2>1
    <3>3. <<c.ep, order[i]>> \in DOMAIN r1 /\ r1[<<c.ep, order[i]>>] = Len(aWork) + i
      BY <1>5, <2>1, <3>1
    <3>4. /\ <<NodeKey(order[i]), disco[c.ep]>> \in DOMAIN r2
          /\ r2[<<NodeKey(order[i]), disco[c.ep]>>] = Len(aWork) + i
      BY <1>6, <2>1, <3>1
    <3> QED BY <3>2, <3>3, <3>4 DEF In
  <2>4. \A g \in DOMAIN aWork : g \notin new /\ m1[g] = RKeys[g] /\ m2[g] = KKeys[g]
    BY <1>2, <1>3, <2>1
  <2>5. \A k \in DOMAIN allocByRelay : k \in DOMAIN r1 /\ r1[k] = allocByRelay[k]
    BY <1>5, <2>1
  <2>6. \A k \in DOMAIN allocByKeys : k \in DOMAIN r2 /\ r2[k] = allocByKeys[k]
    BY <1>6, <2>1
  <2>7. \A k \in DOMAIN r1 : k \notin DOMAIN allocByRelay => r1[k] \in new /\ m1[r1[k]] = k
    <3> SUFFICES ASSUME NEW k \in DOMAIN r1, k \notin DOMAIN allocByRelay
                 PROVE  r1[k] \in new /\ m1[r1[k]] = k
      OBVIOUS
    <3>1. PICK v \in asked : k = <<c.ep, v>>
      BY <1>5, <2>1
    <3>2. pl[v] \in 1 .. n /\ r1[k] = Len(aWork) + pl[v]
      BY <1>4, <1>5, <2>1, <3>1
    <3> QED BY <1>3, <1>4, <2>1, <3>1, <3>2
  <2>8. \A k \in DOMAIN r2 : k \notin DOMAIN allocByKeys => r2[k] \in new /\ m2[r2[k]] = k
    <3> SUFFICES ASSUME NEW k \in DOMAIN r2, k \notin DOMAIN allocByKeys
                 PROVE  r2[k] \in new /\ m2[r2[k]] = k
      OBVIOUS
    <3>1. PICK v \in asked : k = <<NodeKey(v), disco[c.ep]>>
      BY <1>6, <2>1
    <3>2. pl[v] \in 1 .. n /\ r2[k] = Len(aWork) + pl[v]
      BY <1>4, <1>6, <2>1, <3>1
    <3> QED BY <1>3, <1>4, <2>1, <3>1, <3>2
  <2>9. /\ \A k \in DOMAIN allocByRelay : allocByRelay[k] \in DOMAIN aWork
        /\ \A k \in DOMAIN allocByKeys : allocByKeys[k] \in DOMAIN aWork
    BY DEF AllocType, Partial
  <2>10. /\ Indexed(r1, r2, m1, m2)
         /\ \A g \in DOMAIN aWork : In(r1, m1, g) <=> In(allocByRelay, RKeys, g)
    <3> HIDE DEF new
    <3>1. Extended(allocByRelay, allocByKeys, RKeys, KKeys, r1, r2, m1, m2, DOMAIN aWork, new)
      BY <2>3, <2>4, <2>5, <2>6, <2>7, <2>8, <2>9 DEF Extended
    <3> QED BY <2>2, <3>1, IndexedAdd, Zenon
  <2> QED BY <2>1, <2>3, <2>10
<1>8. AllocIndexes'
  BY <1>7 DEF AllocIndexes
<1>9. /\ \A g \in DOMAIN aWork : CurrentAlloc(g)' <=> CurrentAlloc(g)
      /\ \A g \in new : CurrentAlloc(g)'
  <2> HIDE DEF new
  <2> QED BY <1>2, <1>7, CurrentAllocIn, CurrentAllocInNext
<1>10. \A g \in new : Alloc(g) \notin doneCh /\ aState'[g].pc = "wait"
  <2>1. \A g \in new : Alloc(g) \notin doneCh
    <3> HIDE DEF new
    <3> QED BY <1>2 DEF DoneType, Works, Alloc, Handshake
  <2>2. ASSUME NEW g \in new PROVE aState'[g].pc = "wait"
    <3>1. PICK i \in 1 .. n : g = Len(aWork) + i
      BY <2>2
    <3>2. aState'[g] = [pc |-> "wait", se |-> None]
      BY <1>1, <3>1
    <3> QED BY <3>2
  <2> QED BY <2>1, <2>2
<1> HIDE DEF new
<1>11. AllocAccounted'
  <2> SUFFICES ASSUME NEW h \in DOMAIN aWork \cup new
               PROVE  /\ aState'[h].pc \in Working => CurrentAlloc(h)'
                      /\ CurrentAlloc(h)' => aState'[h].pc \in Working \/ Alloc(h) \in doneCh
                      /\ Alloc(h) \in doneCh => aState'[h].pc \notin Working
    BY <1>0, <1>2 DEF AllocAccounted
  <2>1. CASE h \in DOMAIN aWork
    BY <1>1, <1>9, <2>1 DEF AllocAccounted
  <2>2. CASE h \in new
    BY <1>9, <1>10, <2>2 DEF Working
  <2> QED BY <2>1, <2>2
<1> QED BY <1>8, <1>11

-----------------------------------------------------------------------------
(* The loop.                                                                 *)

\* Task t of stopWorkRunLoop(ep) comes, or has come, to work w.
Reaches(t, w, ep) ==
  \/ t.op = "stopPass" /\ t.kind = w[1] /\ t.ep = ep
  \/ t.op = "stopEach" /\ w \in t.left
  \/ t.op = "awaitAlloc" /\ w = Alloc(t.gen)
  \/ t.op = "awaitHandshake" /\ w = Handshake(t.gen)

\* A task that starts no handshake and leads to none that does.
HandshakeTask(t) ==
  \/ t.op = "awaitHandshake"
  \/ t.op = "stopEach" /\ \A w \in t.left : w[1] = "handshake"

\* The loop stops the work of ep: some task reaches every allocation the maps hold, and
\* until the handshakes are looked up, last of all, they may be any; from then on none is
\* started, and some task reaches every one.
Stopping(ep) ==
  /\ \A g \in AllocsOf(ep) : \E t \in Range(agenda) : Reaches(t, Alloc(g), ep)
  /\ \/ agenda # <<>> /\ agenda[Len(agenda)] = Pass("handshake", ep)
     \/ /\ \A t \in Range(agenda) : HandshakeTask(t)
        /\ \A g \in HandshakesOf(ep) : \E t \in Range(agenda) : Reaches(t, Handshake(g), ep)

\* The loop stops when it has nothing to do, and has a task only for the event in hand.
LoopInv ==
  /\ loop = "stopped" => event = None /\ DOMAIN allocByRelay = {} /\ DOMAIN hsByDisco = {}
  /\ event = None => agenda = <<>>
  /\ event \in StopCalls => Stopping(event.ep)

\* The loop does nothing: the steps of the callers and of the goroutines.
LoopStill ==
  /\ UNCHANGED <<agenda, event, allocByRelay, hsByDisco>>
  /\ loop' \in {loop, "running"}

\* The loop takes an event.
LoopTakes ==
  /\ loop = "running" /\ loop' = loop /\ event = None
  /\ \/ event' = Other
     \/ /\ event' \in StopCalls
        /\ agenda' = <<Pass("alloc", event'.ep), Pass("handshake", event'.ep)>>

\* The tasks p take the place of the head of the agenda.  No allocation is started, and
\* one the head reached is gone or reached by p; the same of the handshakes, if the head
\* is a task of the second pass; and the lookup of the handshakes reaches them all.
Advances(t, p) ==
  /\ p \in Seq(Tasks) /\ agenda' = p \o Tail(agenda)
  /\ \A ep : \A g \in AllocsOf(ep)' :
       /\ g \in AllocsOf(ep)
       /\ Reaches(t, Alloc(g), ep) => \E u \in Range(p) : Reaches(u, Alloc(g), ep)
  /\ HandshakeTask(t) =>
       /\ \A u \in Range(p) : HandshakeTask(u)
       /\ \A ep : \A g \in HandshakesOf(ep)' :
            /\ g \in HandshakesOf(ep)
            /\ Reaches(t, Handshake(g), ep) => \E u \in Range(p) : Reaches(u, Handshake(g), ep)
  /\ \A ep : t = Pass("handshake", ep) =>
       /\ \A u \in Range(p) : HandshakeTask(u)
       /\ \A g \in HandshakesOf(ep)' : \E u \in Range(p) : Reaches(u, Handshake(g), ep)

\* The loop works at the head of its agenda.
LoopWorks ==
  /\ loop = "running" /\ loop' = loop /\ event' = event /\ agenda # <<>> /\ agenda \in Seq(Tasks)
  /\ \E p : Advances(Head(agenda), p)

\* The done event of an allocation, or of a handshake, removes it and nothing else.
LEMMA DoneRemoves ==
  /\ AllocType /\ AllocIndexes =>
       \A g \in DOMAIN aWork : AllocLeaves(g) => \A ep : AllocsOf(ep)' \subseteq AllocsOf(ep) \ {g}
  /\ HsType /\ HsIndexes =>
       \A g \in DOMAIN hWork :
         HandshakeDone(g) => \A ep : HandshakesOf(ep)' \subseteq HandshakesOf(ep) \ {g}
<1>1. ASSUME AllocType, AllocIndexes, NEW g \in DOMAIN aWork, AllocLeaves(g), NEW ep,
             NEW h \in AllocsOf(ep)'
      PROVE  h \in AllocsOf(ep) /\ h # g
  <2>1. PICK k \in DOMAIN allocByRelay' : k[1] = ep /\ h = allocByRelay'[k]
    BY <1>1 DEF AllocsOf
  <2>2. RKeys[g] = <<aWork[g].ep, aWork[g].cand>>
    BY <1>1 DEF RKeys
  <2>3. /\ k \in DOMAIN allocByRelay /\ allocByRelay'[k] = allocByRelay[k]
        /\ CurrentAlloc(g) => k # RKeys[g]
    <3>1. CASE CurrentAlloc(g)
      <4>1. allocByRelay' = Without(allocByRelay, RKeys[g])
        BY <1>1, <2>2, <3>1 DEF AllocLeaves
      <4> QED BY <2>1, <4>1 DEF Without, Restrict
    <3>2. CASE ~CurrentAlloc(g)
      BY <1>1, <2>1, <3>2 DEF AllocLeaves, allocMaps
    <3> QED BY <3>1, <3>2
  <2>4. k = RKeys[allocByRelay[k]]
    BY <1>1, <2>3 DEF AllocIndexes, Indexed
  <2>5. allocByRelay[k] = g => CurrentAlloc(g)
    BY <2>2, <2>3, <2>4 DEF CurrentAlloc
  <2> QED BY <2>1, <2>3, <2>4, <2>5 DEF AllocsOf
<1>2. ASSUME HsType, HsIndexes, NEW g \in DOMAIN hWork, HandshakeDone(g), NEW ep,
             NEW h \in HandshakesOf(ep)'
      PROVE  h \in HandshakesOf(ep) /\ h # g
  <2>1. PICK k \in DOMAIN hsByDisco' : k[1] = ep /\ h = hsByDisco'[k]
    BY <1>2 DEF HandshakesOf
  <2>2. DKeys[g] = <<hWork[g].ep, hWork[g].se.disco>>
    BY <1>2 DEF DKeys
  <2>3. /\ k \in DOMAIN hsByDisco /\ hsByDisco'[k] = hsByDisco[k]
        /\ Current(g) => k # DKeys[g]
    <3>1. CASE Current(g)
      <4>1. hsByDisco' = Without(hsByDisco, DKeys[g])
        BY <1>2, <2>2, <3>1 DEF HandshakeDone
      <4> QED BY <2>1, <4>1 DEF Without, Restrict
    <3>2. CASE ~Current(g)
      BY <1>2, <2>1, <3>2 DEF HandshakeDone, hsMaps
    <3> QED BY <3>1, <3>2
  <2>4. k = DKeys[hsByDisco[k]]
    BY <1>2, <2>3 DEF HsIndexes, Indexed
  <2>5. hsByDisco[k] = g => Current(g)
    BY <2>2, <2>3, <2>4 DEF Current
  <2> QED BY <2>1, <2>3, <2>4, <2>5 DEF HandshakesOf
<1> QED BY <1>1, <1>2

\* A task that is not one of stopWork makes way for p, and starts no allocation.
MakesWay(t, p) ==
  /\ t.op \in {"awaitAlloc", "newServerEndpoint", "give"}
  /\ p \in Seq(Tasks) /\ agenda' = p \o Tail(agenda)
  /\ \A ep : AllocsOf(ep)' \subseteq AllocsOf(ep)
  /\ t.op = "awaitAlloc" => \A ep : t.gen \notin AllocsOf(ep)'

LEMMA OtherAdvances ==
  ASSUME NEW t, NEW p, MakesWay(t, p)
  PROVE  Advances(t, p)
<1>0. /\ t.op \in {"awaitAlloc", "newServerEndpoint", "give"}
      /\ p \in Seq(Tasks) /\ agenda' = p \o Tail(agenda)
      /\ \A ep : AllocsOf(ep)' \subseteq AllocsOf(ep)
      /\ t.op = "awaitAlloc" => \A ep : t.gen \notin AllocsOf(ep)'
  BY DEF MakesWay
<1>1. ~HandshakeTask(t)
  BY <1>0 DEF HandshakeTask
<1>2. \A ep : t # Pass("handshake", ep)
  BY <1>0 DEF Pass
<1>3. ASSUME NEW ep, NEW g \in AllocsOf(ep)' PROVE ~Reaches(t, Alloc(g), ep)
  BY <1>0, <1>3 DEF Reaches, Alloc
<1> QED BY <1>0, <1>1, <1>2, <1>3 DEF Advances

\* The works of an endpoint are tracked.
LEMMA OfTracked ==
  ASSUME NEW ep
  PROVE  /\ \A g \in AllocsOf(ep) : Alloc(g) \in Tracked
         /\ \A g \in HandshakesOf(ep) : Handshake(g) \in Tracked
BY DEF AllocsOf, HandshakesOf, Tracked, Range

\* The lookup of a pass.
LEMMA StopPassAdvances ==
  ASSUME ConfigType, AllocType, HsType, DoneType, LoopType, StopPass
  PROVE  LoopWorks
<1>1. Task("stopPass") /\ UNCHANGED <<loop, event, allocByRelay, hsByDisco>>
  BY DEF StopPass, allocMaps, hsMaps
<1>2. /\ loop = "running" /\ agenda # <<>> /\ agenda \in Seq(Tasks)
      /\ Head(agenda) \in Tasks /\ Head(agenda).op = "stopPass"
  BY <1>1, HeadFacts
<1>3. PICK t, ep, S : /\ t = Head(agenda) /\ ep = t.ep
                      /\ S = IF t.kind = "alloc" THEN {Alloc(g) : g \in AllocsOf(ep)}
                             ELSE {Handshake(g) : g \in HandshakesOf(ep)}
  OBVIOUS
<1>4. PICK u : u = [op |-> "stopEach", left |-> S]
  OBVIOUS
<1>5. u \in Tasks /\ agenda' = <<u>> \o Tail(agenda)
  BY <1>1, <1>3, <1>4, VisitFacts DEF StopPass, Then
<1>6. <<u>> \in Seq(Tasks) /\ Range(<<u>>) = {u}
  BY <1>5 DEF Range
<1>7. \A e : AllocsOf(e)' = AllocsOf(e) /\ HandshakesOf(e)' = HandshakesOf(e)
  BY <1>1 DEF AllocsOf, HandshakesOf
<1>8. ~HandshakeTask(t)
  BY <1>2, <1>3 DEF HandshakeTask
<1>9. ASSUME NEW e, NEW g \in AllocsOf(e), Reaches(t, Alloc(g), e)
      PROVE  Reaches(u, Alloc(g), e)
  <2>1. t.kind = "alloc" /\ e = ep
    BY <1>2, <1>3, <1>9 DEF Reaches, Alloc
  <2> QED BY <1>3, <1>4, <1>9, <2>1 DEF Reaches
<1>10. ASSUME NEW e, t = Pass("handshake", e)
       PROVE  HandshakeTask(u) /\ \A g \in HandshakesOf(e) : Reaches(u, Handshake(g), e)
  <2>1. t.kind = "handshake" /\ e = ep
    BY <1>3, <1>10 DEF Pass
  <2>2. S = {Handshake(g) : g \in HandshakesOf(e)}
    BY <1>3, <2>1
  <2> QED BY <1>4, <2>2 DEF HandshakeTask, Reaches, Handshake
<1>11. Advances(t, <<u>>)
  BY <1>5, <1>6, <1>7, <1>8, <1>9, <1>10 DEF Advances
<1> QED BY <1>1, <1>2, <1>3, <1>11 DEF LoopWorks

\* A round of a pass.
LEMMA StopEachAdvances ==
  ASSUME ConfigType, AllocType, HsType, DoneType, LoopType, StopEach
  PROVE  LoopWorks
<1>1. Task("stopEach") /\ UNCHANGED <<loop, event, allocByRelay, hsByDisco>>
  BY DEF StopEach, allocMaps, hsMaps
<1>2. /\ loop = "running" /\ agenda # <<>> /\ agenda \in Seq(Tasks)
      /\ Head(agenda) \in Tasks /\ Head(agenda).op = "stopEach" /\ Head(agenda).left \subseteq Works
  BY <1>1, HeadFacts, TaskFacts
<1>3. PICK t, S : t = Head(agenda) /\ S = t.left \cap Tracked
  OBVIOUS
<1>4. \A e : AllocsOf(e)' = AllocsOf(e) /\ HandshakesOf(e)' = HandshakesOf(e)
  BY <1>1 DEF AllocsOf, HandshakesOf
<1>5. \A e : t # Pass("handshake", e)
  BY <1>2, <1>3 DEF Pass
<1>6. /\ \A e : \A g \in AllocsOf(e) : Reaches(t, Alloc(g), e) => Alloc(g) \in S
      /\ \A e : \A g \in HandshakesOf(e) : Reaches(t, Handshake(g), e) => Handshake(g) \in S
      /\ HandshakeTask(t) => \A w \in S : w[1] = "handshake"
  BY <1>2, <1>3, OfTracked DEF Reaches, HandshakeTask
<1>7. CASE S = {} /\ Then(<<>>)
  <2>1. Range(<<>>) = {} /\ <<>> \in Seq(Tasks) /\ agenda' = <<>> \o Tail(agenda)
    BY <1>7 DEF Range, Then
  <2>2. Advances(t, <<>>)
    BY <1>4, <1>5, <1>6, <1>7, <2>1 DEF Advances
  <2> QED BY <1>1, <1>2, <1>3, <2>2 DEF LoopWorks
<1>8. ASSUME NEW w \in S, Then(<<Await(w), [op |-> "stopEach", left |-> S \ {w}]>>)
      PROVE  LoopWorks
  <2>1. PICK a, u : a = Await(w) /\ u = [op |-> "stopEach", left |-> S \ {w}]
    OBVIOUS
  <2>2. w \in Works /\ S \ {w} \subseteq Works
    BY <1>2, <1>3
  <2>3. a \in Tasks /\ u \in Tasks
    BY <2>1, <2>2, VisitFacts
  <2>4. /\ <<a, u>> \in Seq(Tasks) /\ agenda' = <<a, u>> \o Tail(agenda)
        /\ Range(<<a, u>>) = {a, u}
    <3>1. <<a, u>> \in Seq(Tasks) /\ agenda' = <<a, u>> \o Tail(agenda)
      BY <1>8, <2>1, <2>3 DEF Then
    <3>2. DOMAIN <<a, u>> = {1, 2} /\ <<a, u>>[1] = a /\ <<a, u>>[2] = u
      OBVIOUS
    <3> QED BY <3>1, <3>2 DEF Range
  <2>5. Reaches(a, w, None) /\ \A e : Reaches(a, w, e)
    BY <2>1, <2>2 DEF Reaches, Await, Works, Alloc, Handshake
  <2>6. \A v \in S : \A e : Reaches(a, v, e) \/ Reaches(u, v, e)
    BY <2>1, <2>5 DEF Reaches
  <2>7. HandshakeTask(t) => HandshakeTask(a) /\ HandshakeTask(u)
    <3>1. w[1] = "handshake" => a.op = "awaitHandshake"
      BY <2>1 DEF Await
    <3> QED BY <1>6, <2>1, <3>1 DEF HandshakeTask
  <2>8. Advances(t, <<a, u>>)
    BY <1>4, <1>5, <1>6, <2>4, <2>6, <2>7 DEF Advances
  <2> QED BY <1>1, <1>2, <1>3, <2>8 DEF LoopWorks
<1> QED BY <1>3, <1>7, <1>8 DEF StopEach

\* Every step does one of these to the loop.
LEMMA LoopKinds ==
  ASSUME TypeOK, HsIndexes, AllocIndexes, [Next]_vars
  PROVE  LoopStill \/ EndEvent \/ LoopTakes \/ LoopWorks
<1>0. ConfigType /\ AllocType /\ HsType /\ DoneType /\ LoopType
  BY TypeParts
<1>s. \A t \in Tasks : <<t>> \in Seq(Tasks)
  OBVIOUS
<1>e. <<>> \in Seq(Tasks) /\ (Tail(agenda) \in Seq(Tasks) => <<>> \o Tail(agenda) = Tail(agenda))
  <2>1. <<>> \in Seq(Tasks)
    OBVIOUS
  <2>2. ASSUME Tail(agenda) \in Seq(Tasks) PROVE <<>> \o Tail(agenda) = Tail(agenda)
    BY <2>2, ConcatEmptySeq, Zenon
  <2> QED BY <2>1, <2>2
<1>u. UNCHANGED allocByRelay => \A ep : AllocsOf(ep)' = AllocsOf(ep)
  BY DEF AllocsOf
<1>a. \A g, rest : AllocDone(g, rest) => AllocLeaves(g)
  <2> SUFFICES ASSUME NEW g, NEW rest, AllocDone(g, rest) PROVE AllocLeaves(g)
    OBVIOUS
  <2> QED BY Zenon DEF AllocDone, AllocLeaves
<1>1. CASE CallNext \/ StartLoop \/ UNCHANGED vars \/ WorkNext
  BY <1>1 DEF CallNext, Call, DiscoChanges, StartLoop, vars, WorkNext, HandshakeBegins,
       HandshakeReturns, AllocReturns, OfferCanceled, LoopStill, allocMaps, hsMaps
<1>2. ASSUME NEW c \in ConfigCalls, Configure(c) PROVE LoopTakes
  BY <1>2 DEF Configure, ConfigCalls, Take, Idle, LoopTakes
<1>3. ASSUME NEW c \in WorkCalls, StartDiscovery(c) PROVE LoopTakes
  BY <1>3 DEF StartDiscovery, Take, Idle, LoopTakes
<1>4. ASSUME NEW c \in WorkCalls, StopWork(c) \/ Accept(c) PROVE LoopTakes
  <2>1. c.op = "stopWork" => c \in StopCalls
    BY DEF WorkCalls, StopCalls
  <2>2. CASE StopWork(c)
    BY <2>1, <2>2 DEF StopWork, Take, Idle, LoopTakes
  <2>3. CASE Accept(c)
    BY <2>3 DEF Accept, Take, Idle, LoopTakes
  <2> QED BY <1>4, <2>2, <2>3
<1>5. ASSUME NEW m \in Messages, RxDiscoMsg(m) PROVE LoopTakes
  BY <1>5 DEF RxDiscoMsg, Take, Idle, LoopTakes
<1>6. ASSUME NEW g \in DOMAIN aWork, TakeAllocDone(g) PROVE LoopTakes
  BY <1>6 DEF TakeAllocDone, Idle, LoopTakes
<1>7. ASSUME NEW g \in DOMAIN hWork, TakeHandshakeDone(g) PROVE LoopTakes
  BY <1>7 DEF TakeHandshakeDone, Idle, LoopTakes
<1>8. ASSUME AwaitAlloc PROVE LoopWorks
  <2>1. Task("awaitAlloc") /\ UNCHANGED <<loop, event, aWork, aState>>
    BY <1>8 DEF AwaitAlloc, works
  <2>2. /\ loop = "running" /\ agenda # <<>> /\ Head(agenda).op = "awaitAlloc"
        /\ agenda \in Seq(Tasks) /\ Tail(agenda) \in Seq(Tasks) /\ Head(agenda).gen \in DOMAIN aWork
    BY <1>0, <2>1, HeadFacts, TaskFacts
  <2>3. AllocDone(Head(agenda).gen, Tail(agenda))
    BY <1>8 DEF AwaitAlloc
  <2>4. aState' \in Seq(AStates) /\ Len(aState') = Len(aState)
    BY <1>0, <2>1 DEF AllocType
  <2>5. agenda' = Tail(agenda) \/ \E t \in Tasks : agenda' = <<t>> \o Tail(agenda)
    BY <1>0, <2>1, <2>2, <2>3, <2>4, AllocDoneType
  <2>6. PICK p \in Seq(Tasks) : agenda' = p \o Tail(agenda)
    BY <1>s, <1>e, <2>2, <2>5
  <2>7. \A ep : AllocsOf(ep)' \subseteq AllocsOf(ep) \ {Head(agenda).gen}
    BY <1>0, <1>a, <2>2, <2>3, DoneRemoves
  <2>8. PICK t : t = Head(agenda) /\ t.op = "awaitAlloc"
    BY <2>2
  <2>9. (\A ep : AllocsOf(ep)' \subseteq AllocsOf(ep)) /\ \A ep : t.gen \notin AllocsOf(ep)'
    BY <2>7, <2>8
  <2>10. Advances(t, p)
    <3>1. MakesWay(t, p)
      BY <2>6, <2>8, <2>9 DEF MakesWay
    <3> QED BY <3>1, OtherAdvances, Zenon
  <2> QED BY <2>1, <2>2, <2>8, <2>10 DEF LoopWorks
<1>9. ASSUME AwaitHandshake PROVE LoopWorks
  <2>1. Task("awaitHandshake") /\ UNCHANGED <<loop, event, allocByRelay>> /\ Then(<<>>)
    BY <1>9 DEF AwaitHandshake, allocMaps
  <2>2. /\ loop = "running" /\ agenda # <<>> /\ Head(agenda).op = "awaitHandshake"
        /\ agenda \in Seq(Tasks) /\ Head(agenda).gen \in DOMAIN hWork
        /\ agenda' = <<>> \o Tail(agenda)
    BY <1>0, <2>1, HeadFacts, TaskFacts DEF Then
  <2>3. PICK t, g : t = Head(agenda) /\ g = t.gen
    OBVIOUS
  <2>4. \A ep : HandshakesOf(ep)' \subseteq HandshakesOf(ep) \ {g}
    BY <1>0, <1>9, <2>2, <2>3, DoneRemoves DEF AwaitHandshake
  <2>5. \A ep : t # Pass("handshake", ep)
    BY <2>2, <2>3 DEF Pass
  <2>6. Range(<<>>) = {}
    BY DEF Range
  <2>7. /\ \A ep, h : ~Reaches(t, Alloc(h), ep)
        /\ \A ep, h : Reaches(t, Handshake(h), ep) => h = g
    BY <2>2, <2>3 DEF Reaches, Alloc, Handshake
  <2>8. Advances(t, <<>>)
    BY <1>e, <1>u, <2>1, <2>2, <2>4, <2>5, <2>6, <2>7 DEF Advances
  <2> QED BY <2>1, <2>2, <2>3, <2>8 DEF LoopWorks
<1>10. StopPass \/ StopEach => LoopWorks
  BY <1>0, StopPassAdvances, StopEachAdvances
<1>11. ASSUME NewServerEndpoint PROVE LoopWorks
  <2>1. Task("newServerEndpoint") /\ UNCHANGED <<loop, event, allocByRelay>>
    BY <1>11 DEF NewServerEndpoint, allocMaps
  <2>2. /\ loop = "running" /\ agenda # <<>> /\ Head(agenda).op = "newServerEndpoint"
        /\ agenda \in Seq(Tasks) /\ Head(agenda) \in Tasks
    BY <1>0, <2>1, HeadFacts
  <2>3. PICK e : e = Head(agenda)
    OBVIOUS
  <2>4. PICK p \in Seq(Tasks) : agenda' = p \o Tail(agenda)
    <3>1. CASE Discard(e) \/ StartHandshake(e)
      BY <1>e, <3>1 DEF Discard, StartHandshake, Then
    <3>2. CASE ReplaceOlder(e)
      <4>1. PICK g \in Rivals(e) : agenda' = <<Await(Handshake(g))>> \o agenda
        BY <3>2 DEF ReplaceOlder
      <4>2. Handshake(g) \in Works
        BY <1>0, RivalFacts DEF Works
      <4>3. PICK a \in Tasks : agenda' = <<a>> \o agenda
        BY <4>1, <4>2, VisitFacts
      <4>4. <<a>> \o agenda = <<a, Head(agenda)>> \o Tail(agenda)
        BY <2>2, PushTwo
      <4>5. <<a, Head(agenda)>> \in Seq(Tasks)
        BY <2>2
      <4> QED BY <4>3, <4>4, <4>5
    <3> QED BY <1>11, <2>3, <3>1, <3>2 DEF NewServerEndpoint
  <2>5. \A ep : AllocsOf(ep)' \subseteq AllocsOf(ep)
    BY <1>u, <2>1
  <2>6. e.op = "newServerEndpoint"
    BY <2>2, <2>3
  <2>7. Advances(e, p)
    <3>1. MakesWay(e, p)
      BY <2>4, <2>5, <2>6 DEF MakesWay
    <3> QED BY <3>1, OtherAdvances, Zenon
  <2> QED BY <2>1, <2>2, <2>3, <2>7 DEF LoopWorks
<1>12. ASSUME Give PROVE LoopWorks
  <2>1. Task("give") /\ UNCHANGED <<loop, event, aWork>>
    BY <1>12 DEF Give
  <2>2. PICK t \in Tasks : t = Head(agenda) /\ t.op = "give"
    BY <1>0, <2>1, HeadFacts
  <2>3. /\ loop = "running" /\ agenda # <<>> /\ agenda \in Seq(Tasks)
        /\ Tail(agenda) \in Seq(Tasks) /\ (Then(<<>>) => agenda' = Tail(agenda))
    BY <1>0, <2>1, HeadFacts
  <2>4. t.work[1] = "alloc" => t.work[2] \in DOMAIN aWork
    BY <2>2, TaskFacts DEF Alloc, Handshake
  <2>5. ASSUME t.work[1] = "alloc", AllocDone(t.work[2], Tail(agenda)), UNCHANGED aState
        PROVE  /\ agenda' = Tail(agenda) \/ \E u \in Tasks : agenda' = <<u>> \o Tail(agenda)
               /\ \A ep : AllocsOf(ep)' \subseteq AllocsOf(ep)
    <3>1. aState' \in Seq(AStates) /\ Len(aState') = Len(aState)
      BY <1>0, <2>5 DEF AllocType
    <3>2. agenda' = Tail(agenda) \/ \E u \in Tasks : agenda' = <<u>> \o Tail(agenda)
      BY <1>0, <2>1, <2>3, <2>4, <2>5, <3>1, AllocDoneType
    <3>3. \A ep : AllocsOf(ep)' \subseteq AllocsOf(ep)
      BY <1>0, <1>a, <2>4, <2>5, DoneRemoves
    <3> QED BY <3>2, <3>3
  <2>6. /\ agenda' = Tail(agenda) \/ \E u \in Tasks : agenda' = <<u>> \o Tail(agenda)
        /\ \A ep : AllocsOf(ep)' \subseteq AllocsOf(ep)
    BY <1>12, <1>u, <2>2, <2>3, <2>5 DEF Give, allocMaps
  <2>7. PICK p \in Seq(Tasks) : agenda' = p \o Tail(agenda)
    BY <1>s, <1>e, <2>3, <2>6
  <2>8. Advances(t, p)
    <3>1. MakesWay(t, p)
      BY <2>2, <2>6, <2>7 DEF MakesWay
    <3> QED BY <3>1, OtherAdvances, Zenon
  <2> QED BY <2>1, <2>2, <2>3, <2>8 DEF LoopWorks
<1> QED
  BY <1>1, <1>2, <1>3, <1>4, <1>5, <1>6, <1>7, <1>8, <1>9, <1>10, <1>11, <1>12, Zenon
     DEF Next, LoopNext

\* The loop goes on with stopWork.
LEMMA StoppingNext ==
  ASSUME agenda # <<>>, agenda \in Seq(Tasks), NEW p, Advances(Head(agenda), p), NEW ep,
         Stopping(ep)
  PROVE  Stopping(ep)'
<1>1. PICK t, rest : t = Head(agenda) /\ rest = Range(Tail(agenda))
  OBVIOUS
<1>2. p \in Seq(Tasks) /\ agenda' = p \o Tail(agenda)
  BY DEF Advances
<1>3. Range(agenda) = {t} \cup rest /\ Range(agenda') = Range(p) \cup rest
  BY <1>1, <1>2, Spliced
<1>4. \A g \in AllocsOf(ep)' : \E u \in Range(agenda') : Reaches(u, Alloc(g), ep)
  BY <1>1, <1>3 DEF Advances, Stopping
<1>5. CASE agenda[Len(agenda)] = Pass("handshake", ep)
  <2>1. CASE Len(agenda) = 1
    <3>1. t = Pass("handshake", ep) /\ rest = {}
      BY <1>1, <1>2, <1>5, <2>1, Spliced
    <3>2. /\ \A u \in Range(agenda') : HandshakeTask(u)
          /\ \A g \in HandshakesOf(ep)' : \E u \in Range(agenda') : Reaches(u, Handshake(g), ep)
      BY <1>1, <1>3, <3>1 DEF Advances
    <3> QED BY <1>4, <3>2 DEF Stopping, Reaches, HandshakeTask, Alloc, Handshake
  <2>2. CASE Len(agenda) # 1
    <3>1. agenda' # <<>> /\ agenda'[Len(agenda')] = Pass("handshake", ep)
      BY <1>2, <1>5, <2>2, Spliced
    <3> QED BY <1>4, <3>1 DEF Stopping, Reaches, Alloc, Pass
  <2> QED BY <2>1, <2>2
<1>6. CASE /\ \A u \in Range(agenda) : HandshakeTask(u)
           /\ \A g \in HandshakesOf(ep) : \E u \in Range(agenda) : Reaches(u, Handshake(g), ep)
  <2>1. \A u \in Range(agenda') : HandshakeTask(u)
    BY <1>1, <1>3, <1>6 DEF Advances
  <2>2. \A g \in HandshakesOf(ep)' : \E u \in Range(agenda') : Reaches(u, Handshake(g), ep)
    BY <1>1, <1>3, <1>6 DEF Advances
  <2> QED BY <1>4, <2>1, <2>2 DEF Stopping, Reaches, HandshakeTask, Alloc, Handshake
<1> QED BY <1>5, <1>6 DEF Stopping

\* LoopInv is inductive.
LEMMA LoopInvNext ==
  ASSUME TypeOK, HsIndexes, AllocIndexes, LoopInv, [Next]_vars
  PROVE  LoopInv'
<1>n. None \notin StopCalls /\ None # Other /\ Other \notin StopCalls
  BY NoneAssumption DEF StopCalls, Other
<1>t. event \in {None, Other} \cup StopCalls
  BY DEF TypeOK
<1>1. CASE LoopStill
  <2>1. UNCHANGED <<agenda, event, allocByRelay, hsByDisco>> /\ loop' \in {loop, "running"}
    BY <1>1 DEF LoopStill
  <2>2. \A ep : Stopping(ep)' <=> Stopping(ep)
    BY <2>1 DEF Stopping, AllocsOf, HandshakesOf, Reaches, HandshakeTask, Alloc, Handshake, Pass
  <2> QED BY <2>1, <2>2 DEF LoopInv
<1>2. CASE EndEvent
  <2>1. /\ event' = None /\ agenda' = <<>> /\ loop' = IF hasActiveWork THEN "running" ELSE "stopped"
        /\ UNCHANGED <<allocByRelay, hsByDisco>>
    BY <1>2 DEF EndEvent, allocMaps, hsMaps
  <2> QED BY <1>n, <2>1 DEF LoopInv, hasActiveWork
<1>3. CASE LoopTakes
  <2>1. loop' = "running" /\ event = None /\ agenda = <<>>
    BY <1>3 DEF LoopTakes, LoopInv
  <2>2. CASE event' = Other
    BY <1>n, <2>1, <2>2 DEF LoopInv
  <2>3. CASE /\ event' \in StopCalls
             /\ agenda' = <<Pass("alloc", event'.ep), Pass("handshake", event'.ep)>>
    <3>1. PICK ep, a, h : ep = event'.ep /\ a = Pass("alloc", ep) /\ h = Pass("handshake", ep)
      OBVIOUS
    <3>2. agenda' = <<a, h>>
      BY <2>3, <3>1
    <3>3. agenda' # <<>> /\ agenda'[Len(agenda')] = h /\ a \in Range(agenda')
      BY <3>2 DEF Range
    <3>4. \A g : Reaches(a, Alloc(g), ep)
      BY <3>1 DEF Reaches, Alloc, Pass
    <3>5. Stopping(ep)'
      BY <3>1, <3>3, <3>4 DEF Stopping, Reaches, Alloc, Pass
    <3> QED BY <1>n, <2>1, <2>3, <3>1, <3>5 DEF LoopInv
  <2> QED BY <1>3, <2>2, <2>3 DEF LoopTakes
<1>4. CASE LoopWorks
  <2>1. /\ loop' = "running" /\ event' = event /\ agenda # <<>> /\ agenda \in Seq(Tasks)
    BY <1>4 DEF LoopWorks
  <2>2. event # None
    BY <2>1 DEF LoopInv
  <2>3. event \in StopCalls => Stopping(event.ep)'
    BY <1>4, <2>1, StoppingNext DEF LoopWorks, LoopInv
  <2> QED BY <2>1, <2>2, <2>3 DEF LoopInv
<1> QED BY <1>1, <1>2, <1>3, <1>4, LoopKinds

-----------------------------------------------------------------------------
(* The theorems.                                                             *)

IInv ==
  /\ TypeOK /\ HsIndexes /\ HsAccounted /\ AllocIndexes /\ AllocAccounted /\ LoopInv

\* At the start.
LEMMA IInvInit == Init => IInv
<1> SUFFICES ASSUME Init PROVE IInv
  OBVIOUS
<1>1. TypeOK
  BY TypeInit
<1>2. DOMAIN NoMap = {}
  BY DEF NoMap
<1>3. HsIndexes
  BY <1>2 DEF Init, HsIndexes, Indexed, Inverses
<1>4. AllocIndexes
  BY <1>2 DEF Init, AllocIndexes, Indexed
<1>5. HsAccounted /\ AllocAccounted
  BY DEF Init, HsAccounted, AllocAccounted
<1>6. LoopInv
  BY <1>2, NoneAssumption DEF Init, LoopInv
<1> QED BY <1>1, <1>3, <1>4, <1>5, <1>6 DEF IInv

\* Every step keeps the invariant.
LEMMA IInvNext == IInv /\ [Next]_vars => IInv'
<1> SUFFICES ASSUME IInv, [Next]_vars PROVE IInv'
  OBVIOUS
<1>0. TypeOK /\ HsIndexes /\ HsAccounted /\ AllocIndexes /\ AllocAccounted /\ LoopInv
  BY DEF IInv
<1>1. ConfigType /\ AllocType /\ HsType /\ DoneType /\ LoopType
  BY <1>0, TypeParts
<1>2. TypeOK'
  BY <1>0, TypeNext
<1>3. HsIndexes' /\ HsAccounted'
  BY <1>0, <1>1, HsKinds, HsStillNext, HsDoneNext, HsStartedNext, HsChallengedNext
<1>4. AllocIndexes' /\ AllocAccounted'
  BY <1>0, <1>1, AllocKinds, AStillNext, ADoneNext, AStartedNext
<1>5. LoopInv'
  BY <1>0, LoopInvNext
<1> QED BY <1>2, <1>3, <1>4, <1>5 DEF IInv

\* The invariant holds for any endpoints, servers and messages, and any number of calls.
LEMMA IInvHolds == Spec => []IInv
BY IInvInit, IInvNext, PTL DEF Spec

\* A tracked work is one that Current or CurrentAlloc finds.
LEMMA TrackedFacts ==
  ASSUME TypeOK, HsIndexes, AllocIndexes
  PROVE  /\ \A g \in DOMAIN hWork : Handshake(g) \in Tracked <=> Current(g)
         /\ \A g \in DOMAIN aWork : Alloc(g) \in Tracked <=> CurrentAlloc(g)
         /\ \A w \in Tracked : \/ \E g \in DOMAIN hWork : w = Handshake(g) /\ Current(g)
                               \/ \E g \in DOMAIN aWork : w = Alloc(g) /\ CurrentAlloc(g)
<1>0. HsType /\ AllocType
  BY TypeParts
<1>1. \A g : g \in Range(hsByDisco) => g \in DOMAIN hWork /\ Current(g)
  <2> SUFFICES ASSUME NEW k \in DOMAIN hsByDisco
               PROVE  hsByDisco[k] \in DOMAIN hWork /\ Current(hsByDisco[k])
    BY DEF Range
  <2>1. hsByDisco[k] \in DOMAIN hWork
    BY <1>0 DEF HsType, Partial
  <2>2. In(hsByDisco, DKeys, hsByDisco[k])
    BY DEF HsIndexes, Indexed, In
  <2> QED BY <2>1, <2>2, CurrentIn
<1>2. \A g : g \in Range(allocByRelay) => g \in DOMAIN aWork /\ CurrentAlloc(g)
  <2> SUFFICES ASSUME NEW k \in DOMAIN allocByRelay
               PROVE  allocByRelay[k] \in DOMAIN aWork /\ CurrentAlloc(allocByRelay[k])
    BY DEF Range
  <2>1. allocByRelay[k] \in DOMAIN aWork
    BY <1>0 DEF AllocType, Partial
  <2>2. In(allocByRelay, RKeys, allocByRelay[k])
    BY DEF AllocIndexes, Indexed, In
  <2> QED BY <2>1, <2>2, CurrentAllocIn
<1>3. /\ \A g : Current(g) => g \in Range(hsByDisco)
      /\ \A g : CurrentAlloc(g) => g \in Range(allocByRelay)
  BY DEF Current, CurrentAlloc, Range
<1> QED BY <1>1, <1>2, <1>3 DEF Tracked, Alloc, Handshake

\* IndexesAgree, from the indexes.
LEMMA IndexesFollow ==
  ASSUME TypeOK, HsIndexes, AllocIndexes
  PROVE  IndexesAgree
<1>0. HsType /\ AllocType
  BY TypeParts
<1>1. \A k \in DOMAIN hsByDisco :
        LET g == hsByDisco[k] IN k = <<hWork[g].ep, hWork[g].se.disco>> /\ BySDV(g)
  <2> SUFFICES ASSUME NEW k \in DOMAIN hsByDisco, NEW g, g = hsByDisco[k]
               PROVE  k = <<hWork[g].ep, hWork[g].se.disco>> /\ BySDV(g)
    OBVIOUS
  <2>1. g \in DOMAIN hWork
    BY <1>0 DEF HsType, Partial
  <2>2. DKeys[g] = k /\ In(hsBySDV, SKeys, g)
    BY DEF HsIndexes, Indexed
  <2>3. DKeys[g] = <<hWork[g].ep, hWork[g].se.disco>>
    BY <2>1 DEF DKeys
  <2> QED BY <2>1, <2>2, <2>3, CurrentIn
<1>2. \A k \in DOMAIN hsBySDV : LET g == hsBySDV[k] IN k = SDV(hWork[g].se) /\ Current(g)
  <2> SUFFICES ASSUME NEW k \in DOMAIN hsBySDV, NEW g, g = hsBySDV[k]
               PROVE  k = SDV(hWork[g].se) /\ Current(g)
    OBVIOUS
  <2>1. g \in DOMAIN hWork
    BY <1>0 DEF HsType, Partial
  <2>2. SKeys[g] = k /\ In(hsByDisco, DKeys, g)
    BY DEF HsIndexes, Indexed
  <2>3. SKeys[g] = SDV(hWork[g].se)
    BY <2>1 DEF SKeys
  <2> QED BY <2>1, <2>2, <2>3, CurrentIn
<1>3. DOMAIN awaitingPong \subseteq Range(hsBySDV)
  <2> SUFFICES ASSUME NEW g \in DOMAIN awaitingPong PROVE g \in Range(hsBySDV)
    OBVIOUS
  <2>1. Current(g) /\ g \in DOMAIN hWork
    BY <1>0 DEF HsIndexes, HsType, Partial
  <2>2. In(hsByDisco, DKeys, g)
    BY <2>1, CurrentIn
  <2>3. In(hsBySDV, SKeys, g)
    BY <2>2 DEF HsIndexes, Indexed, In
  <2> QED BY <2>3 DEF In, Range
<1>4. Inverses(awaitingPong, apvToWork)
  BY DEF HsIndexes
<1>5. \A k \in DOMAIN allocByRelay :
        LET g == allocByRelay[k] IN k = <<aWork[g].ep, aWork[g].cand>> /\ ByKeys(g)
  <2> SUFFICES ASSUME NEW k \in DOMAIN allocByRelay, NEW g, g = allocByRelay[k]
               PROVE  k = <<aWork[g].ep, aWork[g].cand>> /\ ByKeys(g)
    OBVIOUS
  <2>1. g \in DOMAIN aWork
    BY <1>0 DEF AllocType, Partial
  <2>2. RKeys[g] = k /\ In(allocByKeys, KKeys, g)
    BY DEF AllocIndexes, Indexed
  <2>3. RKeys[g] = <<aWork[g].ep, aWork[g].cand>>
    BY <2>1 DEF RKeys
  <2> QED BY <2>1, <2>2, <2>3, CurrentAllocIn
<1>6. \A k \in DOMAIN allocByKeys :
        LET g == allocByKeys[k] IN k = <<NodeKey(aWork[g].cand), aWork[g].keys>> /\ CurrentAlloc(g)
  <2> SUFFICES ASSUME NEW k \in DOMAIN allocByKeys, NEW g, g = allocByKeys[k]
               PROVE  k = <<NodeKey(aWork[g].cand), aWork[g].keys>> /\ CurrentAlloc(g)
    OBVIOUS
  <2>1. g \in DOMAIN aWork
    BY <1>0 DEF AllocType, Partial
  <2>2. KKeys[g] = k /\ In(allocByRelay, RKeys, g)
    BY DEF AllocIndexes, Indexed
  <2>3. KKeys[g] = <<NodeKey(aWork[g].cand), aWork[g].keys>>
    BY <2>1 DEF KKeys
  <2> QED BY <2>1, <2>2, <2>3, CurrentAllocIn
<1> QED BY <1>1, <1>2, <1>3, <1>4, <1>5, <1>6, Zenon DEF IndexesAgree

\* For any finite set of servers, any endpoints, keys, VNIs and messages and any number of
\* calls: the maps of runLoop are typed, agree with each other, and are all empty when the
\* loop stops (relaymanager.go, runLoop).
THEOREM TablesSoundHolds == Spec => []TablesSound
<1>1. IInv => TablesSound
  <2> SUFFICES ASSUME IInv PROVE TablesSound
    OBVIOUS
  <2>1. TypeOK /\ HsIndexes /\ AllocIndexes /\ LoopInv
    BY DEF IInv
  <2>2. IndexesAgree
    BY <2>1, IndexesFollow
  <2>3. ASSUME loop = "stopped"
        PROVE  \A f \in {allocByRelay, allocByKeys, hsByDisco, hsBySDV, awaitingPong, apvToWork} :
                 DOMAIN f = {}
    <3>1. DOMAIN allocByRelay = {} /\ DOMAIN hsByDisco = {}
      BY <2>1, <2>3 DEF LoopInv
    <3>2. DOMAIN allocByKeys = {} /\ DOMAIN hsBySDV = {}
      BY <2>1, <3>1 DEF HsIndexes, AllocIndexes, Indexed, In
    <3>3. DOMAIN awaitingPong = {} /\ DOMAIN apvToWork = {}
      BY <2>1, <3>1 DEF HsIndexes, Current, Inverses
    <3> QED BY <3>1, <3>2, <3>3
  <2> QED BY <2>1, <2>2, <2>3 DEF TablesSound, StoppedIsClean
<1> QED BY <1>1, IInvHolds, PTL

\* For the same: a goroutine that works is in the maps, one that is in the maps still owes
\* its event or has it in doneCh, and a path is reported at most once, with a pong
\* (handleHandshakeWorkDoneRunLoop, handleAllocWorkDoneRunLoop).
THEOREM WorkAccountedHolds == Spec => []WorkAccounted
<1>1. IInv => WorkAccounted
  <2> SUFFICES ASSUME IInv PROVE WorkAccounted
    OBVIOUS
  <2>1. TypeOK /\ HsIndexes /\ HsAccounted /\ AllocIndexes /\ AllocAccounted
    BY DEF IInv
  <2>2. \A g : PC(Alloc(g)) = aState[g].pc /\ PC(Handshake(g)) = hState[g].pc
    BY DEF PC, Alloc, Handshake
  <2>3. TrackedAnswers
    BY <2>1, <2>2, TrackedFacts DEF TrackedAnswers, HsAccounted, AllocAccounted, Working
  <2>4. NoneLost
    BY <2>1, <2>2, TrackedFacts DEF NoneLost, HsAccounted, AllocAccounted, Working, Works
  <2>5. ReadyOnce
    BY <2>1 DEF ReadyOnce, HsAccounted
  <2> QED BY <2>3, <2>4, <2>5 DEF WorkAccounted
<1> QED BY <1>1, IInvHolds, PTL

\* For the same: when the loop has handled stopWork(ep), no allocation and no handshake for
\* ep is in the maps, whatever an allocation led to while it was stopped: one pass over
\* the allocations and then one over the handshakes is enough (stopWorkRunLoop).
THEOREM StopClearsHolds == Spec => StopClears
<1>1. IInv /\ [Next]_vars =>
        [event # None /\ event.op = "stopWork" /\ event' = None =>
           AllocsOf(event.ep) = {} /\ HandshakesOf(event.ep) = {}]_vars
  <2> SUFFICES ASSUME IInv, [Next]_vars, event # None, event.op = "stopWork", event' = None
               PROVE  AllocsOf(event.ep) = {} /\ HandshakesOf(event.ep) = {}
    OBVIOUS
  <2>1. TypeOK /\ HsIndexes /\ AllocIndexes /\ LoopInv
    BY DEF IInv
  <2>2. event \in StopCalls
    BY <2>1 DEF TypeOK, Other
  <2>3. None # Other /\ None \notin StopCalls
    BY NoneAssumption
  <2>4. EndEvent
    BY <2>1, <2>3, LoopKinds DEF LoopStill, LoopTakes, LoopWorks
  <2>5. agenda = <<>>
    BY <2>4 DEF EndEvent
  <2>6. Range(agenda) = {}
    BY <2>5 DEF Range
  <2> QED BY <2>1, <2>2, <2>5, <2>6 DEF LoopInv, Stopping
<1> QED BY <1>1, IInvHolds, PTL DEF Spec, StopClears

=============================================================================
