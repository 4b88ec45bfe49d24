---------------------------- MODULE QueueLemmas ----------------------------
(***************************************************************************)
(* Facts about sequences that the proofs about the event bus, the DERP     *)
(* server, the control client and the relay manager share.                 *)
(***************************************************************************)
EXTENDS Naturals, Sequences, SequencesExt, SequenceTheorems, WellFoundedInduction, TLAPS

Holds(q, x) == \E i \in 1..Len(q) : q[i] = x
Distinct(q) == \A i, j \in 1..Len(q) : q[i] = q[j] => i = j

\* A set of naturals that is not empty has a least element, which Min is.
LEMMA MinOf ==
  ASSUME NEW S \in SUBSET Nat, S # {}
  PROVE  Min(S) \in S
<1>1. PICK m \in S : \A n \in S : ~(<<n, m>> \in OpToRel(<, Nat))
  BY NatLessThanWellFounded, WFMin
<1>2. ASSUME NEW n \in S, n < m PROVE FALSE
  <2>1. <<n, m>> \in OpToRel(<, Nat)
    BY <1>2 DEF OpToRel
  <2> QED BY <1>1, <2>1
<1>3. \A n \in S : m <= n
  BY <1>2
<1> QED BY <1>3 DEF Min

\* What slices.Index and slices.Delete leave: the others stay, and c goes if it was there
\* once.
LEMMA RemoveFirstProperties ==
  ASSUME NEW S, NEW q \in Seq(S), NEW c
  PROVE  /\ RemoveFirst(q, c) \in Seq(S)
         /\ \A d : Holds(RemoveFirst(q, c), d) => Holds(q, d)
         /\ \A d : d # c /\ Holds(q, d) => Holds(RemoveFirst(q, c), d)
         /\ Distinct(q) => Distinct(RemoveFirst(q, c)) /\ ~Holds(RemoveFirst(q, c), c)
<1>1. CASE ~ \E i \in 1..Len(q) : q[i] = c
  <2>1. RemoveFirst(q, c) = q
    BY <1>1 DEF RemoveFirst
  <2> QED BY <1>1, <2>1 DEF Holds
<1>2. CASE \E i \in 1..Len(q) : q[i] = c
  <2> DEFINE I == {i \in 1..Len(q) : q[i] = c}
             m == Min(I)
             r == RemoveFirst(q, c)
  <2>1. m \in I
    BY <1>2, MinOf
  <2>2. r = SubSeq(q, 1, m - 1) \o SubSeq(q, m + 1, Len(q))
    BY <1>2 DEF RemoveFirst, RemoveAt, SelectInSeq
  <2> HIDE DEF m, r
  <2>3. m \in 1..Len(q) /\ q[m] = c
    BY <2>1
  <2>4. /\ r \in Seq(S) /\ Len(r) = Len(q) - 1
        /\ \A j \in 1..Len(r) : r[j] = IF j < m THEN q[j] ELSE q[j + 1]
    <3> DEFINE u == SubSeq(q, 1, m - 1)
               v == SubSeq(q, m + 1, Len(q))
    <3>1. /\ u \in Seq(S) /\ Len(u) = m - 1
          /\ \A j \in 1..m - 1 : u[j] = q[j]
      BY <2>3
    <3>2. /\ v \in Seq(S) /\ Len(v) = Len(q) - m
          /\ \A j \in 1..Len(q) - m : v[j] = q[j + m]
      BY <2>3
    <3>3. r = u \o v
      BY <2>2
    <3> HIDE DEF u, v
    <3>4. /\ r \in Seq(S) /\ Len(r) = Len(u) + Len(v)
          /\ \A j \in 1..Len(r) : r[j] = IF j <= Len(u) THEN u[j] ELSE v[j - Len(u)]
      <4>1. u \in Seq(S) /\ v \in Seq(S)
        BY <3>1, <3>2
      <4>2. /\ u \o v \in Seq(S)
            /\ Len(u \o v) = Len(u) + Len(v)
            /\ \A j \in 1..Len(u) + Len(v) :
                 (u \o v)[j] = IF j <= Len(u) THEN u[j] ELSE v[j - Len(u)]
        BY <4>1, ConcatProperties, Zenon
      <4> QED BY <3>3, <4>2, Zenon
    <3>5. Len(r) = Len(q) - 1
      BY <2>3, <3>1, <3>2, <3>4
    <3>6. ASSUME NEW j \in 1..Len(r) PROVE r[j] = IF j < m THEN q[j] ELSE q[j + 1]
      <4>1. CASE j < m
        BY <2>3, <3>1, <3>4, <4>1
      <4>2. CASE ~(j < m)
        <5>1. j - (m - 1) \in 1..Len(q) - m
          BY <2>3, <3>5, <4>2
        <5> QED BY <2>3, <3>1, <3>2, <3>4, <4>2, <5>1
      <4> QED BY <4>1, <4>2
    <3> QED BY <3>4, <3>5, <3>6
  <2>5. \A d : Holds(r, d) => Holds(q, d)
    BY <2>3, <2>4 DEF Holds
  <2>6. ASSUME NEW d, d # c, Holds(q, d) PROVE Holds(r, d)
    <3>1. PICK i \in 1..Len(q) : q[i] = d
      BY <2>6 DEF Holds
    <3>2. CASE i < m
      BY <3>1, <3>2, <2>3, <2>4 DEF Holds
    <3>3. CASE i > m
      <4>1. i - 1 \in 1..Len(r) /\ r[i - 1] = d
        BY <3>1, <3>3, <2>3, <2>4
      <4> QED BY <4>1 DEF Holds
    <3> QED BY <2>3, <2>6, <3>1, <3>2, <3>3
  <2>7. ASSUME Distinct(q) PROVE Distinct(r) /\ ~Holds(r, c)
    <3>1. \A j \in 1..Len(r) : LET i == IF j < m THEN j ELSE j + 1
                               IN  i \in 1..Len(q) /\ r[j] = q[i] /\ i # m
      BY <2>3, <2>4
    <3>2. Distinct(r)
      BY <2>3, <2>7, <3>1 DEF Distinct
    <3>3. ~Holds(r, c)
      BY <2>3, <2>7, <3>1 DEF Distinct, Holds
    <3> QED BY <3>2, <3>3
  <2> QED BY <2>4, <2>5, <2>6, <2>7 DEF r
<1> QED BY <1>1, <1>2

\* A queue that gives up its head.
LEMMA TailProperties ==
  ASSUME NEW S, NEW q \in Seq(S), q # <<>>
  PROVE  /\ Tail(q) \in Seq(S) /\ Len(q) \in Nat \ {0} /\ Len(Tail(q)) = Len(q) - 1
         /\ Head(q) = q[1] /\ q[1] \in S
         /\ \A i \in 1..Len(q) - 1 : Tail(q)[i] = q[i + 1]
OBVIOUS

\* A queue that takes an element.
LEMMA AppendFacts ==
  ASSUME NEW S, NEW q \in Seq(S), NEW x \in S
  PROVE  /\ Append(q, x) \in Seq(S) /\ Len(Append(q, x)) = Len(q) + 1
         /\ Len(q) \in Nat /\ Append(q, x)[Len(q) + 1] = x
         /\ \A i \in 1..Len(q) : Append(q, x)[i] = q[i]
OBVIOUS

\* What is at the front of a queue stays there when an event is added to it.
LEMMA AppendFront ==
  ASSUME NEW S, NEW q \in Seq(S), NEW x \in S
  PROVE  /\ Append(q, x) # <<>>
         /\ q # <<>> => Append(q, x)[1] = q[1]
         /\ \A y : Holds(q, y) => Holds(Append(q, x), y)
         /\ Holds(Append(q, x), x)
<1>1. /\ Len(q) \in Nat /\ Len(Append(q, x)) = Len(q) + 1 /\ Append(q, x)[Len(q) + 1] = x
      /\ \A i \in 1..Len(q) : Append(q, x)[i] = q[i]
  BY AppendFacts
<1>2. q # <<>> => 1 \in 1..Len(q)
  OBVIOUS
<1> QED BY <1>1, <1>2 DEF Holds
=============================================================================
