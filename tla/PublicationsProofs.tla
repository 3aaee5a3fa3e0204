-------------------------- MODULE PublicationsProofs --------------------------
(***************************************************************************)
(* The safety properties of Publications, for all times, capacities and    *)
(* numbers of frames, sessions, changes and spaces.  That an origin names  *)
(* one space is not inductive.  Which poses a new pose shares its origin   *)
(* with is decided when the policy advances past an announced change, so   *)
(* the invariant says where every announced change is until then (Applied: *)
(* queued, or crossed by every pose of the current origin); which space    *)
(* they name is decided when the host makes one, so it says that poses,    *)
(* events and events still queued agree with the host's space (Spaces),    *)
(* and what the next Submit may still show was named under the current     *)
(* origin (Shown).                                                         *)
(***************************************************************************)
EXTENDS Publications, FiniteSetTheorems, SequenceTheorems, TLAPS

\* A queue of times in order, and one that has a time.
Sorted(p) == \A i, j \in 1 .. Len(p) : i < j => p[i] <= p[j]
Has(p, c) == \E i \in 1 .. Len(p) : p[i] = c

\* Frame numbers run on through restarts, and no publication is ahead of them.
Numbers ==
  /\ numbering.last = numbering.offset + session.sequence
  /\ poses.sequence <= numbering.last /\ geometry.sequence <= numbering.last

\* Where an open frame, or one with geometry, may be.
OpenFrame == frame.open => service \in {"live", "failed"} /\ session.running

\* A change that was announced is queued until the policy has advanced past it,
\* and every pose of the current origin follows exactly those that are not queued.
Applied ==
  changes.active =>
    /\ \A i \in DOMAIN noted : noted[i] > changes.target => Has(changes.pending, noted[i])
    /\ \A a \in named.poses :
         /\ a.crossed \subseteq DOMAIN noted
         /\ \A i \in a.crossed : noted[i] <= changes.target
         /\ \A i \in DOMAIN noted : i \in a.crossed \/ Has(changes.pending, noted[i])

\* Poses and events of the current origin, those still queued included, name one
\* space, and it is the host's as long as that is usable.
Spaces ==
  /\ OriginNamesItsSpace
  /\ \A i \in DOMAIN events : events[i].origin = poses.origin =>
       \A a \in named.poses : a.space = events[i].id.space
  /\ seated.usable =>
       /\ \A a \in named.poses : a.space = seated.space
       /\ \A e \in named.events : e.space = seated.space
       /\ \A i \in DOMAIN events :
            events[i].origin = poses.origin => events[i].id.space = seated.space

\* What the next Submit may show was published under the current origin.
Shown ==
  /\ frame.open /\ frame.ready => frame.id \in named.poses /\ seated.usable
  /\ previous.valid /\ previous.reference = poses.origin => previous.id \in named.poses

\* The inductive invariant.
IInv == /\ TypeOK /\ Len(noted) <= MaxChanges
        /\ PendingSorted /\ EventsOrdered
        /\ Numbers /\ OpenFrame /\ Applied /\ Spaces /\ Shown
        /\ misplaced = FALSE /\ refused = FALSE

-------------------------------------------------------------------------------
(* The queue of changes *)

\* The times up to c of a sorted queue are its first so many.
LEMMA Split ==
  ASSUME NEW p \in Seq(Times), Sorted(p), NEW c \in Nat,
         NEW k, k = Cardinality({i \in 1 .. Len(p) : p[i] <= c})
  PROVE  k \in 0 .. Len(p) /\ \A i \in 1 .. Len(p) : p[i] <= c <=> i <= k
<1> DEFINE S == {i \in 1 .. Len(p) : p[i] <= c}
<1>0. Len(p) \in Nat /\ Times \subseteq Nat /\ \A i \in 1 .. Len(p) : p[i] \in Nat
  BY PublicationsAssumption DEF Times
<1>1. IsFiniteSet(1 .. Len(p)) /\ Cardinality(1 .. Len(p)) = Len(p)
  <2>1. /\ IsFiniteSet(1 .. Len(p))
        /\ Cardinality(1 .. Len(p)) = IF 1 > Len(p) THEN 0 ELSE Len(p) - 1 + 1
    BY <1>0, FS_Interval
  <2> QED BY <1>0, <2>1
<1>2. S \subseteq 1 .. Len(p)
  OBVIOUS
<1>3. IsFiniteSet(S) /\ Cardinality(S) <= Len(p) /\ Cardinality(S) \in Nat
  BY <1>1, <1>2, FS_Subset, FS_CardinalityType
<1>4. k \in Nat /\ k <= Len(p) /\ k = Cardinality(S)
  BY <1>0, <1>3
<1>5. \A i \in S : i <= k
  <2> SUFFICES ASSUME NEW i \in S, k < i PROVE FALSE
    BY <1>0, <1>4
  <2>1. 1 .. i \subseteq S
    BY <1>0 DEF Sorted
  <2>2. IsFiniteSet(1 .. i) /\ Cardinality(1 .. i) = i
    BY <1>0, FS_Interval
  <2>3. Cardinality(1 .. i) <= Cardinality(S)
    BY <2>1, <1>3, FS_Subset
  <2> QED
    BY <2>2, <2>3, <1>4, <1>0
<1>6. IsFiniteSet(1 .. k) /\ Cardinality(1 .. k) = k
  BY <1>4, FS_Interval
<1>7. S \subseteq 1 .. k
  BY <1>5, <1>0, <1>4
<1>8. S = 1 .. k
  BY <1>6, <1>7, <1>4, FS_Subset
<1> QED
  BY <1>8, <1>4, <1>0

\* advance(): the prefix it removes, and that there is one.
LEMMA DueFacts ==
  ASSUME changes.pending \in Seq(Times), Sorted(changes.pending), NEW t \in Times
  PROVE  /\ Due(t) \in 0 .. Len(changes.pending)
         /\ \A i \in 1 .. Len(changes.pending) : changes.pending[i] <= t <=> i <= Due(t)
<1> DEFINE p == changes.pending
           P(n) == (\A i \in 1 .. n : p[i] <= t) /\ (n < Len(p) => p[n + 1] > t)
           k == Cardinality({i \in 1 .. Len(p) : p[i] <= t})
<1>0. t \in Nat /\ Len(p) \in Nat /\ \A i \in 1 .. Len(p) : p[i] \in Nat
  BY PublicationsAssumption DEF Times
<1>1. k \in 0 .. Len(p) /\ \A i \in 1 .. Len(p) : p[i] <= t <=> i <= k
  <2> HIDE DEF k
  <2> QED BY <1>0, Split DEF k
<1>2. P(k)
  <2> HIDE DEF k
  <2> QED BY <1>0, <1>1
<1>3. \E n \in 0 .. Len(p) : P(n)
  <2> HIDE DEF k, P
  <2> QED BY <1>1, <1>2
<1>4. Due(t) = CHOOSE n \in 0 .. Len(p) : P(n)
  BY DEF Due
<1>5. Due(t) \in 0 .. Len(p) /\ P(Due(t))
  <2> HIDE DEF P
  <2> QED BY <1>3, <1>4
<1> HIDE DEF k
<1> QED BY <1>0, <1>5 DEF Sorted

\* What is left of the queue after advance().
LEMMA AdvancedFacts ==
  ASSUME changes.pending \in Seq(Times), Sorted(changes.pending), NEW t \in Times
  PROVE  LET q == Advanced(t).pending IN
         /\ q \in Seq(Times) /\ Sorted(q) /\ Len(q) <= Len(changes.pending)
         /\ \A c \in Times : Has(q, c) <=> Has(changes.pending, c) /\ c > t
         /\ Due(t) = 0 => \A c \in Times : Has(changes.pending, c) => c > t
         /\ Advanced(t).active = TRUE /\ Advanced(t).target = t
<1> DEFINE p == changes.pending
           d == Due(t)
           q == SubSeq(p, d + 1, Len(p))
<1>0. t \in Nat /\ Len(p) \in Nat /\ Times \subseteq Nat /\ \A i \in 1 .. Len(p) : p[i] \in Times
  BY PublicationsAssumption DEF Times
<1>1. d \in 0 .. Len(p) /\ \A i \in 1 .. Len(p) : p[i] <= t <=> i <= d
  BY DueFacts
<1>2. Advanced(t) = [active |-> TRUE, pending |-> q, target |-> t]
  BY DEF Advanced
<1> HIDE DEF d
<1>3. /\ q \in Seq(Times) /\ Len(q) = Len(p) - d
      /\ \A i \in 1 .. Len(q) : q[i] = p[d + i]
  <2>1. \A i \in d + 1 .. Len(p) : p[i] \in Times
    BY <1>0, <1>1
  <2>2. /\ q \in Seq(Times)
        /\ Len(q) = IF d + 1 <= Len(p) THEN Len(p) - (d + 1) + 1 ELSE 0
        /\ \A i \in 1 .. Len(p) - (d + 1) + 1 : q[i] = p[d + 1 + i - 1]
    BY <2>1, <1>0, <1>1, SubSeqProperties
  <2>3. Len(q) = Len(p) - d
    BY <2>2, <1>0, <1>1
  <2>4. \A i \in 1 .. Len(q) : d + 1 + i - 1 = d + i
    BY <1>0, <1>1, <2>3
  <2> HIDE DEF q
  <2> QED BY <2>2, <2>3, <2>4, <1>0, <1>1
<1> HIDE DEF q
<1>4. Sorted(q)
  <2> SUFFICES ASSUME NEW i \in 1 .. Len(q), NEW j \in 1 .. Len(q), i < j PROVE q[i] <= q[j]
    BY DEF Sorted
  <2>1. d + i \in 1 .. Len(p) /\ d + j \in 1 .. Len(p) /\ d + i < d + j
    BY <1>0, <1>1, <1>3
  <2> QED BY <2>1, <1>3 DEF Sorted
<1>5. ASSUME NEW c \in Times PROVE Has(q, c) <=> Has(p, c) /\ c > t
  <2>1. ASSUME NEW i \in 1 .. Len(q), q[i] = c PROVE Has(p, c) /\ c > t
    <3>1. d + i \in 1 .. Len(p) /\ p[d + i] = c /\ ~(d + i <= d)
      BY <2>1, <1>0, <1>1, <1>3
    <3>2. Has(p, c)
      BY <3>1 DEF Has
    <3>3. ~(c <= t) /\ c \in Nat
      BY <3>1, <1>1, <1>0
    <3> QED BY <3>2, <3>3, <1>0
  <2>2. ASSUME NEW i \in 1 .. Len(p), p[i] = c, c > t PROVE Has(q, c)
    <3>1. i - d \in 1 .. Len(q) /\ d + (i - d) = i
      BY <2>2, <1>0, <1>1, <1>3
    <3> QED BY <3>1, <2>2, <1>3 DEF Has
  <2> QED BY <2>1, <2>2 DEF Has
<1>6. d = 0 => \A c \in Times : Has(p, c) => c > t
  BY <1>0, <1>1 DEF Has
<1> QED
  BY <1>0, <1>1, <1>2, <1>3, <1>4, <1>5, <1>6 DEF d

\* note(): the queue with one more change in its place.
LEMMA NoteFacts ==
  ASSUME changes.pending \in Seq(Times), Sorted(changes.pending), NEW c \in Times
  PROVE  LET q == SubSeq(changes.pending, 1, Place(c)) \o <<c>>
                    \o SubSeq(changes.pending, Place(c) + 1, Len(changes.pending)) IN
         /\ q \in Seq(Times) /\ Sorted(q) /\ Len(q) = Len(changes.pending) + 1
         /\ \A x \in Times : Has(q, x) <=> Has(changes.pending, x) \/ x = c
<1> DEFINE p == changes.pending
           n == Len(p)
           k == Place(c)
           a == SubSeq(p, 1, k)
           b == SubSeq(p, k + 1, n)
           q == a \o <<c>> \o b
<1>0. c \in Nat /\ n \in Nat /\ Times \subseteq Nat /\ \A i \in 1 .. n : p[i] \in Times
  BY PublicationsAssumption DEF Times
<1>1. k \in 0 .. n /\ \A i \in 1 .. n : p[i] <= c <=> i <= k
  <2>1. k = Cardinality({i \in 1 .. Len(p) : p[i] <= c})
    <3>1. DOMAIN p = 1 .. Len(p)
      OBVIOUS
    <3> QED BY <3>1 DEF Place
  <2> HIDE DEF k
  <2> QED BY <2>1, <1>0, Split
<1> HIDE DEF k
<1>k. k \in Nat /\ n \in Nat /\ k <= n
  BY <1>0, <1>1
<1>2. a \in Seq(Times) /\ Len(a) = k /\ \A i \in 1 .. k : a[i] = p[i]
  <2>1. \A i \in 1 .. k : p[i] \in Times
    BY <1>0, <1>1
  <2>2. /\ a \in Seq(Times) /\ Len(a) = IF 1 <= k THEN k - 1 + 1 ELSE 0
        /\ \A i \in 1 .. k - 1 + 1 : a[i] = p[1 + i - 1]
    BY <2>1, <1>0, <1>1, SubSeqProperties
  <2>3. Len(a) = k /\ k - 1 + 1 = k /\ \A i \in 1 .. k : 1 + i - 1 = i
    BY <2>2, <1>0, <1>1
  <2> HIDE DEF a
  <2> QED BY <2>2, <2>3
<1>3. b \in Seq(Times) /\ Len(b) = n - k /\ \A i \in 1 .. n - k : b[i] = p[k + i]
  <2>1. \A i \in k + 1 .. n : p[i] \in Times
    BY <1>0, <1>1
  <2>2. /\ b \in Seq(Times) /\ Len(b) = IF k + 1 <= n THEN n - (k + 1) + 1 ELSE 0
        /\ \A i \in 1 .. n - (k + 1) + 1 : b[i] = p[k + 1 + i - 1]
    BY <2>1, <1>0, <1>1, SubSeqProperties
  <2>3. /\ Len(b) = n - k /\ n - (k + 1) + 1 = n - k
        /\ \A i \in 1 .. n - k : k + 1 + i - 1 = k + i
    BY <2>2, <1>0, <1>1
  <2> HIDE DEF b
  <2> QED BY <2>2, <2>3
<1> HIDE DEF a, b
<1>4. /\ q \in Seq(Times) /\ Len(q) = n + 1
      /\ \A i \in 1 .. k : q[i] = p[i]
      /\ q[k + 1] = c
      /\ \A i \in k + 2 .. n + 1 : q[i] = p[i - 1]
  <2>1. <<c>> \in Seq(Times) /\ Len(<<c>>) = 1 /\ <<c>>[1] = c
    OBVIOUS
  <2> DEFINE e == a \o <<c>>
  <2>2. /\ e \in Seq(Times) /\ Len(e) = k + 1
        /\ \A i \in 1 .. k : e[i] = p[i]
        /\ e[k + 1] = c
    BY <1>0, <1>1, <1>2, <2>1, ConcatProperties
  <2> HIDE DEF e
  <2>3. /\ e \o b \in Seq(Times) /\ Len(e \o b) = Len(e) + Len(b)
        /\ \A i \in 1 .. Len(e) + Len(b) :
             (e \o b)[i] = IF i <= Len(e) THEN e[i] ELSE b[i - Len(e)]
    BY <1>3, <2>2, ConcatProperties
  <2>4. ASSUME NEW i \in k + 2 .. n + 1
        PROVE  /\ i - (k + 1) \in 1 .. n - k /\ k + (i - (k + 1)) = i - 1
               /\ i \in 1 .. k + 1 + (n - k) /\ ~(i <= k + 1)
    <3> HIDE DEF n
    <3> QED BY <1>k
  <2>5. k + 1 + (n - k) = n + 1 /\ \A i \in 1 .. k + 1 : i \in 1 .. n + 1
    <3> HIDE DEF n
    <3> QED BY <1>k
  <2>6. q = e \o b
    BY DEF e
  <2>7. \A i \in 1 .. n + 1 : (e \o b)[i] = IF i <= k + 1 THEN e[i] ELSE b[i - (k + 1)]
    BY <1>3, <2>2, <2>3, <2>5
  <2>8. \A i \in k + 2 .. n + 1 : (e \o b)[i] = p[i - 1]
    <3> SUFFICES ASSUME NEW i \in k + 2 .. n + 1 PROVE (e \o b)[i] = p[i - 1]
      OBVIOUS
    <3>1. (e \o b)[i] = b[i - (k + 1)]
      BY <2>4, <2>5, <2>7
    <3>2. b[i - (k + 1)] = p[k + (i - (k + 1))]
      BY <2>4, <1>3
    <3> QED BY <3>1, <3>2, <2>4
  <2>9. \A i \in 1 .. k + 1 : i <= k + 1
    BY <1>k
  <2>10. (\A i \in 1 .. k : i \in 1 .. k + 1) /\ k + 1 \in 1 .. k + 1
    BY <1>k
  <2>11. \A i \in 1 .. k + 1 : (e \o b)[i] = e[i]
    BY <2>5, <2>7, <2>9
  <2>12. Len(e \o b) = n + 1
    BY <1>3, <2>2, <2>3, <2>5
  <2> QED BY <2>2, <2>3, <2>6, <2>8, <2>10, <2>11, <2>12
<1> HIDE DEF q
<1>5. Sorted(q)
  <2> SUFFICES ASSUME NEW i \in 1 .. n + 1, NEW j \in 1 .. n + 1, i < j PROVE q[i] <= q[j]
    BY <1>4 DEF Sorted
  <2> DEFINE At(x) == IF x <= k THEN x ELSE x - 1
  <2>1. \A x \in 1 .. n + 1 : x # k + 1 => At(x) \in 1 .. n /\ q[x] = p[At(x)]
    <3> SUFFICES ASSUME NEW x \in 1 .. n + 1, x # k + 1
                 PROVE  At(x) \in 1 .. n /\ q[x] = p[At(x)]
      OBVIOUS
    <3>1. CASE x <= k
      BY <3>1, <1>0, <1>1, <1>4
    <3>2. CASE x > k
      <4>1. x \in k + 2 .. n + 1 /\ x - 1 \in 1 .. n
        BY <3>2, <1>0, <1>1
      <4> QED BY <4>1, <3>2, <1>0, <1>1, <1>4
    <3> QED BY <3>1, <3>2, <1>0, <1>1
  <2>2. CASE i # k + 1 /\ j # k + 1
    <3>1. At(i) < At(j)
      BY <2>2, <1>0, <1>1
    <3> QED BY <2>1, <2>2, <3>1, <1>0 DEF Sorted
  <2>3. CASE i = k + 1
    <3>1. j # k + 1 /\ At(j) > k
      BY <2>3, <1>0, <1>1
    <3>2. At(j) \in 1 .. n /\ q[j] = p[At(j)]
      BY <2>1, <3>1
    <3>3. ~(At(j) <= k)
      BY <3>1, <3>2, <1>k
    <3> HIDE DEF At
    <3>4. ~(p[At(j)] <= c) /\ p[At(j)] \in Nat
      BY <3>2, <3>3, <1>0, <1>1
    <3> QED BY <2>3, <3>2, <3>4, <1>0, <1>4
  <2>4. CASE j = k + 1
    <3>1. i # k + 1 /\ At(i) <= k
      BY <2>4, <1>0, <1>1
    <3> QED BY <2>1, <2>4, <3>1, <1>0, <1>1, <1>4
  <2> QED BY <2>2, <2>3, <2>4
<1>6. ASSUME NEW x \in Times PROVE Has(q, x) <=> Has(p, x) \/ x = c
  <2>1. ASSUME NEW i \in 1 .. n + 1, q[i] = x PROVE Has(p, x) \/ x = c
    <3>1. CASE i <= k
      BY <3>1, <2>1, <1>0, <1>1, <1>4 DEF Has
    <3>2. CASE i = k + 1
      BY <3>2, <2>1, <1>4
    <3>3. CASE i > k + 1
      <4>1. i - 1 \in 1 .. n /\ i \in k + 2 .. n + 1
        BY <3>3, <1>0, <1>1
      <4> QED BY <4>1, <2>1, <1>4 DEF Has
    <3> QED BY <3>1, <3>2, <3>3, <1>0, <1>1
  <2>2. ASSUME NEW i \in 1 .. n, p[i] = x PROVE Has(q, x)
    <3>1. CASE i <= k
      BY <3>1, <2>2, <1>0, <1>1, <1>4 DEF Has
    <3>2. CASE i > k
      <4>1. i + 1 \in k + 2 .. n + 1 /\ i + 1 - 1 = i /\ i + 1 \in 1 .. Len(q)
        BY <3>2, <1>0, <1>1, <1>4
      <4> QED BY <4>1, <2>2, <1>4 DEF Has
    <3> QED BY <3>1, <3>2, <1>0, <1>1
  <2>3. k + 1 \in 1 .. Len(q)
    BY <1>0, <1>1, <1>4
  <2> QED BY <2>1, <2>2, <2>3, <1>4 DEF Has
<1> QED
  BY <1>4, <1>5, <1>6 DEF q, a, b, k

-------------------------------------------------------------------------------
(* Types *)

\* The types of the records, as TypeOK gives them.
SessionType == [running : BOOLEAN, sequence : 0 .. MaxFrames, runs : 1 .. MaxSessions]
NumberingType == [offset : Nat, last : Nat]
FrameType == [open : BOOLEAN, ready : BOOLEAN, id : Ids]
SeatedType == [space : 0 .. MaxSpaces, usable : BOOLEAN]
ChangesType == [active : BOOLEAN, pending : Seq(Times), target : 0 .. MaxTime]
PosesType == [origin : Nat, sequence : Nat, available : BOOLEAN]
GeometryType == [sequence : Nat, valid : BOOLEAN]
EventType == [origin : Nat, id : Ids]
PairType == [valid : BOOLEAN, id : Ids, reference : Nat]
NamedType == [poses : SUBSET Ids, events : SUBSET Ids]

\* TypeOK, a variable at a time; and the bound on the announced changes.
Types ==
  /\ service \in {"centring", "startup", "live", "failed", "closed"}
  /\ session \in SessionType /\ numbering \in NumberingType /\ frame \in FrameType
  /\ seated \in SeatedType /\ changes \in ChangesType /\ poses \in PosesType
  /\ geometry \in GeometryType /\ events \in Seq(EventType) /\ previous \in PairType
  /\ intro \in {"none", "asked", "done"} /\ now \in 0 .. MaxTime
  /\ noted \in Seq(Times) /\ Len(noted) <= MaxChanges /\ named \in NamedType

\* The flags, apart: Zenon has them, SMT the rest.
Flags == {quit, misplaced, refused, blocked} \subseteq BOOLEAN

\* What a pose or an event is relative to.
LEMMA LocatedType ==
  ASSUME Types, NEW s \in 0 .. MaxSpaces, NEW t \in Nat
  PROVE  Located(s, t) \in Ids
<1>1. DOMAIN noted \subseteq 1 .. MaxChanges
  BY PublicationsAssumption DEF Types
<1> QED
  BY <1>1 DEF Located, Ids

\* The values that are no frame, no pair and no history.
LEMMA EmptyTypes ==
  /\ NoId \in Ids /\ NoFrame \in FrameType /\ NoPair \in PairType
  /\ [poses |-> {}, events |-> {}] \in NamedType
BY PublicationsAssumption DEF NoId, Ids, NoFrame, NoPair, FrameType, PairType, NamedType

\* What becomes of the publications.
LEMMA PosesTypes ==
  ASSUME NEW p \in PosesType
  PROVE  /\ [p EXCEPT !.available = FALSE] \in PosesType
         /\ \A n \in Nat : [p EXCEPT !.sequence = n, !.available = TRUE] \in PosesType
         /\ [p EXCEPT !.origin = @ + 1, !.available = FALSE] \in PosesType
<1>1. p.origin + 1 \in Nat
  BY DEF PosesType
<1>2. \A n \in Nat : [p EXCEPT !.origin = n, !.available = FALSE] \in PosesType
  BY DEF PosesType
<1>3. [p EXCEPT !.origin = p.origin + 1, !.available = FALSE] \in PosesType
  BY <1>1, <1>2
<1>4. [p EXCEPT !.origin = @ + 1, !.available = FALSE]
        = [p EXCEPT !.origin = p.origin + 1, !.available = FALSE]
  OBVIOUS
<1>5. [p EXCEPT !.available = FALSE] \in PosesType
  BY DEF PosesType
<1>6. \A n \in Nat : [p EXCEPT !.sequence = n, !.available = TRUE] \in PosesType
  BY DEF PosesType
<1> QED
  BY <1>3, <1>4, <1>5, <1>6

\* The same, for the operators of the module.
LEMMA PublicationTypes ==
  ASSUME Types
  PROVE  /\ ClearedPoses \in PosesType /\ ResetOrigin \in PosesType
         /\ \A t : AdvanceOrigin(t) \in PosesType
         /\ NoGeometry \in GeometryType
         /\ \A p \in PosesType : NamedUnder(p) \in NamedType
<1>1. ClearedPoses \in PosesType /\ ResetOrigin \in PosesType
  BY PosesTypes DEF ClearedPoses, ResetOrigin, Types
<1>2. NoGeometry \in GeometryType
  BY DEF NoGeometry, GeometryType, Types
<1> QED
  BY <1>1, <1>2, EmptyTypes DEF Types, AdvanceOrigin, NamedUnder

\* What becomes of the queue of changes.
LEMMA ChangesTypes ==
  ASSUME Types, PendingSorted
  PROVE  /\ Retired \in ChangesType
         /\ \A t \in Times : Advanced(t) \in ChangesType
         /\ \A c \in Times : Note(c) \in ChangesType
<1>0. changes.pending \in Seq(Times) /\ Sorted(changes.pending)
  <2>1. changes.pending \in Seq(Times)
    BY DEF Types, ChangesType
  <2>2. DOMAIN changes.pending = 1 .. Len(changes.pending)
    BY <2>1
  <2> QED BY <2>1, <2>2 DEF PendingSorted, Sorted
<1>1. Retired \in ChangesType
  BY PublicationsAssumption DEF Retired, ChangesType
<1>2. ASSUME NEW t \in Times PROVE Advanced(t) \in ChangesType
  <2>1. Advanced(t).pending \in Seq(Times)
    BY <1>0, AdvancedFacts
  <2>2. t \in 0 .. MaxTime
    BY PublicationsAssumption DEF Times
  <2> QED BY <2>1, <2>2 DEF Advanced, ChangesType
<1>3. ASSUME NEW c \in Times PROVE Note(c) \in ChangesType
  <2> DEFINE q == SubSeq(changes.pending, 1, Place(c)) \o <<c>>
                    \o SubSeq(changes.pending, Place(c) + 1, Len(changes.pending))
  <2>1. q \in Seq(Times)
    BY <1>0, NoteFacts
  <2>2. Note(c) = Retired \/ Note(c) = [changes EXCEPT !.pending = q]
    BY DEF Note
  <2> HIDE DEF q
  <2>3. [changes EXCEPT !.pending = q] \in ChangesType
    BY <2>1 DEF Types, ChangesType
  <2> QED BY <1>1, <2>2, <2>3
<1> QED
  BY <1>1, <1>2, <1>3

\* The flags stay Boolean.
LEMMA FlagsStep == Flags /\ [Next]_vars => Flags'
<1> SUFFICES ASSUME Flags, [Next]_vars PROVE Flags'
  OBVIOUS
<1> USE DEF Flags, ghosts, hostVars, pubVars, Fatal, Retire
<1>1. ASSUME NEW t \in Times, NEW period \in 1 .. 2, NEW gameLocated \in BOOLEAN,
             NEW valid \in BOOLEAN, NEW drop \in BOOLEAN, WaitPublishes(t, period, gameLocated,
             valid, drop)
      PROVE  Flags'
  BY <1>1, Zenon DEF WaitPublishes
<1>2. ASSUME NEW t \in Times, NEW hard \in BOOLEAN, NEW drop \in BOOLEAN, WaitFails(t, hard,
             drop)
      PROVE  Flags'
  BY <1>2, Zenon DEF WaitFails
<1>3. ASSUME NEW withheld \in BOOLEAN, NEW shouldRender \in BOOLEAN, NEW keep \in {"off",
             "kept", "lost"}, SubmitPair(withheld, shouldRender, keep)
      PROVE  Flags'
  BY <1>3, Zenon DEF SubmitPair
<1>4. ASSUME NEW t \in Times, NEW layered \in BOOLEAN, LoadingFrame(t, layered) PROVE Flags'
  BY <1>4, Zenon DEF LoadingFrame
<1>5. ASSUME LoadingFails PROVE Flags'
  BY <1>5, Zenon DEF LoadingFails
<1>6. ASSUME NEW c \in Times, PumpNotes(c) PROVE Flags'
  BY <1>6, Zenon DEF PumpNotes
<1>7. ASSUME PumpFails PROVE Flags'
  BY <1>7, Zenon DEF PumpFails
<1>8. ASSUME PumpStops PROVE Flags'
  BY <1>8, Zenon DEF PumpStops
<1>9. ASSUME PumpRestarts PROVE Flags'
  BY <1>9, Zenon DEF PumpRestarts
<1>10. ASSUME NEW r \in Times, NEW outcome \in Outcomes, ResetSeated(r, outcome) PROVE Flags'
  BY <1>10, Zenon DEF ResetSeated
<1>11. ASSUME NEW r \in Times, NEW outcome \in Outcomes, IntroRecentre(r, outcome) PROVE Flags'
  BY <1>11, Zenon DEF IntroRecentre
<1>12. ASSUME NEW r \in Times, NEW outcome \in Outcomes, StartupCentre(r, outcome) PROVE Flags'
  BY <1>12, Zenon DEF StartupCentre
<1>13. ASSUME ResetUnlocated PROVE Flags'
  BY <1>13, Zenon DEF ResetUnlocated
<1>14. ASSUME AskIntro PROVE Flags'
  BY <1>14, Zenon DEF AskIntro
<1>15. ASSUME IntroBlocked PROVE Flags'
  BY <1>15, Zenon DEF IntroBlocked
<1>16. ASSUME StartupExpire PROVE Flags'
  BY <1>16, Zenon DEF StartupExpire
<1>17. ASSUME StartupDone PROVE Flags'
  BY <1>17, Zenon DEF StartupDone
<1>18. ASSUME PollEvent PROVE Flags'
  BY <1>18, Zenon DEF PollEvent
<1>19. ASSUME Stop PROVE Flags'
  BY <1>19, Zenon DEF Stop
<1>20. CASE UNCHANGED vars
  BY <1>20, Zenon DEF vars
<1> QED
  BY <1>1, <1>2, <1>3, <1>4, <1>5, <1>6, <1>7, <1>8, <1>9, <1>10, <1>11, <1>12, <1>13, <1>14,
      <1>15, <1>16, <1>17, <1>18, <1>19, <1>20 DEF Next, Pump

\* boundary.waitAndBegin() keeps the numbers natural.
LEMMA BeginTypes ==
  ASSUME Types, BeginFrame
  PROVE  session' \in SessionType /\ numbering' \in NumberingType
<1>1. session.sequence + 1 \in 0 .. MaxFrames /\ NextSequence \in Nat
  BY PublicationsAssumption DEF Types, BeginFrame, SessionType, NumberingType, NextSequence
<1>2. \A n \in 0 .. MaxFrames : [session EXCEPT !.sequence = n] \in SessionType
  BY DEF Types, SessionType
<1>3. session' = [session EXCEPT !.sequence = session.sequence + 1]
  BY DEF BeginFrame
<1>4. \A n \in Nat : [numbering EXCEPT !.last = n] \in NumberingType
  BY DEF Types, NumberingType
<1>5. numbering' = [numbering EXCEPT !.last = NextSequence] \/ numbering' = numbering
  BY DEF BeginFrame, Types, NumberingType
<1> QED
  BY <1>1, <1>2, <1>3, <1>4, <1>5 DEF Types

\* invalidateOrigin() keeps the types.
LEMMA InvalidateTypes ==
  ASSUME Types, InvalidateOrigin
  PROVE  /\ poses' \in PosesType /\ named' \in NamedType
         /\ geometry' \in GeometryType /\ previous' \in PairType
BY EmptyTypes, PublicationTypes DEF InvalidateOrigin

\* applySeatedReset() keeps the types.
LEMMA ReplaceTypes ==
  ASSUME Types, NEW r \in Times, NEW notify \in BOOLEAN, NEW outcome \in Outcomes,
         ReplaceOrigin(r, notify, outcome)
  PROVE  /\ now' \in 0 .. MaxTime /\ seated' \in SeatedType /\ poses' \in PosesType
         /\ named' \in NamedType /\ geometry' \in GeometryType
         /\ previous' \in PairType /\ events' \in Seq(EventType)
<1>0. r \in 0 .. MaxTime /\ r \in Nat
  BY PublicationsAssumption DEF Times
<1>1. /\ seated.space + 1 \in 0 .. MaxSpaces /\ seated.space \in 0 .. MaxSpaces
      /\ seated.space + 0 = seated.space
  BY PublicationsAssumption DEF Types, SeatedType, ReplaceOrigin
<1>2. seated' \in SeatedType
  <2> DEFINE u == outcome \in {"unlocated", "applied"}
             s == seated.space + (IF outcome = "create" THEN 0 ELSE 1)
  <2>1. u \in BOOLEAN
    OBVIOUS
  <2>2. s \in 0 .. MaxSpaces
    BY <1>1
  <2>3. seated' = [space |-> s, usable |-> u]
    BY Zenon DEF ReplaceOrigin
  <2> HIDE DEF u, s
  <2> QED BY <2>1, <2>2, <2>3 DEF SeatedType
<1>3. /\ poses' \in PosesType /\ named' \in NamedType
      /\ geometry' \in GeometryType /\ previous' \in PairType
  <2>1. CASE outcome \in {"create", "destroy"}
    BY <2>1, PublicationTypes DEF ReplaceOrigin, Types
  <2>2. CASE outcome \notin {"create", "destroy"}
    BY <2>2, InvalidateTypes DEF ReplaceOrigin
  <2> QED BY <2>1, <2>2
<1>4. events' \in Seq(EventType)
  <2> DEFINE e == [origin |-> poses'.origin, id |-> Located(seated.space + 1, r)]
  <2>1. Located(seated.space + 1, r) \in Ids /\ poses'.origin \in Nat
    BY <1>0, <1>1, <1>3, LocatedType DEF PosesType
  <2>2. e \in EventType
    BY <2>1 DEF EventType
  <2>3. events' = Append(events, e) \/ events' = events
    BY DEF ReplaceOrigin
  <2> HIDE DEF e
  <2> QED BY <2>2, <2>3, AppendProperties DEF Types
<1> QED
  BY <1>0, <1>2, <1>3, <1>4 DEF ReplaceOrigin

\* stop() leaves everything well typed.
LEMMA RetireTypes ==
  ASSUME Types, Retire, noted' \in Seq(Times), Len(noted') <= MaxChanges
  PROVE  Types'
<1>1. session' \in SessionType
  BY PublicationsAssumption DEF Types, Retire, SessionType
<1>2. numbering' \in NumberingType /\ geometry' \in GeometryType /\ poses' \in PosesType
  BY DEF Retire, NumberingType, GeometryType, PosesType
<1>3. seated' \in SeatedType
  BY DEF Types, Retire, SeatedType
<1>4. changes' \in ChangesType
  BY PublicationsAssumption DEF Retire, Retired, ChangesType
<1>5. events' \in Seq(EventType)
  BY DEF Retire
<1> QED
  BY <1>1, <1>2, <1>3, <1>4, <1>5, EmptyTypes DEF Types, Retire

\* Every step keeps the types.
LEMMA TypesStep == Types /\ PendingSorted /\ [Next]_vars => Types'
<1> SUFFICES ASSUME Types, PendingSorted, [Next]_vars PROVE Types'
  OBVIOUS
<1> USE DEF ghosts, hostVars, pubVars
<1>1. ASSUME NEW t \in Times, NEW period \in 1 .. 2, NEW gameLocated \in BOOLEAN,
             NEW valid \in BOOLEAN, NEW drop \in BOOLEAN,
             WaitPublishes(t, period, gameLocated, valid, drop)
      PROVE Types'
  <2> DEFINE id == Located(seated.space, t)
             late == Located(seated.space, t + period)
             base == AdvanceOrigin(t)
             accepted == NextSequence > poses.sequence
             game == gameLocated /\ ~Crosses(t, t + period)
             located == {id} \cup (IF game THEN {late} ELSE {})
  <2>0. t \in Nat /\ t + period \in Nat /\ seated.space \in 0 .. MaxSpaces
    BY PublicationsAssumption DEF Times, Types, SeatedType
  <2>1. id \in Ids /\ late \in Ids
    BY <2>0, LocatedType
  <2>2. session' \in SessionType /\ numbering' \in NumberingType
    BY <1>1, BeginTypes DEF WaitPublishes
  <2>3. NextSequence \in Nat
    BY DEF Types, SessionType, NumberingType, NextSequence
  <2>4. base \in PosesType
    BY PublicationTypes
  <2>5. poses' \in PosesType
    BY <1>1, <2>3, <2>4, PosesTypes DEF WaitPublishes
  <2>6. geometry' \in GeometryType
    <3>1. GeometryPublished(valid) \in GeometryType
      BY <2>3 DEF GeometryPublished, GeometryType, Types
    <3> QED BY <1>1, <3>1, PublicationTypes DEF WaitPublishes
  <2>7. frame' \in FrameType
    <3>1. frame' = NoFrame \/ frame' = [open |-> TRUE, ready |-> geometry'.valid, id |-> id]
      BY <1>1 DEF WaitPublishes
    <3> HIDE DEF id
    <3>2. geometry'.valid \in BOOLEAN
      BY <2>6 DEF GeometryType
    <3>3. \A v \in BOOLEAN : [open |-> TRUE, ready |-> v, id |-> id] \in FrameType
      BY <2>1 DEF FrameType
    <3>4. [open |-> TRUE, ready |-> geometry'.valid, id |-> id] \in FrameType
      BY <3>2, <3>3, Zenon
    <3> QED BY <3>1, <3>4, EmptyTypes
  <2>8. previous' \in PairType
    BY <1>1, EmptyTypes DEF WaitPublishes, Types
  <2>9. named' \in NamedType
    <3> DEFINE nu == NamedUnder(base)
    <3>1. nu \in NamedType
      BY <2>4, PublicationTypes
    <3>2. located \subseteq Ids
      BY <2>1
    <3>3. named' = [nu EXCEPT !.poses = IF accepted THEN nu.poses \cup located ELSE nu.poses]
      BY <1>1 DEF WaitPublishes
    <3> HIDE DEF nu, located, accepted
    <3> QED BY <3>1, <3>2, <3>3 DEF NamedType
  <2>10. changes' \in ChangesType
    BY <1>1, ChangesTypes DEF WaitPublishes
  <2> QED BY <1>1, <2>2, <2>5, <2>6, <2>7, <2>8, <2>9, <2>10 DEF WaitPublishes, Types
<1>2. ASSUME NEW t \in Times, NEW hard \in BOOLEAN, NEW drop \in BOOLEAN,
             WaitFails(t, hard, drop)
      PROVE Types'
  <2>2. session' \in SessionType /\ numbering' \in NumberingType
    BY <1>2, BeginTypes DEF WaitFails
  <2>3. poses' \in PosesType
    <3> DEFINE b == IF MayAdvance(t) THEN AdvanceOrigin(t) ELSE poses
    <3>1. b \in PosesType
      BY PublicationTypes DEF Types
    <3>2. poses' = [b EXCEPT !.available = FALSE]
      BY <1>2 DEF WaitFails
    <3> HIDE DEF b
    <3> QED BY <3>1, <3>2, PosesTypes
  <2>4. named' \in NamedType
    BY <1>2, <2>3, PublicationTypes DEF WaitFails
  <2>5. frame' \in FrameType
    <3> DEFINE o == hard /\ MayAdvance(t)
    <3>1. o \in BOOLEAN /\ frame' = [NoFrame EXCEPT !.open = o]
      BY <1>2, Zenon DEF WaitFails
    <3> HIDE DEF o
    <3> QED BY <3>1, EmptyTypes DEF FrameType
  <2>6. changes' \in ChangesType
    BY <1>2, ChangesTypes DEF WaitFails
  <2>7. geometry' \in GeometryType
    BY <1>2, PublicationTypes DEF WaitFails
  <2>8. previous' \in PairType
    BY <1>2, EmptyTypes DEF WaitFails, Types
  <2> QED BY <1>2, <2>2, <2>3, <2>4, <2>5, <2>6, <2>7, <2>8 DEF WaitFails, Types
<1>3. ASSUME NEW withheld \in BOOLEAN, NEW shouldRender \in BOOLEAN,
             NEW keep \in {"off", "kept", "lost"}, SubmitPair(withheld, shouldRender, keep)
      PROVE Types'
  <2>1. frame.id \in Ids /\ poses.origin \in Nat
    BY DEF Types, FrameType, PosesType
  <2>2. [valid |-> TRUE, id |-> frame.id, reference |-> poses.origin] \in PairType
    BY <2>1 DEF PairType
  <2>3. \/ previous' \in {previous, NoPair}
        \/ previous' = [valid |-> TRUE, id |-> frame.id, reference |-> poses.origin]
    BY <1>3 DEF SubmitPair
  <2>4. previous' \in PairType
    BY <2>2, <2>3, EmptyTypes DEF Types
  <2> QED BY <1>3, <2>4, EmptyTypes DEF SubmitPair, Types
<1>4. ASSUME NEW t \in Times, NEW layered \in BOOLEAN, LoadingFrame(t, layered) PROVE Types'
  <2>1. session' \in SessionType /\ numbering' \in NumberingType
    BY <1>4, BeginTypes DEF LoadingFrame
  <2>2. changes' \in ChangesType
    BY <1>4, ChangesTypes DEF LoadingFrame, Types
  <2>3. /\ poses' \in PosesType /\ named' \in NamedType
        /\ geometry' \in GeometryType /\ previous' \in PairType
    BY <1>4, InvalidateTypes DEF LoadingFrame, Types
  <2> QED BY <1>4, <2>1, <2>2, <2>3 DEF LoadingFrame, Types
<1>5. ASSUME LoadingFails PROVE Types'
  BY <1>5, EmptyTypes, PublicationTypes DEF LoadingFails, Fatal, Types
<1>6. ASSUME NEW c \in Times, PumpNotes(c) PROVE Types'
  <2>1. noted' \in Seq(Times) /\ Len(noted') <= MaxChanges
    <3>1. /\ noted' = Append(noted, c) /\ Len(noted) < MaxChanges
          /\ noted \in Seq(Times) /\ Len(noted) \in Nat
      BY <1>6 DEF PumpNotes, Types
    <3>2. noted' \in Seq(Times) /\ Len(noted') = Len(noted) + 1
      BY <3>1, AppendProperties
    <3> QED BY <3>1, <3>2, PublicationsAssumption
  <2>2. CASE Note(c).active
    <3>1. changes' \in ChangesType
      BY <1>6, <2>2, ChangesTypes DEF PumpNotes
    <3> QED BY <1>6, <2>1, <2>2, <3>1 DEF PumpNotes, Types
  <2>3. CASE ~Note(c).active /\ Starting
    BY <1>6, <2>1, <2>3, RetireTypes DEF PumpNotes
  <2>4. CASE ~Note(c).active /\ ~Starting
    BY <1>6, <2>1, <2>4, EmptyTypes, PublicationTypes, ChangesTypes
       DEF PumpNotes, Fatal, Types
  <2> QED BY <2>2, <2>3, <2>4
<1>7. ASSUME PumpFails PROVE Types'
  BY <1>7, EmptyTypes, PublicationTypes DEF PumpFails, Fatal, Types
<1>8. ASSUME PumpStops PROVE Types'
  <2>1. session' \in SessionType
    BY <1>8 DEF PumpStops, Types, SessionType
  <2> QED BY <1>8, <2>1, EmptyTypes, PublicationTypes DEF PumpStops, Types
<1>9. ASSUME PumpRestarts PROVE Types'
  <2>1. session' \in SessionType
    BY <1>9, PublicationsAssumption DEF PumpRestarts, Types, SessionType
  <2>2. numbering' \in NumberingType
    BY <1>9 DEF PumpRestarts, RestartNumbering, Types, NumberingType
  <2>3. /\ poses' \in PosesType /\ named' \in NamedType
        /\ geometry' \in GeometryType /\ previous' \in PairType
    BY <1>9, InvalidateTypes DEF PumpRestarts
  <2> QED BY <1>9, <2>1, <2>2, <2>3 DEF PumpRestarts, Types
<1>10. ASSUME NEW r \in Times, NEW outcome \in Outcomes, ResetSeated(r, outcome) PROVE Types'
  <2>1. ReplaceOrigin(r, TRUE, outcome)
    BY <1>10 DEF ResetSeated
  <2>2. /\ now' \in 0 .. MaxTime /\ seated' \in SeatedType /\ poses' \in PosesType
        /\ named' \in NamedType /\ geometry' \in GeometryType
        /\ previous' \in PairType /\ events' \in Seq(EventType)
    BY <2>1, ReplaceTypes
  <2> QED BY <1>10, <2>2, EmptyTypes DEF ResetSeated, FrameAfterReset, Types
<1>11. ASSUME NEW r \in Times, NEW outcome \in Outcomes, IntroRecentre(r, outcome) PROVE Types'
  <2>1. ReplaceOrigin(r, TRUE, outcome)
    BY <1>11 DEF IntroRecentre
  <2>2. /\ now' \in 0 .. MaxTime /\ seated' \in SeatedType /\ poses' \in PosesType
        /\ named' \in NamedType /\ geometry' \in GeometryType
        /\ previous' \in PairType /\ events' \in Seq(EventType)
    BY <2>1, ReplaceTypes
  <2> QED BY <1>11, <2>2 DEF IntroRecentre, Types
<1>12. ASSUME NEW r \in Times, NEW outcome \in Outcomes, StartupCentre(r, outcome) PROVE Types'
  <2>1. ReplaceOrigin(r, FALSE, outcome)
    BY <1>12 DEF StartupCentre
  <2>2. /\ now' \in 0 .. MaxTime /\ seated' \in SeatedType /\ poses' \in PosesType
        /\ named' \in NamedType /\ geometry' \in GeometryType
        /\ previous' \in PairType /\ events' \in Seq(EventType)
    BY <2>1, ReplaceTypes
  <2> QED BY <1>12, <2>2 DEF StartupCentre, Types
<1>13. ASSUME ResetUnlocated PROVE Types'
  BY <1>13, EmptyTypes DEF ResetUnlocated, Types
<1>14. ASSUME AskIntro PROVE Types'
  BY <1>14 DEF AskIntro, Types
<1>15. ASSUME IntroBlocked PROVE Types'
  BY <1>15 DEF IntroBlocked, Types
<1>16. ASSUME StartupExpire PROVE Types'
  BY <1>16 DEF StartupExpire, Types
<1>17. ASSUME StartupDone PROVE Types'
  BY <1>17 DEF StartupDone, Types
<1>18. ASSUME PollEvent PROVE Types'
  <2>1. CASE UNCHANGED <<events, named>>
    BY <1>18, <2>1 DEF PollEvent, Types
  <2>2. CASE events # <<>> /\ events' = Tail(events)
             /\ named' = IF EventPose(Head(events))
                         THEN [named EXCEPT !.events = @ \cup {Head(events).id}]
                         ELSE named
    <3>1. events' \in Seq(EventType) /\ Head(events) \in EventType
      BY <2>2, HeadTailProperties DEF Types
    <3>2. Head(events).id \in Ids
      BY <3>1 DEF EventType
    <3>3. \A e \in Ids : [named EXCEPT !.events = named.events \cup {e}] \in NamedType
      BY DEF Types, NamedType
    <3>4. named' \in {named, [named EXCEPT !.events = named.events \cup {Head(events).id}]}
      BY <2>2
    <3>5. named' \in NamedType
      BY <3>2, <3>3, <3>4 DEF Types
    <3> QED BY <1>18, <3>1, <3>5 DEF PollEvent, Types
  <2> QED BY <1>18, <2>1, <2>2 DEF PollEvent
<1>19. ASSUME Stop PROVE Types'
  BY <1>19, RetireTypes DEF Stop, Types
<1>20. CASE UNCHANGED vars
  BY <1>20 DEF vars, Types
<1> QED
  BY <1>1, <1>2, <1>3, <1>4, <1>5, <1>6, <1>7, <1>8, <1>9, <1>10, <1>11, <1>12, <1>13,
     <1>14, <1>15, <1>16, <1>17, <1>18, <1>19, <1>20 DEF Next, Pump

-------------------------------------------------------------------------------
(* Numbers, open frames and the order of the queues *)

\* What the publications keep of their numbers.
LEMMA Fields ==
  ASSUME Types
  PROVE  /\ ClearedPoses.origin = poses.origin /\ ClearedPoses.sequence = poses.sequence
         /\ ResetOrigin.origin = poses.origin + 1 /\ ResetOrigin.sequence = poses.sequence
         /\ NoGeometry.sequence = geometry.sequence
         /\ NamedUnder(ResetOrigin) = [poses |-> {}, events |-> {}]
         /\ NamedUnder(poses) = named /\ NamedUnder(ClearedPoses) = named
<1>1. /\ poses.origin \in Nat
      /\ ClearedPoses.origin = poses.origin /\ ClearedPoses.sequence = poses.sequence
      /\ ResetOrigin.origin = poses.origin + 1 /\ ResetOrigin.sequence = poses.sequence
      /\ NoGeometry.sequence = geometry.sequence
  BY DEF Types, PosesType, GeometryType, ClearedPoses, ResetOrigin, NoGeometry
<1>2. poses.origin + 1 # poses.origin
  BY <1>1
<1> QED
  BY <1>1, <1>2 DEF NamedUnder

\* The next frame's number is the successor of the last one.
LEMMA BeginNumbers ==
  ASSUME Types, Numbers, BeginFrame
  PROVE  /\ NextSequence \in Nat /\ NextSequence = numbering.last + 1
         /\ numbering'.last = NextSequence
         /\ numbering'.last = numbering'.offset + session'.sequence
<1>1. /\ numbering.last \in Nat /\ numbering.offset \in Nat /\ session.sequence \in Nat
      /\ numbering.last = numbering.offset + session.sequence
  BY PublicationsAssumption DEF Types, Numbers, SessionType, NumberingType
<1>2. NextSequence = numbering.last + 1
  BY <1>1 DEF NextSequence
<1>3. numbering' = [numbering EXCEPT !.last = NextSequence]
  BY <1>1, <1>2 DEF BeginFrame, Types, NumberingType
<1>4. session'.sequence = session.sequence + 1
  BY DEF BeginFrame, Types, SessionType
<1>5. numbering'.last = NextSequence /\ numbering'.offset = numbering.offset
  BY <1>3 DEF Types, NumberingType
<1> QED
  BY <1>1, <1>2, <1>4, <1>5

\* Replacing the origin keeps the numbers.
LEMMA ReplaceFields ==
  ASSUME Types, NEW r \in Times, NEW notify \in BOOLEAN, NEW outcome \in Outcomes,
         ReplaceOrigin(r, notify, outcome)
  PROVE  /\ poses'.sequence = poses.sequence /\ geometry'.sequence = geometry.sequence
         /\ IF outcome \in {"create", "destroy"}
            THEN /\ poses'.origin = poses.origin /\ named' = named /\ previous' = previous
                 /\ events' = events
            ELSE /\ poses'.origin = poses.origin + 1
                 /\ named' = [poses |-> {}, events |-> {}] /\ previous' = NoPair
BY Fields DEF ReplaceOrigin, InvalidateOrigin

\* The publications stay at or below the last number of a frame.
LEMMA NumbersStep == Types /\ Numbers /\ [Next]_vars => Numbers'
<1> SUFFICES ASSUME Types, Numbers, [Next]_vars PROVE Numbers'
  OBVIOUS
<1> USE DEF ghosts, hostVars, pubVars
<1>0. /\ numbering.last \in Nat /\ numbering.offset \in Nat /\ session.sequence \in Nat
      /\ poses.sequence \in Nat /\ geometry.sequence \in Nat
      /\ numbering.last = numbering.offset + session.sequence
      /\ poses.sequence <= numbering.last /\ geometry.sequence <= numbering.last
  BY PublicationsAssumption
     DEF Types, Numbers, SessionType, NumberingType, PosesType, GeometryType
<1>f. ASSUME Fatal, UNCHANGED <<session, numbering>> PROVE Numbers'
  BY <1>f, <1>0, Fields DEF Fatal, Numbers
<1>r. ASSUME Retire PROVE Numbers'
  BY <1>r DEF Retire, Numbers
<1>s. ASSUME NEW r \in Times, NEW notify \in BOOLEAN, NEW outcome \in Outcomes,
             ReplaceOrigin(r, notify, outcome), UNCHANGED <<session, numbering>>
      PROVE  Numbers'
  BY <1>s, <1>0, ReplaceFields DEF Numbers
<1>u. ASSUME UNCHANGED <<session, numbering, poses, geometry>> PROVE Numbers'
  BY <1>u, <1>0 DEF Numbers
<1>1. ASSUME NEW t \in Times, NEW period \in 1 .. 2, NEW gameLocated \in BOOLEAN,
             NEW valid \in BOOLEAN, NEW drop \in BOOLEAN,
             WaitPublishes(t, period, gameLocated, valid, drop)
      PROVE Numbers'
  <2> DEFINE base == AdvanceOrigin(t)
  <2>1. /\ NextSequence \in Nat /\ NextSequence = numbering.last + 1
        /\ numbering'.last = NextSequence
        /\ numbering'.last = numbering'.offset + session'.sequence
    BY <1>1, BeginNumbers DEF WaitPublishes
  <2>2. base \in PosesType /\ base.sequence = poses.sequence
    BY Fields, PublicationTypes DEF AdvanceOrigin
  <2>3. poses'.sequence \in {NextSequence, poses.sequence}
    <3>1. \/ poses' = [base EXCEPT !.sequence = NextSequence, !.available = TRUE]
          \/ poses' = [base EXCEPT !.available = FALSE]
      BY <1>1 DEF WaitPublishes
    <3> HIDE DEF base
    <3> QED BY <2>2, <3>1 DEF PosesType
  <2>4. geometry'.sequence \in {NextSequence, geometry.sequence}
    BY <1>1, Fields DEF WaitPublishes, GeometryPublished
  <2> QED BY <2>1, <2>3, <2>4, <1>0 DEF Numbers
<1>2. ASSUME NEW t \in Times, NEW hard \in BOOLEAN, NEW drop \in BOOLEAN,
             WaitFails(t, hard, drop)
      PROVE Numbers'
  <2> DEFINE base == IF MayAdvance(t) THEN AdvanceOrigin(t) ELSE poses
  <2>1. /\ NextSequence \in Nat /\ NextSequence = numbering.last + 1
        /\ numbering'.last = NextSequence
        /\ numbering'.last = numbering'.offset + session'.sequence
    BY <1>2, BeginNumbers DEF WaitFails
  <2>2. base \in PosesType /\ base.sequence = poses.sequence
    BY Fields, PublicationTypes DEF AdvanceOrigin, Types
  <2>3. poses'.sequence = poses.sequence
    <3>1. poses' = [base EXCEPT !.available = FALSE]
      BY <1>2 DEF WaitFails
    <3> HIDE DEF base
    <3> QED BY <2>2, <3>1 DEF PosesType
  <2>4. geometry'.sequence = geometry.sequence
    BY <1>2, Fields DEF WaitFails
  <2> QED BY <2>1, <2>3, <2>4, <1>0 DEF Numbers
<1>3. ASSUME NEW t \in Times, NEW layered \in BOOLEAN, LoadingFrame(t, layered) PROVE Numbers'
  <2>1. /\ NextSequence \in Nat /\ NextSequence = numbering.last + 1
        /\ numbering'.last = NextSequence
        /\ numbering'.last = numbering'.offset + session'.sequence
    BY <1>3, BeginNumbers DEF LoadingFrame
  <2>2. poses'.sequence = poses.sequence /\ geometry'.sequence = geometry.sequence
    BY <1>3, Fields DEF LoadingFrame, InvalidateOrigin
  <2> QED BY <2>1, <2>2, <1>0 DEF Numbers
<1>4. ASSUME PumpRestarts PROVE Numbers'
  <2>1. poses'.sequence = poses.sequence /\ geometry'.sequence = geometry.sequence
    BY <1>4, Fields DEF PumpRestarts, InvalidateOrigin
  <2>2. numbering'.offset = numbering.last /\ numbering'.last = numbering.last
    BY <1>4 DEF PumpRestarts, RestartNumbering, Types, NumberingType
  <2>3. session'.sequence = 0
    BY <1>4 DEF PumpRestarts
  <2> QED BY <2>1, <2>2, <2>3, <1>0 DEF Numbers
<1>5. ASSUME PumpStops PROVE Numbers'
  <2>1. session'.sequence = session.sequence
    BY <1>5 DEF PumpStops, Types, SessionType
  <2> QED BY <1>5, <2>1, <1>0, Fields DEF PumpStops, Numbers
<1>6. ASSUME NEW c \in Times, PumpNotes(c) PROVE Numbers'
  BY <1>6, <1>f, <1>r, <1>u DEF PumpNotes
<1>7. ASSUME LoadingFails \/ PumpFails PROVE Numbers'
  BY <1>7, <1>f DEF LoadingFails, PumpFails
<1>8. ASSUME NEW r \in Times, NEW outcome \in Outcomes,
             ResetSeated(r, outcome) \/ IntroRecentre(r, outcome) \/ StartupCentre(r, outcome)
      PROVE Numbers'
  BY <1>8, <1>s DEF ResetSeated, IntroRecentre, StartupCentre
<1>9. ASSUME NEW withheld \in BOOLEAN, NEW shouldRender \in BOOLEAN,
             NEW keep \in {"off", "kept", "lost"}, SubmitPair(withheld, shouldRender, keep)
      PROVE Numbers'
  BY <1>9, <1>u DEF SubmitPair
<1>10. ASSUME ResetUnlocated \/ AskIntro \/ IntroBlocked \/ StartupExpire \/ StartupDone
              \/ PollEvent \/ UNCHANGED vars
       PROVE Numbers'
  BY <1>10, <1>u DEF ResetUnlocated, AskIntro, IntroBlocked, StartupExpire, StartupDone,
                     PollEvent, vars
<1>11. ASSUME Stop PROVE Numbers'
  BY <1>11, <1>r DEF Stop
<1> QED
  BY <1>1, <1>2, <1>3, <1>4, <1>5, <1>6, <1>7, <1>8, <1>9, <1>10, <1>11 DEF Next, Pump

\* A frame is open only inside a running session of a service that started.
LEMMA OpenFrameStep == Types /\ OpenFrame /\ [Next]_vars => OpenFrame'
<1> SUFFICES ASSUME Types, OpenFrame, [Next]_vars PROVE OpenFrame'
  OBVIOUS
<1> USE DEF ghosts, hostVars, pubVars, OpenFrame, NoFrame
<1>b. ASSUME BeginFrame PROVE session'.running = session.running
  BY <1>b DEF BeginFrame, Types, SessionType
<1>1. ASSUME NEW t \in Times, NEW period \in 1 .. 2, NEW gameLocated \in BOOLEAN,
             NEW valid \in BOOLEAN, NEW drop \in BOOLEAN,
             WaitPublishes(t, period, gameLocated, valid, drop)
      PROVE OpenFrame'
  BY <1>1, <1>b DEF WaitPublishes, WaitAdmitted, Starting
<1>2. ASSUME NEW t \in Times, NEW hard \in BOOLEAN, NEW drop \in BOOLEAN,
             WaitFails(t, hard, drop)
      PROVE OpenFrame'
  BY <1>2, <1>b DEF WaitFails, WaitAdmitted
<1>3. ASSUME NEW t \in Times, NEW layered \in BOOLEAN, LoadingFrame(t, layered) PROVE OpenFrame'
  BY <1>3, <1>b DEF LoadingFrame
<1>4. ASSUME PumpRestarts \/ PumpStops PROVE OpenFrame'
  BY <1>4 DEF PumpRestarts, PumpStops
<1>6. ASSUME NEW c \in Times, PumpNotes(c) PROVE OpenFrame'
  BY <1>6 DEF PumpNotes, Retire, Fatal, Starting
<1>7. ASSUME LoadingFails \/ PumpFails PROVE OpenFrame'
  BY <1>7 DEF LoadingFails, PumpFails, Fatal
<1>8. ASSUME NEW r \in Times, NEW outcome \in Outcomes,
             ResetSeated(r, outcome) \/ IntroRecentre(r, outcome) \/ StartupCentre(r, outcome)
      PROVE OpenFrame'
  BY <1>8 DEF ResetSeated, FrameAfterReset, IntroRecentre, StartupCentre
<1>9. ASSUME NEW withheld \in BOOLEAN, NEW shouldRender \in BOOLEAN,
             NEW keep \in {"off", "kept", "lost"}, SubmitPair(withheld, shouldRender, keep)
      PROVE OpenFrame'
  BY <1>9 DEF SubmitPair
<1>10. ASSUME ResetUnlocated \/ AskIntro \/ IntroBlocked \/ StartupExpire \/ StartupDone
              \/ PollEvent \/ UNCHANGED vars
       PROVE OpenFrame'
  BY <1>10 DEF ResetUnlocated, AskIntro, IntroBlocked, StartupExpire, StartupDone,
               PollEvent, vars
<1>11. ASSUME Stop PROVE OpenFrame'
  BY <1>11 DEF Stop, Retire
<1> QED
  BY <1>1, <1>2, <1>3, <1>4, <1>6, <1>7, <1>8, <1>9, <1>10, <1>11 DEF Next, Pump

\* PendingSorted is about a sequence of times.
LEMMA PendingFacts ==
  ASSUME Types
  PROVE  /\ changes.pending \in Seq(Times)
         /\ PendingSorted <=> Len(changes.pending) <= ChangeCapacity /\ Sorted(changes.pending)
<1>1. changes.pending \in Seq(Times)
  BY DEF Types, ChangesType
<1>2. DOMAIN changes.pending = 1 .. Len(changes.pending)
  BY <1>1
<1> QED
  BY <1>1, <1>2 DEF PendingSorted, Sorted

\* note(), when there is room for one more change.
LEMMA NotedFacts ==
  ASSUME Types, PendingSorted, NEW c \in Times, Note(c).active
  PROVE  /\ Note(c).active = changes.active /\ Note(c).target = changes.target
         /\ Note(c).pending \in Seq(Times)
         /\ Sorted(Note(c).pending) /\ Len(Note(c).pending) <= ChangeCapacity
         /\ \A x \in Times : Has(Note(c).pending, x) <=> Has(changes.pending, x) \/ x = c
<1> DEFINE q == SubSeq(changes.pending, 1, Place(c)) \o <<c>>
                  \o SubSeq(changes.pending, Place(c) + 1, Len(changes.pending))
<1>0. /\ changes.pending \in Seq(Times) /\ Sorted(changes.pending)
      /\ Len(changes.pending) <= ChangeCapacity /\ Len(changes.pending) \in Nat
  BY PendingFacts
<1>1. /\ q \in Seq(Times) /\ Sorted(q) /\ Len(q) = Len(changes.pending) + 1
      /\ \A x \in Times : Has(q, x) <=> Has(changes.pending, x) \/ x = c
  BY <1>0, NoteFacts
<1>2. Len(changes.pending) # ChangeCapacity
  BY DEF Note, Retired
<1>3. Note(c) = [changes EXCEPT !.pending = q]
  BY <1>2 DEF Note
<1> HIDE DEF q
<1>4. Note(c).pending = q /\ Note(c).active = changes.active /\ Note(c).target = changes.target
  BY <1>3 DEF Types, ChangesType
<1>5. Len(q) <= ChangeCapacity
  BY <1>0, <1>1, <1>2, PublicationsAssumption
<1> QED
  BY <1>1, <1>4, <1>5

\* What a step does to the queue of changes.
LEMMA ChangesMoves ==
  ASSUME Types, PendingSorted, [Next]_vars
  PROVE  \/ changes' = changes \/ changes' = Retired
         \/ \E t \in Times : changes' = Advanced(t)
         \/ \E c \in Times : Note(c).active /\ changes' = Note(c)
<1> USE DEF ghosts, hostVars, pubVars
<1> DEFINE Moved == \/ changes' = changes \/ changes' = Retired
                    \/ \E t \in Times : changes' = Advanced(t)
                    \/ \E c \in Times : Note(c).active /\ changes' = Note(c)
<1>1. ASSUME NEW t \in Times, NEW period \in 1 .. 2, NEW gameLocated \in BOOLEAN,
             NEW valid \in BOOLEAN, NEW drop \in BOOLEAN,
             WaitPublishes(t, period, gameLocated, valid, drop)
      PROVE Moved
  BY <1>1, Zenon DEF WaitPublishes
<1>2. ASSUME NEW t \in Times, NEW hard \in BOOLEAN, NEW drop \in BOOLEAN,
             WaitFails(t, hard, drop)
      PROVE Moved
  BY <1>2, Zenon DEF WaitFails
<1>3. ASSUME NEW t \in Times, NEW layered \in BOOLEAN, LoadingFrame(t, layered) PROVE Moved
  BY <1>3, Zenon DEF LoadingFrame
<1>4. ASSUME NEW c \in Times, PumpNotes(c) PROVE Moved
  BY <1>4, Zenon DEF PumpNotes, Retire
<1>5. ASSUME NEW r \in Times, NEW outcome \in Outcomes,
             ResetSeated(r, outcome) \/ IntroRecentre(r, outcome) \/ StartupCentre(r, outcome)
      PROVE Moved
  BY <1>5, Zenon DEF ResetSeated, IntroRecentre, StartupCentre
<1>6. ASSUME NEW withheld \in BOOLEAN, NEW shouldRender \in BOOLEAN,
             NEW keep \in {"off", "kept", "lost"}, SubmitPair(withheld, shouldRender, keep)
      PROVE Moved
  BY <1>6, Zenon DEF SubmitPair
<1>7. ASSUME LoadingFails \/ PumpFails \/ PumpStops \/ PumpRestarts
             \/ ResetUnlocated \/ AskIntro \/ IntroBlocked \/ StartupExpire \/ StartupDone
             \/ PollEvent \/ Stop \/ UNCHANGED vars
      PROVE Moved
  BY <1>7 DEF LoadingFails, PumpFails, PumpStops, PumpRestarts, ResetUnlocated, AskIntro,
              IntroBlocked, StartupExpire, StartupDone, PollEvent, Stop, Retire, vars
<1> HIDE DEF Moved
<1>8. Moved
  BY <1>1, <1>2, <1>3, <1>4, <1>5, <1>6, <1>7 DEF Next, Pump
<1> QED
  BY <1>8 DEF Moved

\* The queue of changes stays sorted and within its capacity.
LEMMA PendingStep ==
  ASSUME Types, PendingSorted, [Next]_vars PROVE PendingSorted'
<1>0. /\ changes.pending \in Seq(Times) /\ Sorted(changes.pending)
      /\ Len(changes.pending) <= ChangeCapacity /\ Len(changes.pending) \in Nat
  BY PendingFacts
<1>1. CASE changes' = changes
  BY <1>1 DEF PendingSorted
<1>2. CASE changes' = Retired
  <2>1. changes'.pending = <<>> /\ Len(<<>>) = 0 /\ DOMAIN <<>> = {}
    BY <1>2 DEF Retired
  <2> QED BY <2>1, PublicationsAssumption DEF PendingSorted
<1>3. ASSUME NEW t \in Times, changes' = Advanced(t) PROVE PendingSorted'
  <2>1. /\ changes'.pending \in Seq(Times) /\ Sorted(changes'.pending)
        /\ Len(changes'.pending) <= Len(changes.pending)
    BY <1>0, <1>3, AdvancedFacts
  <2>2. DOMAIN changes'.pending = 1 .. Len(changes'.pending) /\ Len(changes'.pending) \in Nat
    BY <2>1
  <2> QED BY <1>0, <2>1, <2>2, PublicationsAssumption DEF PendingSorted, Sorted
<1>4. ASSUME NEW c \in Times, Note(c).active, changes' = Note(c) PROVE PendingSorted'
  <2>1. /\ changes'.pending \in Seq(Times) /\ Sorted(changes'.pending)
        /\ Len(changes'.pending) <= ChangeCapacity
    BY <1>4, NotedFacts
  <2>2. DOMAIN changes'.pending = 1 .. Len(changes'.pending)
    BY <2>1
  <2> QED BY <2>1, <2>2 DEF PendingSorted, Sorted
<1> QED
  BY <1>1, <1>2, <1>3, <1>4, ChangesMoves

\* What applySeatedReset() adds to the events.
LEMMA ReplaceEvents ==
  ASSUME Types, NEW r \in Times, NEW notify \in BOOLEAN, NEW outcome \in Outcomes,
         ReplaceOrigin(r, notify, outcome)
  PROVE  \/ events' = events
         \/ /\ events' = Append(events, [origin |-> poses.origin + 1,
                                         id |-> Located(seated.space + 1, r)])
            /\ notify /\ outcome = "applied"
BY ReplaceFields DEF ReplaceOrigin

\* The events of earlier origins stay below a newer one.
LEMMA EventsAppend ==
  ASSUME Types, EventsOrdered, Room, NEW e \in EventType, e.origin = poses.origin + 1,
         events' = Append(events, e), poses'.origin = poses.origin + 1
  PROVE  EventsOrdered'
<1> DEFINE n == Len(events)
<1>1. /\ n \in Nat /\ DOMAIN events = 1 .. n /\ n < EventCapacity /\ poses.origin \in Nat
      /\ \A i \in 1 .. n : events[i].origin \in Nat /\ events[i].origin <= poses.origin
      /\ \A i, j \in 1 .. n : i < j => events[i].origin < events[j].origin
  <2>1. n \in Nat /\ DOMAIN events = 1 .. n /\ \A i \in 1 .. n : events[i] \in EventType
    BY DEF Types
  <2> QED BY <2>1 DEF Types, EventsOrdered, Room, EventType, PosesType
<1>2. /\ Len(events') = n + 1 /\ DOMAIN events' = 1 .. n + 1 /\ events'[n + 1] = e
      /\ \A i \in 1 .. n : events'[i] = events[i]
  <2>1. /\ events' \in Seq(EventType) /\ Len(events') = n + 1
        /\ events'[n + 1] = e /\ \A i \in 1 .. n : events'[i] = events[i]
    BY AppendProperties DEF Types
  <2> QED BY <2>1
<1> HIDE DEF n
<1>3. Len(events') <= EventCapacity
  BY <1>1, <1>2, PublicationsAssumption
<1>4. ASSUME NEW i \in 1 .. n + 1
      PROVE  (i \in 1 .. n /\ events'[i] = events[i]) \/ (i = n + 1 /\ events'[i] = e)
  BY <1>1, <1>2
<1>5. \A i \in 1 .. n + 1 : events'[i].origin <= poses'.origin
  BY <1>1, <1>4
<1>6. ASSUME NEW i \in 1 .. n + 1, NEW j \in 1 .. n + 1, i < j
      PROVE  events'[i].origin < events'[j].origin
  <2>1. i \in 1 .. n /\ events'[i] = events[i]
    BY <1>1, <1>4, <1>6
  <2>2. CASE j \in 1 .. n /\ events'[j] = events[j]
    BY <1>1, <1>6, <2>1, <2>2
  <2>3. CASE j = n + 1 /\ events'[j] = e
    <3>1. events[i].origin \in Nat /\ events[i].origin <= poses.origin
      BY <1>1, <2>1
    <3> QED BY <1>1, <2>1, <2>3, <3>1
  <2> QED BY <1>4, <2>2, <2>3
<1> QED
  BY <1>2, <1>3, <1>5, <1>6 DEF EventsOrdered

\* The same events under the same or a newer origin.
LEMMA EventsKept ==
  ASSUME Types, Types', EventsOrdered, events' = events, poses.origin <= poses'.origin
  PROVE  EventsOrdered'
<1>1. poses.origin \in Nat /\ poses'.origin \in Nat
  BY DEF Types, PosesType
<1>2. \A i \in DOMAIN events : events[i] \in EventType
  BY DEF Types
<1>3. \A i \in DOMAIN events : events[i].origin \in Nat
  BY <1>2 DEF EventType
<1> QED
  BY <1>1, <1>3 DEF EventsOrdered

\* Queued resets stay in the order of their origins.
LEMMA EventsStep ==
  ASSUME Types, Types', EventsOrdered, OpenFrame, [Next]_vars PROVE EventsOrdered'
<1> USE DEF ghosts, hostVars, pubVars
<1>0. poses.origin \in Nat
  BY DEF Types, PosesType
<1>k. ASSUME events' = events, poses'.origin \in {poses.origin, poses.origin + 1}
      PROVE  EventsOrdered'
  BY <1>0, <1>k, EventsKept
<1>r. ASSUME Retire PROVE EventsOrdered'
  <2>1. events' = <<>> /\ Len(<<>>) = 0 /\ DOMAIN <<>> = {}
    BY <1>r DEF Retire
  <2> QED BY <2>1, PublicationsAssumption DEF EventsOrdered
<1>s. ASSUME NEW r \in Times, NEW notify \in BOOLEAN, NEW outcome \in Outcomes,
             notify => Room, ReplaceOrigin(r, notify, outcome)
      PROVE  EventsOrdered'
  <2> DEFINE e == [origin |-> poses.origin + 1, id |-> Located(seated.space + 1, r)]
  <2>1. CASE events' = events
    BY <1>s, <2>1, <1>k, ReplaceFields
  <2>2. CASE events' = Append(events, e) /\ notify /\ outcome = "applied"
    <3>1. seated.space + 1 \in 0 .. MaxSpaces /\ r \in Nat
      BY <1>s, PublicationsAssumption DEF Types, SeatedType, ReplaceOrigin, Times
    <3>2. Located(seated.space + 1, r) \in Ids
      BY <3>1, LocatedType
    <3>3. e \in EventType /\ e.origin = poses.origin + 1
      BY <3>2, <1>0 DEF EventType
    <3>4. poses'.origin = poses.origin + 1
      BY <1>s, <2>2, ReplaceFields
    <3> HIDE DEF e
    <3> QED BY <1>s, <2>2, <3>3, <3>4, EventsAppend
  <2> QED BY <1>s, <2>1, <2>2, ReplaceEvents
<1>1. ASSUME NEW t \in Times, NEW period \in 1 .. 2, NEW gameLocated \in BOOLEAN,
             NEW valid \in BOOLEAN, NEW drop \in BOOLEAN,
             WaitPublishes(t, period, gameLocated, valid, drop)
      PROVE EventsOrdered'
  <2> DEFINE base == AdvanceOrigin(t)
  <2>1. base \in PosesType /\ base.origin \in {poses.origin, poses.origin + 1}
    BY Fields, PublicationTypes DEF AdvanceOrigin
  <2>2. \/ poses' = [base EXCEPT !.sequence = NextSequence, !.available = TRUE]
        \/ poses' = [base EXCEPT !.available = FALSE]
    BY <1>1 DEF WaitPublishes
  <2> HIDE DEF base
  <2>3. poses'.origin = base.origin
    BY <2>1, <2>2 DEF PosesType
  <2> QED BY <1>1, <1>k, <2>1, <2>3 DEF WaitPublishes
<1>2. ASSUME NEW t \in Times, NEW hard \in BOOLEAN, NEW drop \in BOOLEAN,
             WaitFails(t, hard, drop)
      PROVE EventsOrdered'
  <2> DEFINE base == IF MayAdvance(t) THEN AdvanceOrigin(t) ELSE poses
  <2>1. base \in PosesType /\ base.origin \in {poses.origin, poses.origin + 1}
    BY Fields, PublicationTypes DEF AdvanceOrigin, Types
  <2>2. poses' = [base EXCEPT !.available = FALSE]
    BY <1>2 DEF WaitFails
  <2> HIDE DEF base
  <2>3. poses'.origin = base.origin
    BY <2>1, <2>2 DEF PosesType
  <2> QED BY <1>2, <1>k, <2>1, <2>3 DEF WaitFails
<1>3. ASSUME NEW t \in Times, NEW layered \in BOOLEAN, LoadingFrame(t, layered)
      PROVE EventsOrdered'
  BY <1>3, <1>k, Fields DEF LoadingFrame, InvalidateOrigin
<1>4. ASSUME PumpRestarts \/ PumpStops PROVE EventsOrdered'
  BY <1>4, <1>k, Fields DEF PumpRestarts, PumpStops, InvalidateOrigin
<1>5. ASSUME NEW c \in Times, PumpNotes(c) PROVE EventsOrdered'
  BY <1>5, <1>k, <1>r, Fields DEF PumpNotes, Fatal
<1>6. ASSUME LoadingFails \/ PumpFails PROVE EventsOrdered'
  BY <1>6, <1>k, Fields DEF LoadingFails, PumpFails, Fatal
<1>7. ASSUME NEW r \in Times, NEW outcome \in Outcomes,
             ResetSeated(r, outcome) \/ IntroRecentre(r, outcome) \/ StartupCentre(r, outcome)
      PROVE EventsOrdered'
  BY <1>7, <1>s DEF ResetSeated, IntroRecentre, StartupCentre
<1>8. ASSUME NEW withheld \in BOOLEAN, NEW shouldRender \in BOOLEAN,
             NEW keep \in {"off", "kept", "lost"}, SubmitPair(withheld, shouldRender, keep)
      PROVE EventsOrdered'
  BY <1>8, <1>k DEF SubmitPair
<1>9. ASSUME ResetUnlocated \/ AskIntro \/ IntroBlocked \/ StartupExpire \/ StartupDone
              \/ UNCHANGED vars
      PROVE EventsOrdered'
  BY <1>9, <1>k DEF ResetUnlocated, AskIntro, IntroBlocked, StartupExpire, StartupDone, vars
<1>10. ASSUME PollEvent PROVE EventsOrdered'
  <2>1. CASE events' = events
    BY <1>10, <2>1, <1>k DEF PollEvent
  <2>2. CASE events # <<>> /\ events' = Tail(events)
    <3>1. /\ Len(events) \in Nat \ {0} /\ DOMAIN events = 1 .. Len(events)
          /\ Len(events') = Len(events) - 1 /\ DOMAIN events' = 1 .. Len(events')
          /\ \A i \in 1 .. Len(events') : events'[i] = events[i + 1]
      BY <2>2, HeadTailProperties DEF Types
    <3>2. poses' = poses /\ \A i \in 1 .. Len(events') : i + 1 \in 1 .. Len(events)
      BY <1>10, <3>1 DEF PollEvent
    <3>3. \A i \in DOMAIN events' : events'[i].origin <= poses'.origin
      BY <3>1, <3>2 DEF EventsOrdered
    <3>4. ASSUME NEW i \in DOMAIN events', NEW j \in DOMAIN events', i < j
          PROVE  events'[i].origin < events'[j].origin
      <4>1. /\ i + 1 \in DOMAIN events /\ j + 1 \in DOMAIN events /\ i + 1 < j + 1
            /\ events'[i] = events[i + 1] /\ events'[j] = events[j + 1]
        BY <3>1, <3>2, <3>4
      <4> QED BY <4>1 DEF EventsOrdered
    <3>5. Len(events') <= EventCapacity
      BY <3>1, PublicationsAssumption DEF EventsOrdered
    <3> QED BY <3>3, <3>4, <3>5 DEF EventsOrdered
  <2> QED BY <1>10, <2>1, <2>2 DEF PollEvent
<1>11. ASSUME Stop PROVE EventsOrdered'
  BY <1>11, <1>r DEF Stop
<1> QED
  BY <1>1, <1>2, <1>3, <1>4, <1>5, <1>6, <1>7, <1>8, <1>9, <1>10, <1>11 DEF Next, Pump

-------------------------------------------------------------------------------
(* What the poses of one origin are relative to *)

\* The announced times are times.
LEMMA NotedTimes ==
  ASSUME Types
  PROVE  /\ Times \subseteq Nat /\ changes.target \in Nat
         /\ \A i \in DOMAIN noted : noted[i] \in Times
BY PublicationsAssumption DEF Types, ChangesType, Times

\* Without a queued change in between, the game pose one period later is relative
\* to what the render pose is.
LEMMA GamePose ==
  ASSUME Types, PendingSorted, Applied, NEW t \in Times, MayAdvance(t),
         NEW period \in 1 .. 2, ~Crosses(t, t + period), NEW s
  PROVE  Located(s, t + period) = Located(s, t)
<1>0. t \in Nat /\ t + period \in Nat /\ t + period >= t
  BY NotedTimes
<1>1. ASSUME NEW i \in DOMAIN noted, noted[i] <= t + period, ~(noted[i] <= t) PROVE FALSE
  <2>a. noted[i] \in Times /\ noted[i] \in Nat /\ changes.target \in Nat /\ t >= changes.target
    BY <1>1, NotedTimes DEF MayAdvance
  <2>1. noted[i] \in Times /\ noted[i] \in Nat /\ noted[i] > t /\ noted[i] > changes.target
    BY <1>0, <1>1, <2>a
  <2>2. Has(changes.pending, noted[i])
    BY <2>1 DEF Applied, MayAdvance
  <2> DEFINE q == Advanced(t).pending
  <2>3. q \in Seq(Times) /\ Has(q, noted[i])
    BY <2>1, <2>2, PendingFacts, AdvancedFacts
  <2> HIDE DEF q
  <2>4. PICK j \in 1 .. Len(q) : q[j] = noted[i]
    BY <2>3 DEF Has
  <2>5. j \in DOMAIN q
    BY <2>3
  <2> QED BY <1>0, <1>1, <2>1, <2>4, <2>5 DEF Crosses, q
<1>2. \A i \in DOMAIN noted : noted[i] <= t + period <=> noted[i] <= t
  <2> SUFFICES ASSUME NEW i \in DOMAIN noted PROVE noted[i] <= t + period <=> noted[i] <= t
    OBVIOUS
  <2>1. noted[i] \in Nat
    BY NotedTimes
  <2> QED BY <2>1, <1>0, <1>1
<1> QED
  BY <1>2 DEF Located

\* When no queued change is due, a new pose is relative to what the older ones are.
LEMMA SamePose ==
  ASSUME Types, PendingSorted, Applied, NEW t \in Times, MayAdvance(t), Due(t) = 0,
         NEW a \in named.poses
  PROVE  a = Located(a.space, t)
<1>0. t \in Nat /\ changes.active /\ t >= changes.target /\ a \in Ids
  BY NotedTimes DEF MayAdvance, Types, NamedType
<1>1. \A c \in Times : Has(changes.pending, c) => c > t
  BY PendingFacts, AdvancedFacts
<1>2. ASSUME NEW i \in DOMAIN noted PROVE i \in a.crossed <=> noted[i] <= t
  <2>1. noted[i] \in Times /\ noted[i] \in Nat
    BY NotedTimes
  <2>2. i \in a.crossed => noted[i] <= t
    BY <1>0, <2>1, NotedTimes DEF Applied
  <2>3. noted[i] <= t => i \in a.crossed
    BY <1>0, <1>1, <2>1 DEF Applied
  <2> QED BY <2>2, <2>3
<1>3. a.crossed \subseteq DOMAIN noted
  BY <1>0 DEF Applied
<1>4. a.crossed = {i \in DOMAIN noted : noted[i] <= t}
  BY <1>2, <1>3
<1> QED
  BY <1>0, <1>4 DEF Located, Ids

\* What WaitGetPoses publishes: the frame is accepted, and its poses are the only
\* ones of the origin that the frame has.
LEMMA PublishFacts ==
  ASSUME Types, PendingSorted, Numbers, Applied, Spaces,
         NEW t \in Times, NEW period \in 1 .. 2, NEW gameLocated \in BOOLEAN,
         NEW valid \in BOOLEAN, NEW drop \in BOOLEAN,
         WaitPublishes(t, period, gameLocated, valid, drop)
  PROVE  /\ NextSequence > poses.sequence
         /\ named'.poses = {Located(seated.space, t)}
         /\ named'.events = IF Due(t) > 0 THEN {} ELSE named.events
         /\ poses'.origin = IF Due(t) > 0 THEN poses.origin + 1 ELSE poses.origin
<1> DEFINE id == Located(seated.space, t)
           late == Located(seated.space, t + period)
           base == AdvanceOrigin(t)
           accepted == NextSequence > poses.sequence
           game == gameLocated /\ ~Crosses(t, t + period)
           located == {id} \cup (IF game THEN {late} ELSE {})
           nu == NamedUnder(base)
<1>0. MayAdvance(t) /\ seated.usable /\ BeginFrame
  BY DEF WaitPublishes, WaitAdmitted
<1>1. accepted
  <2>1. NextSequence = numbering.last + 1
    BY <1>0, BeginNumbers
  <2>2. numbering.last \in Nat /\ poses.sequence \in Nat /\ poses.sequence <= numbering.last
    BY DEF Types, NumberingType, PosesType, Numbers
  <2> QED BY <2>1, <2>2
<1>2. located = {id}
  BY <1>0, GamePose
<1>3. named' = [nu EXCEPT !.poses = nu.poses \cup located]
  BY <1>1 DEF WaitPublishes
<1>4. poses' = [base EXCEPT !.sequence = NextSequence, !.available = TRUE]
  BY <1>1 DEF WaitPublishes
<1>5. base \in PosesType /\ nu \in NamedType
  BY PublicationTypes
<1>6. base = IF Due(t) > 0 THEN ResetOrigin ELSE poses
  BY DEF AdvanceOrigin
<1>7. nu = IF Due(t) > 0 THEN [poses |-> {}, events |-> {}] ELSE named
  BY <1>6, Fields
<1> HIDE DEF located, nu, base
<1>8. named'.poses = nu.poses \cup {id} /\ named'.events = nu.events
  BY <1>2, <1>3, <1>5 DEF NamedType
<1>9. poses'.origin = IF Due(t) > 0 THEN poses.origin + 1 ELSE poses.origin
  BY <1>4, <1>5, <1>6, Fields DEF PosesType
<1>10. named'.poses = {id}
  <2>1. CASE Due(t) > 0
    BY <2>1, <1>7, <1>8
  <2>2. CASE ~(Due(t) > 0)
    <3>1. Due(t) = 0
      BY <2>2, DueFacts, PendingFacts
    <3>2. \A a \in named.poses : a = id
      BY <1>0, <3>1, SamePose DEF Spaces
    <3> QED BY <2>2, <3>2, <1>7, <1>8
  <2> QED BY <2>1, <2>2
<1>11. named'.events = IF Due(t) > 0 THEN {} ELSE named.events
  BY <1>7, <1>8
<1> QED
  BY <1>1, <1>9, <1>10, <1>11

\* Applied, when the history of poses does not grow and the queue is not touched
\* unless it is retired.
LEMMA AppliedKept ==
  ASSUME Types, Applied, noted' = noted, named'.poses \subseteq named.poses,
         changes' = changes \/ changes' = Retired
  PROVE  Applied'
BY DEF Applied, Retired

\* Applied, when the policy advances and every pose of the origin it leaves is
\* relative to the changes up to then.
LEMMA AppliedAdvanced ==
  ASSUME Types, PendingSorted, Applied, NEW t \in Times, MayAdvance(t),
         noted' = noted, changes' = Advanced(t),
         \A a \in named'.poses : a.crossed = {i \in DOMAIN noted : noted[i] <= t}
  PROVE  Applied'
<1>0. t \in Nat /\ changes.active /\ t >= changes.target
  BY NotedTimes DEF MayAdvance
<1> DEFINE q == Advanced(t).pending
<1>1. /\ changes'.pending = q /\ changes'.target = t
      /\ \A c \in Times : Has(q, c) <=> Has(changes.pending, c) /\ c > t
  BY PendingFacts, AdvancedFacts
<1> HIDE DEF q
<1>2. ASSUME NEW i \in DOMAIN noted, noted[i] > t PROVE Has(q, noted[i])
  <2>a. noted[i] \in Times /\ noted[i] \in Nat /\ changes.target \in Nat
    BY <1>2, NotedTimes
  <2>1. noted[i] \in Times /\ noted[i] \in Nat /\ noted[i] > changes.target
    BY <1>0, <1>2, <2>a
  <2> QED BY <1>0, <1>1, <1>2, <2>1 DEF Applied
<1>3. ASSUME NEW i \in DOMAIN noted, ~(noted[i] <= t) PROVE Has(q, noted[i])
  <2>1. noted[i] \in Nat
    BY <1>3, NotedTimes
  <2>2. noted[i] > t
    BY <1>0, <1>3, <2>1
  <2> QED BY <1>2, <2>2
<1> QED
  BY <1>1, <1>2, <1>3 DEF Applied

\* The poses of an advance that found nothing due.
LEMMA AppliedNotDue ==
  ASSUME Types, PendingSorted, Applied, NEW t \in Times, MayAdvance(t), ~(Due(t) > 0)
  PROVE  \A a \in named.poses : a.crossed = {i \in DOMAIN noted : noted[i] <= t}
<1>1. Due(t) = 0
  BY DueFacts, PendingFacts
<1>2. ASSUME NEW a \in named.poses PROVE a.crossed = {i \in DOMAIN noted : noted[i] <= t}
  <2>1. a = Located(a.space, t)
    BY <1>1, SamePose
  <2> QED BY <2>1 DEF Located
<1> QED
  BY <1>2

\* Every announced change is queued or applied, and the poses of the current
\* origin agree on which.
LEMMA AppliedStep ==
  ASSUME Types, Types', PendingSorted, Numbers, Applied, Spaces, [Next]_vars PROVE Applied'
<1> USE DEF ghosts, hostVars, pubVars
<1>i. ASSUME InvalidateOrigin PROVE named'.poses = {}
  BY <1>i, Fields DEF InvalidateOrigin
<1>1. ASSUME NEW t \in Times, NEW period \in 1 .. 2, NEW gameLocated \in BOOLEAN,
             NEW valid \in BOOLEAN, NEW drop \in BOOLEAN,
             WaitPublishes(t, period, gameLocated, valid, drop)
      PROVE Applied'
  <2>1. MayAdvance(t) /\ noted' = noted /\ changes' = Advanced(t)
    BY <1>1 DEF WaitPublishes
  <2>2. named'.poses = {Located(seated.space, t)}
    BY <1>1, PublishFacts
  <2>3. \A a \in named'.poses : a.crossed = {i \in DOMAIN noted : noted[i] <= t}
    BY <2>2 DEF Located
  <2> QED BY <2>1, <2>3, AppliedAdvanced
<1>2. ASSUME NEW t \in Times, NEW hard \in BOOLEAN, NEW drop \in BOOLEAN,
             WaitFails(t, hard, drop)
      PROVE Applied'
  <2> DEFINE base == IF MayAdvance(t) THEN AdvanceOrigin(t) ELSE poses
  <2>1. base \in PosesType
    BY PublicationTypes DEF Types
  <2>2. noted' = noted /\ named' = NamedUnder(poses') /\ poses' = [base EXCEPT !.available = FALSE]
    BY <1>2 DEF WaitFails
  <2>3. poses'.origin = base.origin
    <3> HIDE DEF base
    <3> QED BY <2>1, <2>2 DEF PosesType
  <2>4. CASE MayAdvance(t) /\ Due(t) > 0
    <3>1. named' = [poses |-> {}, events |-> {}]
      BY <2>2, <2>3, <2>4, Fields DEF NamedUnder, AdvanceOrigin
    <3>2. changes' = Advanced(t)
      BY <1>2, <2>4 DEF WaitFails
    <3>3. \A a \in named'.poses : a.crossed = {i \in DOMAIN noted : noted[i] <= t}
      BY <3>1
    <3> QED BY <2>2, <2>4, <3>2, <3>3, AppliedAdvanced
  <2>5. CASE MayAdvance(t) /\ ~(Due(t) > 0)
    <3>1. named' = named
      BY <2>2, <2>3, <2>5 DEF NamedUnder, AdvanceOrigin
    <3>2. changes' = Advanced(t)
      BY <1>2, <2>5 DEF WaitFails
    <3>3. \A a \in named'.poses : a.crossed = {i \in DOMAIN noted : noted[i] <= t}
      BY <2>5, <3>1, AppliedNotDue
    <3> QED BY <2>2, <2>5, <3>2, <3>3, AppliedAdvanced
  <2>6. CASE ~MayAdvance(t)
    <3>1. changes' = Retired
      BY <1>2, <2>6 DEF WaitFails
    <3> QED BY <3>1 DEF Applied, Retired
  <2> QED BY <2>4, <2>5, <2>6
<1>3. ASSUME NEW t \in Times, NEW layered \in BOOLEAN, LoadingFrame(t, layered) PROVE Applied'
  <2>0. noted' = noted
    BY <1>3 DEF LoadingFrame
  <2>1. CASE ~layered
    BY <1>3, <2>1, AppliedKept DEF LoadingFrame
  <2>2. CASE layered /\ Due(t) > 0
    <3>1. MayAdvance(t) /\ changes' = Advanced(t) /\ named'.poses = {}
      BY <1>3, <1>i, <2>2 DEF LoadingFrame
    <3> QED BY <2>0, <3>1, AppliedAdvanced
  <2>3. CASE layered /\ ~(Due(t) > 0)
    <3>1. MayAdvance(t) /\ changes' = Advanced(t) /\ named' = named
      BY <1>3, <2>3 DEF LoadingFrame
    <3>2. \A a \in named'.poses : a.crossed = {i \in DOMAIN noted : noted[i] <= t}
      BY <2>3, <3>1, AppliedNotDue
    <3> QED BY <2>0, <3>1, <3>2, AppliedAdvanced
  <2> QED BY <2>1, <2>2, <2>3
<1>4. ASSUME PumpRestarts \/ PumpStops \/ LoadingFails \/ PumpFails PROVE Applied'
  <2>1. noted' = noted /\ changes' = changes /\ named'.poses \subseteq named.poses
    BY <1>4, <1>i DEF PumpRestarts, PumpStops, LoadingFails, PumpFails
  <2> QED BY <2>1, AppliedKept
<1>5. ASSUME NEW c \in Times, PumpNotes(c) PROVE Applied'
  <2>1. CASE Note(c).active
    <3>1. changes' = Note(c) /\ named' = named /\ noted' = Append(noted, c) /\ changes.active
      BY <1>5, <2>1 DEF PumpNotes
    <3>2. /\ changes'.target = changes.target
          /\ \A x \in Times : Has(changes'.pending, x) <=> Has(changes.pending, x) \/ x = c
      BY <2>1, <3>1, NotedFacts
    <3> DEFINE n == Len(noted)
    <3>3. /\ n \in Nat /\ DOMAIN noted = 1 .. n /\ DOMAIN noted' = 1 .. n + 1
          /\ noted'[n + 1] = c /\ \A i \in 1 .. n : noted'[i] = noted[i] /\ noted[i] \in Times
      <4>1. /\ noted \in Seq(Times) /\ noted' \in Seq(Times) /\ Len(noted') = n + 1
            /\ noted'[n + 1] = c /\ \A i \in 1 .. n : noted'[i] = noted[i]
        BY <3>1, AppendProperties DEF Types
      <4> QED BY <4>1
    <3> HIDE DEF n
    <3>4. ASSUME NEW i \in 1 .. n + 1
          PROVE  \/ i \in 1 .. n /\ noted'[i] = noted[i] /\ noted[i] \in Times
                 \/ noted'[i] = c
      BY <3>3
    <3>5. \A i \in 1 .. n + 1 : noted'[i] > changes'.target => Has(changes'.pending, noted'[i])
      BY <3>1, <3>2, <3>3, <3>4 DEF Applied
    <3>6. ASSUME NEW a \in named'.poses
          PROVE  /\ a.crossed \subseteq 1 .. n + 1
                 /\ \A i \in a.crossed : noted'[i] <= changes'.target
                 /\ \A i \in 1 .. n + 1 : i \in a.crossed \/ Has(changes'.pending, noted'[i])
      <4>1. /\ a.crossed \subseteq 1 .. n
            /\ \A i \in a.crossed : noted[i] <= changes.target
            /\ \A i \in 1 .. n : i \in a.crossed \/ Has(changes.pending, noted[i])
        BY <3>1, <3>3, <3>6 DEF Applied
      <4>2. 1 .. n \subseteq 1 .. n + 1
        BY <3>3
      <4> QED BY <3>2, <3>3, <3>4, <4>1, <4>2
    <3> QED BY <3>3, <3>5, <3>6 DEF Applied
  <2>2. CASE ~Note(c).active
    <3>1. changes' = Retired
      BY <1>5, <2>2 DEF PumpNotes, Retire
    <3> QED BY <3>1 DEF Applied, Retired
  <2> QED BY <2>1, <2>2
<1>6. ASSUME NEW r \in Times, NEW outcome \in Outcomes,
             ResetSeated(r, outcome) \/ IntroRecentre(r, outcome) \/ StartupCentre(r, outcome)
      PROVE Applied'
  <2>1. noted' = noted /\ changes' = changes
    BY <1>6 DEF ResetSeated, IntroRecentre, StartupCentre
  <2>2. named'.poses \subseteq named.poses
    <3>1. PICK notify \in BOOLEAN : ReplaceOrigin(r, notify, outcome)
      BY <1>6 DEF ResetSeated, IntroRecentre, StartupCentre
    <3>2. named' = named \/ named' = [poses |-> {}, events |-> {}]
      BY <3>1, ReplaceFields
    <3> QED BY <3>2
  <2> QED BY <2>1, <2>2, AppliedKept
<1>7. ASSUME NEW withheld \in BOOLEAN, NEW shouldRender \in BOOLEAN,
             NEW keep \in {"off", "kept", "lost"}, SubmitPair(withheld, shouldRender, keep)
      PROVE Applied'
  BY <1>7, AppliedKept DEF SubmitPair
<1>8. ASSUME ResetUnlocated \/ AskIntro \/ IntroBlocked \/ StartupExpire \/ StartupDone
              \/ UNCHANGED vars
      PROVE Applied'
  BY <1>8, AppliedKept DEF ResetUnlocated, AskIntro, IntroBlocked, StartupExpire,
                           StartupDone, vars
<1>9. ASSUME PollEvent PROVE Applied'
  <2>1. noted' = noted /\ changes' = changes
    BY <1>9 DEF PollEvent
  <2>2. named'.poses = named.poses
    BY <1>9 DEF PollEvent, Types, NamedType
  <2> QED BY <2>1, <2>2, AppliedKept
<1>10. ASSUME Stop PROVE Applied'
  BY <1>10 DEF Stop, Retire, Retired, Applied
<1> QED
  BY <1>1, <1>2, <1>3, <1>4, <1>5, <1>6, <1>7, <1>8, <1>9, <1>10 DEF Next, Pump

\* Spaces, when the origin stays and the space is kept or given up.
LEMMA SpacesKept ==
  ASSUME Spaces, named' = named, events' = events, poses'.origin = poses.origin,
         seated'.usable => seated.usable /\ seated'.space = seated.space
  PROVE  Spaces'
BY DEF Spaces, OriginNamesItsSpace

\* Spaces, under a new origin that no queued event is of.
LEMMA SpacesRenewed ==
  ASSUME Types, EventsOrdered, named' = [poses |-> {}, events |-> {}], events' = events,
         poses'.origin = poses.origin + 1
  PROVE  Spaces'
<1>1. poses.origin \in Nat /\ \A i \in DOMAIN events : events[i] \in EventType
  BY DEF Types, PosesType
<1>2. \A i \in DOMAIN events : events[i].origin \in Nat /\ events[i].origin <= poses.origin
  BY <1>1 DEF EventType, EventsOrdered
<1>3. \A i \in DOMAIN events : events[i].origin # poses.origin + 1
  BY <1>1, <1>2
<1> QED
  BY <1>3 DEF Spaces, OriginNamesItsSpace

\* Spaces, when the host replaces its space and tells the game.
LEMMA SpacesReplaced ==
  ASSUME Types, EventsOrdered, Spaces,
         NEW r \in Times, NEW notify \in BOOLEAN, NEW outcome \in Outcomes,
         ReplaceOrigin(r, notify, outcome)
  PROVE  Spaces'
<1> DEFINE e == [origin |-> poses.origin + 1, id |-> Located(seated.space + 1, r)]
<1>1. CASE outcome \in {"create", "destroy"}
  <2>1. ~seated'.usable
    BY <1>1 DEF ReplaceOrigin
  <2> QED BY <1>1, <2>1, ReplaceFields, SpacesKept
<1>2. CASE outcome \notin {"create", "destroy"} /\ events' = events
  BY <1>2, ReplaceFields, SpacesRenewed
<1>3. CASE outcome \notin {"create", "destroy"} /\ events' = Append(events, e)
  <2>0. poses'.origin = poses.origin + 1 /\ named' = [poses |-> {}, events |-> {}]
    BY <1>3, ReplaceFields
  <2>1. seated'.space = seated.space + 1
    BY <1>3 DEF ReplaceOrigin
  <2>2. poses.origin \in Nat /\ \A i \in DOMAIN events : events[i] \in EventType
    BY DEF Types, PosesType
  <2>3. \A i \in DOMAIN events : events[i].origin \in Nat /\ events[i].origin <= poses.origin
    BY <2>2 DEF EventType, EventsOrdered
  <2>4. \A i \in DOMAIN events : events[i].origin # poses.origin + 1
    BY <2>2, <2>3
  <2>5. seated.space + 1 \in 0 .. MaxSpaces /\ r \in Nat
    BY PublicationsAssumption DEF Types, SeatedType, ReplaceOrigin, Times
  <2>6. e \in EventType /\ e.id.space = seated.space + 1
    BY <2>2, <2>5, LocatedType DEF EventType, Located
  <2> HIDE DEF e
  <2>7. ASSUME NEW i \in DOMAIN events'
        PROVE  (i \in DOMAIN events /\ events'[i] = events[i]) \/ events'[i] = e
    <3>1. /\ events' \in Seq(EventType) /\ Len(events') = Len(events) + 1
          /\ events'[Len(events) + 1] = e
          /\ \A k \in 1 .. Len(events) : events'[k] = events[k]
      BY <1>3, <2>6, AppendProperties DEF Types
    <3>2. events \in Seq(EventType)
      BY DEF Types
    <3> QED BY <2>7, <3>1, <3>2
  <2>8. \A i \in DOMAIN events' :
          events'[i].origin = poses'.origin => events'[i].id.space = seated'.space
    BY <2>0, <2>1, <2>4, <2>6, <2>7
  <2> QED BY <2>0, <2>8 DEF Spaces, OriginNamesItsSpace
<1> QED
  BY <1>1, <1>2, <1>3, ReplaceEvents

\* Poses and events of one origin name one space.
LEMMA SpacesStep ==
  ASSUME Types, Types', PendingSorted, EventsOrdered, Numbers, Applied, Spaces, [Next]_vars
  PROVE  Spaces'
<1> USE DEF ghosts, hostVars, pubVars
<1>i. ASSUME InvalidateOrigin, events' = events PROVE Spaces'
  BY <1>i, Fields, SpacesRenewed DEF InvalidateOrigin
<1>r. ASSUME Retire PROVE Spaces'
  <2>1. events' = <<>> /\ DOMAIN <<>> = {} /\ named' = [poses |-> {}, events |-> {}]
    BY <1>r DEF Retire
  <2> QED BY <2>1 DEF Spaces, OriginNamesItsSpace
<1>1. ASSUME NEW t \in Times, NEW period \in 1 .. 2, NEW gameLocated \in BOOLEAN,
             NEW valid \in BOOLEAN, NEW drop \in BOOLEAN,
             WaitPublishes(t, period, gameLocated, valid, drop)
      PROVE Spaces'
  <2> DEFINE id == Located(seated.space, t)
  <2>0. seated' = seated /\ events' = events /\ seated.usable
    BY <1>1 DEF WaitPublishes, WaitAdmitted
  <2>1. /\ named'.poses = {id}
        /\ named'.events = IF Due(t) > 0 THEN {} ELSE named.events
        /\ poses'.origin = IF Due(t) > 0 THEN poses.origin + 1 ELSE poses.origin
    BY <1>1, PublishFacts
  <2>2. id.space = seated.space
    BY DEF Located
  <2> HIDE DEF id
  <2>3. CASE Due(t) > 0
    <3>1. poses.origin \in Nat /\ \A i \in DOMAIN events : events[i] \in EventType
      BY DEF Types, PosesType
    <3>2. \A i \in DOMAIN events : events[i].origin \in Nat /\ events[i].origin <= poses.origin
      BY <3>1 DEF EventType, EventsOrdered
    <3>3. \A i \in DOMAIN events : events[i].origin # poses.origin + 1
      BY <3>1, <3>2
    <3> QED BY <2>0, <2>1, <2>2, <2>3, <3>3 DEF Spaces, OriginNamesItsSpace
  <2>4. CASE ~(Due(t) > 0)
    BY <2>0, <2>1, <2>2, <2>4 DEF Spaces, OriginNamesItsSpace
  <2> QED BY <2>3, <2>4
<1>2. ASSUME NEW t \in Times, NEW hard \in BOOLEAN, NEW drop \in BOOLEAN,
             WaitFails(t, hard, drop)
      PROVE Spaces'
  <2> DEFINE base == IF MayAdvance(t) THEN AdvanceOrigin(t) ELSE poses
  <2>1. base \in PosesType
    BY PublicationTypes DEF Types
  <2>2. /\ seated' = seated /\ events' = events /\ named' = NamedUnder(poses')
        /\ poses' = [base EXCEPT !.available = FALSE]
    BY <1>2 DEF WaitFails
  <2>3. poses'.origin = base.origin
    <3> HIDE DEF base
    <3> QED BY <2>1, <2>2 DEF PosesType
  <2>4. CASE MayAdvance(t) /\ Due(t) > 0
    BY <2>2, <2>3, <2>4, Fields, SpacesRenewed DEF NamedUnder, AdvanceOrigin
  <2>5. CASE ~(MayAdvance(t) /\ Due(t) > 0)
    <3>1. poses'.origin = poses.origin
      BY <2>3, <2>5 DEF AdvanceOrigin
    <3> QED BY <2>2, <3>1, SpacesKept DEF NamedUnder
  <2> QED BY <2>4, <2>5
<1>3. ASSUME NEW t \in Times, NEW layered \in BOOLEAN, LoadingFrame(t, layered) PROVE Spaces'
  BY <1>3, <1>i, SpacesKept DEF LoadingFrame
<1>4. ASSUME PumpRestarts PROVE Spaces'
  BY <1>4, <1>i DEF PumpRestarts
<1>5. ASSUME PumpStops \/ LoadingFails \/ PumpFails PROVE Spaces'
  BY <1>5, Fields, SpacesKept DEF PumpStops, LoadingFails, PumpFails, Fatal
<1>6. ASSUME NEW c \in Times, PumpNotes(c) PROVE Spaces'
  BY <1>6, <1>r, Fields, SpacesKept DEF PumpNotes, Fatal
<1>7. ASSUME NEW r \in Times, NEW outcome \in Outcomes,
             ResetSeated(r, outcome) \/ IntroRecentre(r, outcome) \/ StartupCentre(r, outcome)
      PROVE Spaces'
  BY <1>7, SpacesReplaced DEF ResetSeated, IntroRecentre, StartupCentre
<1>8. ASSUME NEW withheld \in BOOLEAN, NEW shouldRender \in BOOLEAN,
             NEW keep \in {"off", "kept", "lost"}, SubmitPair(withheld, shouldRender, keep)
      PROVE Spaces'
  BY <1>8, SpacesKept DEF SubmitPair
<1>9. ASSUME ResetUnlocated \/ AskIntro \/ IntroBlocked \/ StartupExpire \/ StartupDone
              \/ UNCHANGED vars
      PROVE Spaces'
  BY <1>9, SpacesKept DEF ResetUnlocated, AskIntro, IntroBlocked, StartupExpire,
                          StartupDone, vars
<1>10. ASSUME PollEvent PROVE Spaces'
  <2>0. seated' = seated /\ poses' = poses
    BY <1>10 DEF PollEvent
  <2>1. CASE events' = events /\ named' = named
    BY <2>0, <2>1, SpacesKept
  <2>2. CASE /\ events # <<>> /\ events' = Tail(events)
             /\ named' = IF EventPose(Head(events))
                         THEN [named EXCEPT !.events = @ \cup {Head(events).id}]
                         ELSE named
    <3> DEFINE h == Head(events)
    <3>1. /\ h = events[1] /\ 1 \in DOMAIN events
          /\ \A i \in DOMAIN events' : i + 1 \in DOMAIN events /\ events'[i] = events[i + 1]
      <4>1. /\ Len(events) \in Nat \ {0} /\ DOMAIN events = 1 .. Len(events) /\ h = events[1]
            /\ Len(events') = Len(events) - 1 /\ DOMAIN events' = 1 .. Len(events')
            /\ \A i \in 1 .. Len(events') : events'[i] = events[i + 1]
        BY <2>2, HeadTailProperties DEF Types
      <4> QED BY <4>1
    <3>2. \/ named' = named
          \/ /\ h.origin = poses.origin
             /\ named'.poses = named.poses /\ named'.events = named.events \cup {h.id}
      BY <2>2 DEF EventPose, Types, NamedType
    <3> HIDE DEF h
    <3>3. CASE named' = named
      BY <2>0, <3>1, <3>3 DEF Spaces, OriginNamesItsSpace
    <3>4. CASE /\ h.origin = poses.origin
               /\ named'.poses = named.poses /\ named'.events = named.events \cup {h.id}
      <4>1. /\ \A a \in named.poses : a.space = h.id.space
            /\ seated.usable => h.id.space = seated.space
        BY <3>1, <3>4 DEF Spaces
      <4> QED BY <2>0, <3>1, <3>4, <4>1 DEF Spaces, OriginNamesItsSpace
    <3> QED BY <3>2, <3>3, <3>4
  <2> QED BY <1>10, <2>1, <2>2 DEF PollEvent
<1>11. ASSUME Stop PROVE Spaces'
  BY <1>11, <1>r DEF Stop
<1> QED
  BY <1>1, <1>2, <1>3, <1>4, <1>5, <1>6, <1>7, <1>8, <1>9, <1>10, <1>11 DEF Next, Pump

-------------------------------------------------------------------------------
(* What a Submit may show *)

\* Shown, when the frame is dropped or kept as it is, and the pair is dropped or
\* kept with the origin's history.
LEMMA ShownKept ==
  ASSUME Shown,
         ~frame'.open \/ ~frame'.ready
           \/ (frame' = frame /\ named' = named /\ seated' = seated),
         ~previous'.valid
           \/ (previous' = previous /\ named'.poses = named.poses
                 /\ poses'.origin = poses.origin)
  PROVE  Shown'
BY DEF Shown

\* The open frame's poses and the kept pair's belong to the current origin.
LEMMA ShownStep ==
  ASSUME Types, Types', PendingSorted, EventsOrdered, Numbers, OpenFrame, Applied, Spaces,
         Shown, [Next]_vars
  PROVE  Shown'
<1> USE DEF ghosts, hostVars, pubVars
<1>0. ~NoFrame.open /\ ~NoFrame.ready /\ ~NoPair.valid
  BY DEF NoFrame, NoPair
<1>i. ASSUME InvalidateOrigin, ~frame'.open PROVE Shown'
  BY <1>i, <1>0, ShownKept DEF InvalidateOrigin
<1>r. ASSUME Retire PROVE Shown'
  BY <1>r, <1>0, ShownKept DEF Retire
<1>f. ASSUME Fatal, UNCHANGED <<frame, named, seated>> PROVE Shown'
  BY <1>f, <1>0, ShownKept DEF Fatal
<1>s. ASSUME NEW r \in Times, NEW notify \in BOOLEAN, NEW outcome \in Outcomes,
             ReplaceOrigin(r, notify, outcome), ~frame'.open
      PROVE  Shown'
  BY <1>s, <1>0, ReplaceFields, ShownKept
<1>1. ASSUME NEW t \in Times, NEW period \in 1 .. 2, NEW gameLocated \in BOOLEAN,
             NEW valid \in BOOLEAN, NEW drop \in BOOLEAN,
             WaitPublishes(t, period, gameLocated, valid, drop)
      PROVE Shown'
  <2> DEFINE id == Located(seated.space, t)
  <2>0. seated' = seated /\ seated.usable /\ MayAdvance(t)
    BY <1>1 DEF WaitPublishes, WaitAdmitted
  <2>1. /\ named'.poses = {id}
        /\ poses'.origin = IF Due(t) > 0 THEN poses.origin + 1 ELSE poses.origin
    BY <1>1, PublishFacts
  <2>2. ~frame'.open \/ frame'.id = id
    BY <1>1, <1>0 DEF WaitPublishes
  <2>3. previous' = NoPair \/ (~(Due(t) > 0) /\ previous' = previous)
    BY <1>1 DEF WaitPublishes
  <2>4. ASSUME ~(Due(t) > 0), NEW a \in named.poses PROVE a = id
    <3>1. Due(t) = 0
      BY <2>4, DueFacts, PendingFacts
    <3> QED BY <2>0, <2>4, <3>1, SamePose DEF Spaces
  <2> HIDE DEF id
  <2> QED BY <1>0, <2>0, <2>1, <2>2, <2>3, <2>4 DEF Shown
<1>2. ASSUME NEW t \in Times, NEW hard \in BOOLEAN, NEW drop \in BOOLEAN,
             WaitFails(t, hard, drop)
      PROVE Shown'
  <2> DEFINE base == IF MayAdvance(t) THEN AdvanceOrigin(t) ELSE poses
  <2>1. base \in PosesType
    BY PublicationTypes DEF Types
  <2>2. named' = NamedUnder(poses') /\ poses' = [base EXCEPT !.available = FALSE]
    BY <1>2 DEF WaitFails
  <2>3. poses'.origin = base.origin
    <3> HIDE DEF base
    <3> QED BY <2>1, <2>2 DEF PosesType
  <2>4. ~frame'.ready
    BY <1>2 DEF WaitFails, NoFrame
  <2>5. previous' = NoPair \/ (~(MayAdvance(t) /\ Due(t) > 0) /\ previous' = previous)
    BY <1>2 DEF WaitFails
  <2>6. ~(MayAdvance(t) /\ Due(t) > 0) => poses'.origin = poses.origin /\ named' = named
    BY <2>2, <2>3 DEF AdvanceOrigin, NamedUnder
  <2> QED BY <1>0, <2>4, <2>5, <2>6, ShownKept
<1>3. ASSUME NEW t \in Times, NEW layered \in BOOLEAN, LoadingFrame(t, layered) PROVE Shown'
  BY <1>3, <1>i, ShownKept DEF LoadingFrame
<1>4. ASSUME PumpRestarts PROVE Shown'
  BY <1>4, <1>i DEF PumpRestarts, OpenFrame
<1>5. ASSUME PumpStops PROVE Shown'
  BY <1>5, <1>0, Fields, ShownKept DEF PumpStops
<1>6. ASSUME LoadingFails \/ PumpFails PROVE Shown'
  BY <1>6, <1>f DEF LoadingFails, PumpFails
<1>7. ASSUME NEW c \in Times, PumpNotes(c) PROVE Shown'
  BY <1>7, <1>r, <1>f, ShownKept DEF PumpNotes
<1>8. ASSUME NEW r \in Times, NEW outcome \in Outcomes,
             ResetSeated(r, outcome) \/ IntroRecentre(r, outcome) \/ StartupCentre(r, outcome)
      PROVE Shown'
  BY <1>8, <1>0, <1>s DEF ResetSeated, FrameAfterReset, IntroRecentre, StartupCentre, OpenFrame
<1>9. ASSUME NEW withheld \in BOOLEAN, NEW shouldRender \in BOOLEAN,
             NEW keep \in {"off", "kept", "lost"}, SubmitPair(withheld, shouldRender, keep)
      PROVE Shown'
  <2>1. frame' = NoFrame /\ UNCHANGED <<named, poses, seated>> /\ frame.open
    BY <1>9 DEF SubmitPair
  <2>2. CASE previous' \in {previous, NoPair}
    BY <1>0, <2>1, <2>2, ShownKept
  <2>3. CASE previous' \notin {previous, NoPair}
    <3>1. previous' = [valid |-> TRUE, id |-> frame.id, reference |-> poses.origin] /\ frame.ready
      BY <1>9, <2>3 DEF SubmitPair
    <3> QED BY <1>0, <2>1, <3>1 DEF Shown
  <2> QED BY <2>2, <2>3
<1>10. ASSUME ResetUnlocated \/ AskIntro \/ IntroBlocked \/ StartupExpire \/ StartupDone
              \/ UNCHANGED vars
      PROVE Shown'
  BY <1>10, <1>0, ShownKept DEF ResetUnlocated, AskIntro, IntroBlocked, StartupExpire,
                                StartupDone, vars
<1>11. ASSUME PollEvent PROVE Shown'
  <2>1. UNCHANGED <<frame, seated, previous, poses>>
    BY <1>11 DEF PollEvent
  <2>2. named'.poses = named.poses
    BY <1>11 DEF PollEvent, Types, NamedType
  <2> QED BY <2>1, <2>2 DEF Shown
<1>12. ASSUME Stop PROVE Shown'
  BY <1>12, <1>r DEF Stop
<1> QED
  BY <1>1, <1>2, <1>3, <1>4, <1>5, <1>6, <1>7, <1>8, <1>9, <1>10, <1>11, <1>12 DEF Next, Pump

\* No layer is misplaced: a replayed pair and the frame it stands for are poses of
\* one origin, which are relative to the same space and the same changes.
LEMMA SubmitPlaces ==
  ASSUME Spaces, Shown, misplaced = FALSE,
         NEW withheld \in BOOLEAN, NEW shouldRender \in BOOLEAN,
         NEW keep \in {"off", "kept", "lost"}, SubmitPair(withheld, shouldRender, keep)
  PROVE  misplaced' = FALSE
<1> DEFINE pixels == frame.ready /\ shouldRender /\ LayerAvailable(withheld)
           shown == IF withheld THEN previous.id ELSE frame.id
<1>1. ASSUME pixels, Misplaced(shown, frame.id) PROVE FALSE
  <2>1. frame.open
    BY DEF SubmitPair
  <2>2. frame.id \in named.poses /\ seated.usable /\ frame.id.space = seated.space
    BY <1>1, <2>1 DEF Shown, Spaces
  <2>3. withheld => previous.id \in named.poses
    BY <1>1 DEF LayerAvailable, Shown
  <2>4. shown = frame.id
    BY <2>2, <2>3 DEF Spaces, OriginNamesItsSpace
  <2> QED BY <1>1, <2>2, <2>4 DEF Misplaced
<1>2. misplaced' = (misplaced \/ (pixels /\ Misplaced(shown, frame.id)))
  BY Zenon DEF SubmitPair
<1> HIDE DEF pixels, shown
<1> QED
  BY <1>1, <1>2

\* No step refuses a frame or misplaces a layer.
LEMMA ContractStep ==
  ASSUME Types, PendingSorted, Numbers, Applied, Spaces, Shown,
         misplaced = FALSE, refused = FALSE, [Next]_vars
  PROVE  misplaced' = FALSE /\ refused' = FALSE
<1> USE DEF ghosts, hostVars, pubVars
<1>1. ASSUME NEW t \in Times, NEW period \in 1 .. 2, NEW gameLocated \in BOOLEAN,
             NEW valid \in BOOLEAN, NEW drop \in BOOLEAN,
             WaitPublishes(t, period, gameLocated, valid, drop)
      PROVE  misplaced' = FALSE /\ refused' = FALSE
  <2> DEFINE accepted == NextSequence > poses.sequence
  <2>1. accepted
    BY <1>1, PublishFacts
  <2>2. refused' = (refused \/ ~accepted) /\ misplaced' = misplaced
    BY <1>1, Zenon DEF WaitPublishes
  <2> HIDE DEF accepted
  <2> QED BY <2>1, <2>2
<1>2. ASSUME NEW t \in Times, NEW hard \in BOOLEAN, NEW drop \in BOOLEAN, WaitFails(t, hard, drop)
      PROVE  misplaced' = FALSE /\ refused' = FALSE
  BY <1>2 DEF WaitFails
<1>3. ASSUME NEW t \in Times, NEW layered \in BOOLEAN, LoadingFrame(t, layered)
      PROVE  misplaced' = FALSE /\ refused' = FALSE
  BY <1>3 DEF LoadingFrame
<1>4. ASSUME NEW c \in Times, PumpNotes(c)
      PROVE  misplaced' = FALSE /\ refused' = FALSE
  BY <1>4 DEF PumpNotes, Retire
<1>5. ASSUME NEW r \in Times, NEW outcome \in Outcomes,
             ResetSeated(r, outcome) \/ IntroRecentre(r, outcome) \/ StartupCentre(r, outcome)
      PROVE  misplaced' = FALSE /\ refused' = FALSE
  BY <1>5 DEF ResetSeated, IntroRecentre, StartupCentre
<1>6. ASSUME NEW withheld \in BOOLEAN, NEW shouldRender \in BOOLEAN,
             NEW keep \in {"off", "kept", "lost"}, SubmitPair(withheld, shouldRender, keep)
      PROVE  misplaced' = FALSE /\ refused' = FALSE
  <2>1. refused' = refused
    BY <1>6 DEF SubmitPair
  <2> QED BY <1>6, <2>1, SubmitPlaces
<1>7. ASSUME LoadingFails \/ PumpFails \/ PumpStops \/ PumpRestarts
             \/ ResetUnlocated \/ AskIntro \/ IntroBlocked \/ StartupExpire \/ StartupDone
             \/ PollEvent \/ Stop \/ UNCHANGED vars
      PROVE  misplaced' = FALSE /\ refused' = FALSE
  BY <1>7 DEF LoadingFails, PumpFails, PumpStops, PumpRestarts, ResetUnlocated, AskIntro,
              IntroBlocked, StartupExpire, StartupDone, PollEvent, Stop, Retire, vars
<1> QED
  BY <1>1, <1>2, <1>3, <1>4, <1>5, <1>6, <1>7 DEF Next, Pump

-------------------------------------------------------------------------------
(* The theorems *)

\* The inductive invariant, with its types one variable at a time.
LEMMA TypesAreTypeOK == Types /\ Flags <=> TypeOK /\ Len(noted) <= MaxChanges
BY DEF Types, Flags, TypeOK, SessionType, NumberingType, FrameType, SeatedType, ChangesType,
       PosesType, GeometryType, EventType, PairType, NamedType

\* The host starts with it.
LEMMA InitHolds == Init => IInv
<1> SUFFICES ASSUME Init PROVE IInv
  OBVIOUS
<1>1. Types
  <2>1. session \in SessionType
    BY PublicationsAssumption DEF Init, SessionType
  <2>2. numbering \in NumberingType /\ poses \in PosesType /\ geometry \in GeometryType
    BY DEF Init, NumberingType, PosesType, GeometryType
  <2>3. seated \in SeatedType /\ changes \in ChangesType /\ now \in 0 .. MaxTime
    BY PublicationsAssumption DEF Init, SeatedType, ChangesType
  <2>4. events \in Seq(EventType) /\ noted \in Seq(Times) /\ Len(noted) <= MaxChanges
    BY PublicationsAssumption DEF Init
  <2> QED BY <2>1, <2>2, <2>3, <2>4, EmptyTypes DEF Init, Types
<1>2. Flags
  BY Zenon DEF Init, Flags
<1>3. /\ Len(changes.pending) = 0 /\ DOMAIN changes.pending = {}
      /\ Len(events) = 0 /\ DOMAIN events = {} /\ DOMAIN noted = {}
  BY DEF Init
<1>4. PendingSorted /\ EventsOrdered
  BY <1>3, PublicationsAssumption DEF PendingSorted, EventsOrdered
<1>5. Numbers /\ OpenFrame
  BY DEF Init, Numbers, OpenFrame, NoFrame
<1>6. Applied /\ Spaces /\ Shown
  BY <1>3 DEF Init, Applied, Spaces, OriginNamesItsSpace, Shown, NoFrame, NoPair
<1> QED
  BY <1>1, <1>2, <1>4, <1>5, <1>6, TypesAreTypeOK DEF IInv, Init

\* Every step keeps it.
LEMMA StepHolds == IInv /\ [Next]_vars => IInv'
<1> SUFFICES ASSUME IInv, [Next]_vars PROVE IInv'
  OBVIOUS
<1>1. /\ Types /\ Flags /\ PendingSorted /\ EventsOrdered /\ Numbers /\ OpenFrame
      /\ Applied /\ Spaces /\ Shown /\ misplaced = FALSE /\ refused = FALSE
  BY TypesAreTypeOK DEF IInv
<1>2. Types' /\ Flags'
  BY <1>1, TypesStep, FlagsStep
<1>3. (TypeOK /\ Len(noted) <= MaxChanges)'
  BY <1>2, TypesAreTypeOK, PTL
<1>4. PendingSorted' /\ EventsOrdered'
  BY <1>1, <1>2, PendingStep, EventsStep
<1>5. Numbers' /\ OpenFrame'
  BY <1>1, NumbersStep, OpenFrameStep
<1>6. Applied' /\ Spaces' /\ Shown'
  BY <1>1, <1>2, AppliedStep, SpacesStep, ShownStep
<1>7. misplaced' = FALSE /\ refused' = FALSE
  BY <1>1, ContractStep
<1> QED
  BY <1>3, <1>4, <1>5, <1>6, <1>7 DEF IInv

\* The invariant holds in every reachable state.
THEOREM Invariance == Spec => []IInv
BY InitHolds, StepHolds, PTL DEF Spec

\* The publications are well formed, whatever the times, the capacities and the
\* number of frames, sessions, changes and spaces: types, a sorted queue of LOCAL
\* changes, reset events in the order of their origins, publications that are never
\* ahead of the frame numbers, and open frames only inside a running session
\* (compositor_publication.h, reference_changes.h, reset_events.h).
THEOREM Consistency == Spec => []Consistent
<1>1. IInv => Consistent
  <2> SUFFICES ASSUME IInv PROVE Consistent
    OBVIOUS
  <2>1. numbering.offset <= numbering.last
    <3>1. Types /\ Numbers
      BY TypesAreTypeOK DEF IInv
    <3>2. /\ numbering.last = numbering.offset + session.sequence
          /\ numbering.offset \in Nat /\ session.sequence \in Nat
      BY <3>1, PublicationsAssumption DEF Types, Numbers, NumberingType, SessionType
    <3> QED BY <3>2
  <2> QED BY <2>1 DEF IInv, Consistent, Numbers, OpenFrame
<1> QED
  BY <1>1, Invariance, PTL

\* An origin generation names one origin, and a layer shows poses of its frame's
\* own origin in the space the host owns, however resets, announced LOCAL changes,
\* restarts, loading frames and replays interleave (native_runtime_host.h:872, 997,
\* 1921, reset_events.h:38).
THEOREM KeepsContract == Spec => []OriginContract
<1>1. IInv => OriginContract
  BY DEF IInv, Spaces, OriginContract, LayerIsCurrent
<1> QED
  BY <1>1, Invariance, PTL

\* The publications accept every frame the host begins, over any number of restarts
\* of the session (native_runtime_host.h:2118-2135, compositor_publication.h:19).
THEOREM AcceptsFrames == Spec => []FramesAreAccepted
<1>1. IInv => FramesAreAccepted
  BY DEF IInv, FramesAreAccepted
<1> QED
  BY <1>1, Invariance, PTL
===============================================================================
