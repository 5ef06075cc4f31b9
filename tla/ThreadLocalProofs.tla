------------------------- MODULE ThreadLocalProofs -------------------------
(***************************************************************************)
(* ThreadLocal for any threads, ids, number of slots and number of values:  *)
(* what reset(), clear() and clearAll() keep under the lock.                *)
(***************************************************************************)
EXTENDS ThreadLocal, SequenceTheorems, WellFoundedInduction, TLAPS

-----------------------------------------------------------------------------
(* The first of a set of positions, and a sequence without one of its      *)
(* elements.                                                               *)

LEMMA FirstIsIn ==
  ASSUME NEW S \in SUBSET Nat, S # {}
  PROVE  First(S) \in S
<1> DEFINE R == OpToRel(<, Nat)
<1>1. \E x \in S : \A y \in S : ~(<<y, x>> \in R)
  <2>1. IsWellFoundedOn(R, Nat)
    BY NatLessThanWellFounded
  <2> HIDE DEF R
  <2> QED
    BY <2>1, WFMin
<1>2. \E x \in S : \A y \in S : x <= y
  <2>1. PICK x \in S : \A y \in S : ~(<<y, x>> \in R)
    BY <1>1
  <2>2. \A y \in S : y < x => <<y, x>> \in R
    BY DEF OpToRel
  <2> HIDE DEF R
  <2>3. \A y \in S : ~(y < x)
    BY <2>1, <2>2
  <2>4. \A y \in S : x \in Nat /\ y \in Nat
    OBVIOUS
  <2>5. \A y \in S : x <= y
    BY <2>3, <2>4
  <2> QED
    BY <2>5
<1> QED
  BY <1>2 DEF First

LEMMA FirstOfOne ==
  ASSUME NEW k \in Nat, NEW S, S = {k}
  PROVE  First(S) = k
  BY DEF First

\* Two pieces of a sequence, joined over a gap of one.
LEMMA Joined ==
  ASSUME NEW s \in Seq(Values), NEW k \in 1..Len(s),
         NEW a \in Seq(Values), NEW b \in Seq(Values),
         Len(a) = k - 1, \A i \in 1..(k - 1) : a[i] = s[i],
         Len(b) = Len(s) - k, \A i \in 1..(Len(s) - k) : b[i] = s[k + i]
  PROVE  /\ a \o b \in Seq(Values)
         /\ Len(a \o b) = Len(s) - 1
         /\ \A i \in 1..(Len(s) - 1) :
              (a \o b)[i] = IF i < k THEN s[i] ELSE s[i + 1]
<1>1. Len(s) \in Nat /\ k \in Nat /\ Len(a) \in Nat /\ Len(b) \in Nat
  OBVIOUS
<1>2. /\ a \o b \in Seq(Values) /\ Len(a \o b) = Len(a) + Len(b)
      /\ \A i \in 1..(Len(a) + Len(b)) :
           (a \o b)[i] = IF i <= Len(a) THEN a[i] ELSE b[i - Len(a)]
  BY ConcatProperties
<1>3. Len(a) + Len(b) = Len(s) - 1
  BY <1>1
<1>4. ASSUME NEW i \in 1..(Len(s) - 1)
      PROVE  (a \o b)[i] = IF i < k THEN s[i] ELSE s[i + 1]
  <2>1. CASE i < k
    <3>1. i \in 1..(k - 1) /\ i <= Len(a) /\ i \in 1..(Len(a) + Len(b))
      BY <1>1, <1>3, <2>1
    <3> QED
      BY <1>2, <2>1, <3>1
  <2>2. CASE ~(i < k)
    <3> DEFINE j == i - Len(a)
    <3>1. /\ j \in 1..(Len(s) - k) /\ k + j = i + 1 /\ ~(i <= Len(a))
          /\ i \in 1..(Len(a) + Len(b))
      BY <1>1, <1>3, <2>2
    <3>2. (a \o b)[i] = b[j]
      BY <1>2, <3>1
    <3> HIDE DEF j
    <3>3. b[j] = s[k + j]
      BY <3>1
    <3> QED
      BY <2>2, <3>1, <3>2, <3>3
  <2> QED
    BY <2>1, <2>2
<1> QED
  BY <1>2, <1>3, <1>4

\* vector::erase: what follows the position moves up by one.
Without(s, k) == SubSeq(s, 1, k - 1) \o SubSeq(s, k + 1, Len(s))
Before(i, k)  == IF i < k THEN i ELSE i + 1

LEMMA Erased ==
  ASSUME NEW s \in Seq(Values), NEW k \in DOMAIN s
  PROVE  /\ Without(s, k) \in Seq(Values)
         /\ \A i \in DOMAIN Without(s, k) :
              /\ Before(i, k) \in DOMAIN s \ {k}
              /\ Without(s, k)[i] = s[Before(i, k)]
         /\ \A i, j \in DOMAIN Without(s, k) :
              Before(i, k) = Before(j, k) => i = j
<1>1. Len(s) \in Nat /\ k \in 1..Len(s) /\ DOMAIN s = 1..Len(s)
  OBVIOUS
<1> DEFINE a == SubSeq(s, 1, k - 1)
           b == SubSeq(s, k + 1, Len(s))
<1>2. /\ a \in Seq(Values) /\ Len(a) = k - 1
      /\ \A i \in 1..(k - 1) : a[i] = s[i]
  BY <1>1, SubSeqProperties
<1>3. /\ b \in Seq(Values) /\ Len(b) = Len(s) - k
      /\ \A i \in 1..(Len(s) - k) : b[i] = s[k + i]
  BY <1>1, SubSeqProperties
<1>4. Without(s, k) = a \o b
  BY DEF Without
<1> HIDE DEF a, b
<1>5. /\ Without(s, k) \in Seq(Values)
      /\ Len(Without(s, k)) = Len(s) - 1
      /\ \A i \in 1..(Len(s) - 1) :
           Without(s, k)[i] = IF i < k THEN s[i] ELSE s[i + 1]
  <2>1. /\ a \o b \in Seq(Values)
        /\ Len(a \o b) = Len(s) - 1
        /\ \A i \in 1..(Len(s) - 1) :
             (a \o b)[i] = IF i < k THEN s[i] ELSE s[i + 1]
    BY <1>1, <1>2, <1>3, Joined
  <2> QED
    BY <1>4, <2>1
<1>6. DOMAIN Without(s, k) = 1..(Len(s) - 1)
  BY <1>5
<1>7. \A i \in 1..(Len(s) - 1) : /\ Before(i, k) \in 1..Len(s)
                                 /\ Before(i, k) # k
                                 /\ Without(s, k)[i] = s[Before(i, k)]
  <2> TAKE i \in 1..(Len(s) - 1)
  <2>1. CASE i < k
    BY <1>1, <1>5, <2>1 DEF Before
  <2>2. CASE ~(i < k)
    BY <1>1, <1>5, <2>2 DEF Before
  <2> QED
    BY <2>1, <2>2
<1>8. \A i, j \in 1..(Len(s) - 1) : Before(i, k) = Before(j, k) => i = j
  BY <1>1 DEF Before
<1> QED
  BY <1>1, <1>5, <1>6, <1>7, <1>8
-----------------------------------------------------------------------------
(* removeLocal() and addLocal().                                           *)

LEMMA ValuesFacts ==
  /\ Values \subseteq 0..MaxValues /\ 0 \notin Values
  /\ \A v \in 0..MaxValues : v # 0 => v \in Values
  /\ \A v \in 0..MaxValues : v \in Nat
  /\ Slots \subseteq Nat
  BY ConstantsAssumption DEF Values, Slots

\* No Local of this id is left.
Free(slots, rest, ids, id) ==
  /\ \A i \in Slots : slots[i] # 0 => ids[slots[i]] # id
  /\ \A i \in DOMAIN rest : ids[rest[i]] # id

\* removeLocal(id) keeps everything sound and leaves no Local of id.
LEMMA RemovalIsSound ==
  ASSUME SlotInv, NEW id
  PROVE  /\ Sound(Removed(id), Remaining(id), freed \cup Deleted(id), localId,
                  nextValue)
         /\ Free(Removed(id), Remaining(id), localId, id)
         /\ Remaining(id) # <<>> => vector
<1>1. Sound(statics, dynamics, freed, localId, nextValue)
  BY DEF SlotInv
<1>2. CASE InSlots(id) # {}
  <2>1. PICK k \in InSlots(id) : TRUE
    BY <1>2
  <2>2. k \in Slots /\ statics[k] # 0 /\ localId[statics[k]] = id /\ k \in Nat
    BY <2>1, ValuesFacts DEF InSlots
  <2>3. InSlots(id) = {k}
    BY <1>1, <2>2 DEF InSlots, Sound
  <2>4. First(InSlots(id)) = k
    BY <2>2, <2>3, FirstOfOne
  <2>5. /\ Removed(id) = [statics EXCEPT ![k] = 0]
        /\ Remaining(id) = dynamics
        /\ Deleted(id) = {statics[k]}
    BY <1>2, <2>4 DEF Removed, Remaining, Deleted
  <2>6. /\ statics[k] \in Values /\ statics[k] < nextValue
        /\ 0 \in 0..MaxValues /\ 0 < nextValue /\ 0 \notin freed \cup {statics[k]}
    BY <1>1, <2>2, ValuesFacts, ConstantsAssumption DEF Sound, SlotInv
  <2>7. \A i \in Slots : i # k =>
          /\ statics[i] # statics[k]
          /\ statics[i] # 0 => localId[statics[i]] # id
    BY <1>1, <2>2 DEF Sound
  <2>8. \A j \in DOMAIN dynamics :
          dynamics[j] # statics[k] /\ localId[dynamics[j]] # id
    BY <1>1, <2>2 DEF Sound
  <2> DEFINE s == [statics EXCEPT ![k] = 0]
  <2>9. /\ s \in [Slots -> 0..MaxValues]
        /\ \A i \in Slots : s[i] = IF i = k THEN 0 ELSE statics[i]
    BY <1>1, <2>6 DEF Sound
  <2> HIDE DEF s
  <2>10. \A i, j \in Slots :
           s[i] # 0 /\ s[j] # 0 /\ localId[s[i]] = localId[s[j]] => i = j
    BY <1>1, <2>9 DEF Sound
  <2>11. \A i \in Slots, j \in DOMAIN dynamics :
           s[i] # 0 => localId[s[i]] # localId[dynamics[j]]
    BY <1>1, <2>9 DEF Sound
  <2>12. \A i \in Slots : s[i] < nextValue /\ s[i] \notin freed \cup {statics[k]}
    BY <1>1, <2>6, <2>7, <2>9 DEF Sound
  <2>13. Sound(s, dynamics, freed \cup {statics[k]}, localId, nextValue)
    BY <1>1, <2>6, <2>8, <2>9, <2>10, <2>11, <2>12 DEF Sound
  <2>14. Free(s, dynamics, localId, id)
    BY <2>7, <2>8, <2>9 DEF Free
  <2> QED
    BY <2>5, <2>13, <2>14 DEF SlotInv, s
<1>3. CASE InSlots(id) = {} /\ InVector(id) # {}
  <2>1. PICK k \in InVector(id) : TRUE
    BY <1>3
  <2>2. /\ k \in DOMAIN dynamics /\ localId[dynamics[k]] = id /\ k \in Nat
        /\ dynamics \in Seq(Values)
    BY <1>1, <2>1 DEF InVector, Sound
  <2>3. InVector(id) = {k}
    BY <1>1, <2>2 DEF InVector, Sound
  <2>4. First(InVector(id)) = k
    BY <2>2, <2>3, FirstOfOne
  <2>5. /\ Removed(id) = statics
        /\ Remaining(id) = Without(dynamics, k)
        /\ Deleted(id) = {dynamics[k]}
    BY <1>3, <2>4 DEF Removed, Remaining, Deleted, Without
  <2> DEFINE d == Without(dynamics, k)
  <2>6. /\ d \in Seq(Values)
        /\ \A i \in DOMAIN d : /\ Before(i, k) \in DOMAIN dynamics \ {k}
                               /\ d[i] = dynamics[Before(i, k)]
        /\ \A i, j \in DOMAIN d : Before(i, k) = Before(j, k) => i = j
    BY <2>2, Erased
  <2> HIDE DEF d
  <2>7. \A j \in DOMAIN dynamics : j # k =>
          dynamics[j] # dynamics[k] /\ localId[dynamics[j]] # id
    BY <1>1, <2>2 DEF Sound
  <2>8. /\ dynamics[k] \in Values /\ dynamics[k] < nextValue
    BY <1>1, <2>2 DEF Sound
  <2>9. \A i \in Slots : /\ statics[i] # dynamics[k]
                         /\ statics[i] # 0 => localId[statics[i]] # id
    BY <1>1, <2>2, <2>8, ValuesFacts DEF Sound
  <2>10. \A i \in DOMAIN d : /\ d[i] < nextValue
                             /\ d[i] \notin freed \cup {dynamics[k]}
                             /\ localId[d[i]] # id
    BY <1>1, <2>6, <2>7 DEF Sound
  <2>11. \A i, j \in DOMAIN d : localId[d[i]] = localId[d[j]] => i = j
    BY <1>1, <2>6 DEF Sound
  <2>12. \A i \in Slots, j \in DOMAIN d :
           statics[i] # 0 => localId[statics[i]] # localId[d[j]]
    BY <1>1, <2>6 DEF Sound
  <2>13. Sound(statics, d, freed \cup {dynamics[k]}, localId, nextValue)
    BY <1>1, <2>6, <2>8, <2>9, <2>10, <2>11, <2>12 DEF Sound
  <2>14. Free(statics, d, localId, id)
    BY <2>9, <2>10 DEF Free
  <2>15. vector
    BY <2>2 DEF SlotInv
  <2> QED
    BY <2>5, <2>13, <2>14, <2>15 DEF d
<1>4. CASE InSlots(id) = {} /\ InVector(id) = {}
  <2>1. /\ Removed(id) = statics /\ Remaining(id) = dynamics
        /\ freed \cup Deleted(id) = freed
    BY <1>4 DEF Removed, Remaining, Deleted
  <2>2. Free(statics, dynamics, localId, id)
    BY <1>4 DEF Free, InSlots, InVector
  <2> QED
    BY <1>1, <2>1, <2>2 DEF SlotInv
<1> QED
  BY <1>2, <1>3, <1>4

\* addLocal(id, v) with the next value keeps everything sound when no Local of
\* id is left: the value is new, and goes to a free slot or to the end.
LEMMA AdditionIsSound ==
  ASSUME NEW s, NEW d, NEW f, NEW id,
         nextValue \in 1..(MaxValues + 1), nextValue <= MaxValues,
         localId = [v \in Values |-> localId[v]],
         Sound(s, d, f, localId, nextValue), Free(s, d, localId, id),
         d # <<>> => vector,
         Add(s, d, nextValue),
         localId' = [localId EXCEPT ![nextValue] = id]
  PROVE  /\ Sound(statics', dynamics', f, localId', nextValue + 1)
         /\ (dynamics' # <<>> => vector')
<1> DEFINE n == nextValue
           ids == [localId EXCEPT ![nextValue] = id]
<1>1. n \in Values /\ n \in 0..MaxValues /\ n \in Nat /\ n # 0
  BY ConstantsAssumption DEF Values
<1>2. /\ s \in [Slots -> 0..MaxValues] /\ d \in Seq(Values)
      /\ \A i \in Slots : s[i] \in Nat /\ s[i] < n
      /\ \A i \in DOMAIN d : d[i] \in Values /\ d[i] \in Nat /\ d[i] < n
      /\ f \subseteq Values
      /\ \A v \in f : v \in Nat /\ v < n
  BY ValuesFacts DEF Sound
<1>3. /\ \A v \in Values : v # n => ids[v] = localId[v]
      /\ ids[n] = id
  BY <1>1
<1>4. \A i \in Slots : s[i] # 0 => ids[s[i]] = localId[s[i]] /\ ids[s[i]] # id
  <2> TAKE i \in Slots
  <2> HAVE s[i] # 0
  <2>1. s[i] \in Values /\ s[i] # n
    BY <1>1, <1>2, ValuesFacts
  <2> QED
    BY <1>3, <2>1 DEF Free
<1>5. \A i \in DOMAIN d : ids[d[i]] = localId[d[i]] /\ ids[d[i]] # id
  <2> TAKE i \in DOMAIN d
  <2>1. d[i] \in Values /\ d[i] # n
    BY <1>1, <1>2
  <2> QED
    BY <1>3, <2>1 DEF Free
<1>6. n \notin f /\ \A v \in f : v < n + 1
  BY <1>1, <1>2
<1>7. /\ \A i \in Slots : s[i] < n + 1 /\ s[i] \notin f
      /\ \A i \in DOMAIN d : d[i] < n + 1 /\ d[i] \notin f
  BY <1>1, <1>2 DEF Sound
<1>8. ids = localId'
  OBVIOUS
<1>9. Add(s, d, n)
  OBVIOUS
<1> HIDE DEF ids
<1>10. \A i, j \in Slots : s[i] # 0 /\ s[j] # 0 /\ ids[s[i]] = ids[s[j]] => i = j
  <2> TAKE i, j \in Slots
  <2> HAVE s[i] # 0 /\ s[j] # 0 /\ ids[s[i]] = ids[s[j]]
  <2>1. localId[s[i]] = localId[s[j]]
    BY <1>4
  <2> QED
    BY <2>1 DEF Sound
<1>11. \A i, j \in DOMAIN d : ids[d[i]] = ids[d[j]] => i = j
  BY <1>5 DEF Sound
<1>12. \A i \in Slots, j \in DOMAIN d : s[i] # 0 => ids[s[i]] # ids[d[j]]
  <2> TAKE i \in Slots, j \in DOMAIN d
  <2> HAVE s[i] # 0
  <2>1. ids[s[i]] = localId[s[i]] /\ ids[d[j]] = localId[d[j]]
    BY <1>4, <1>5
  <2> QED
    BY <2>1 DEF Sound
<1>13. CASE FreeSlots(s) # {}
  <2> DEFINE k == First(FreeSlots(s))
             t == [s EXCEPT ![k] = n]
  <2>1. k \in Slots
    <3>1. FreeSlots(s) \in SUBSET Nat
      BY ValuesFacts DEF FreeSlots
    <3>2. k \in FreeSlots(s)
      BY <1>13, <3>1, FirstIsIn
    <3> QED
      BY <3>2 DEF FreeSlots
  <2>2. statics' = t /\ dynamics' = d /\ vector' = vector
    BY <1>9, <1>13 DEF Add
  <2> HIDE DEF k
  <2>3. /\ t \in [Slots -> 0..MaxValues]
        /\ \A i \in Slots : i # k => t[i] = s[i]
        /\ t[k] = n
    BY <1>1, <1>2, <2>1
  <2> HIDE DEF t, n
  <2>4. \A i \in Slots : t[i] < n + 1 /\ t[i] \notin f
    BY <1>1, <1>6, <1>7, <2>3
  <2>5. \A i, j \in Slots :
          t[i] # 0 /\ t[j] # 0 /\ ids[t[i]] = ids[t[j]] => i = j
    <3> TAKE i, j \in Slots
    <3> HAVE t[i] # 0 /\ t[j] # 0 /\ ids[t[i]] = ids[t[j]]
    <3>1. CASE i # k /\ j # k
      BY <1>10, <2>3, <3>1
    <3>2. CASE i = k /\ j # k
      BY <1>3, <1>4, <2>3, <3>2
    <3>3. CASE i # k /\ j = k
      BY <1>3, <1>4, <2>3, <3>3
    <3> QED
      BY <3>1, <3>2, <3>3
  <2>6. \A i \in Slots, j \in DOMAIN d : t[i] # 0 => ids[t[i]] # ids[d[j]]
    <3> TAKE i \in Slots, j \in DOMAIN d
    <3> HAVE t[i] # 0
    <3>1. CASE i # k
      BY <1>12, <2>3, <3>1
    <3>2. CASE i = k
      BY <1>3, <1>5, <2>3, <3>2
    <3> QED
      BY <3>1, <3>2
  <2>7. Sound(t, d, f, ids, n + 1)
    BY <1>2, <1>6, <1>7, <1>11, <2>3, <2>4, <2>5, <2>6 DEF Sound
  <2> QED
    BY <1>8, <2>2, <2>7 DEF n
<1>14. CASE FreeSlots(s) = {}
  <2> DEFINE e == Append(d, n)
             m == Len(d) + 1
  <2>1. statics' = s /\ dynamics' = e /\ vector'
    BY <1>9, <1>14 DEF Add
  <2>2. /\ e \in Seq(Values) /\ DOMAIN e = DOMAIN d \cup {m}
        /\ \A i \in DOMAIN d : e[i] = d[i]
        /\ e[m] = n
    BY <1>1, <1>2, AppendProperties
  <2> HIDE DEF e, m, n
  <2>3. \A i \in DOMAIN e : e[i] < n + 1 /\ e[i] \notin f
    BY <1>1, <1>6, <1>7, <2>2
  <2>4. \A i, j \in DOMAIN e : ids[e[i]] = ids[e[j]] => i = j
    <3> TAKE i, j \in DOMAIN e
    <3> HAVE ids[e[i]] = ids[e[j]]
    <3>1. CASE i \in DOMAIN d /\ j \in DOMAIN d
      BY <1>11, <2>2, <3>1
    <3>2. CASE i = m /\ j \in DOMAIN d
      BY <1>3, <1>5, <2>2, <3>2
    <3>3. CASE i \in DOMAIN d /\ j = m
      BY <1>3, <1>5, <2>2, <3>3
    <3> QED
      BY <2>2, <3>1, <3>2, <3>3
  <2>5. \A i \in Slots, j \in DOMAIN e : s[i] # 0 => ids[s[i]] # ids[e[j]]
    BY <1>3, <1>4, <1>12, <2>2
  <2>6. Sound(s, e, f, ids, n + 1)
    BY <1>2, <1>6, <1>7, <1>10, <2>2, <2>3, <2>4, <2>5 DEF Sound
  <2> QED
    BY <1>8, <2>1, <2>6 DEF n
<1> QED
  BY <1>13, <1>14

-----------------------------------------------------------------------------
(* The methods, and the theorem.                                           *)

\* Nothing is stored, and nothing was deleted.
LEMMA InitSlotInv == Init => SlotInv
<1> SUFFICES ASSUME Init PROVE SlotInv
  OBVIOUS
<1>1. statics = [i \in Slots |-> 0] /\ dynamics = <<>> /\ freed = {}
      /\ nextValue = 1 /\ localId = [v \in Values |-> NoId]
  BY DEF Init
<1>2. 0 \in 0..MaxValues /\ 1 \in 1..(MaxValues + 1)
  BY ConstantsAssumption
<1>3. <<>> \in Seq(Values) /\ DOMAIN dynamics = {}
  BY <1>1
<1>4. Sound(statics, dynamics, freed, localId, nextValue)
  BY <1>1, <1>2, <1>3 DEF Sound
<1> QED
  BY <1>1, <1>2, <1>4 DEF SlotInv

\* reset(v): removeLocal() and then addLocal().
LEMMA ResetSlotInv ==
  ASSUME SlotInv, NEW t \in Threads, Reset(t)
  PROVE  SlotInv'
<1> DEFINE id == idOf[t]
           s == Removed(id)
           d == Remaining(id)
           f == freed \cup Deleted(id)
<1>1. /\ Sound(s, d, f, localId, nextValue) /\ Free(s, d, localId, id)
      /\ d # <<>> => vector
  BY RemovalIsSound
<1>2. /\ Add(s, d, nextValue) /\ localId' = [localId EXCEPT ![nextValue] = id]
      /\ freed' = f /\ nextValue' = nextValue + 1 /\ nextValue <= MaxValues
  BY DEF Reset
<1>3. /\ nextValue \in 1..(MaxValues + 1)
      /\ localId = [v \in Values |-> localId[v]]
  BY DEF SlotInv
<1> HIDE DEF id, s, d, f
<1>4. /\ Sound(statics', dynamics', f, localId', nextValue + 1)
      /\ (dynamics' # <<>> => vector')
  BY <1>1, <1>2, <1>3, AdditionIsSound
<1>5. nextValue' \in 1..(MaxValues + 1)
  BY <1>2, <1>3, ConstantsAssumption
<1>6. localId' = [v \in Values |-> localId'[v]]
  BY <1>2, <1>3
<1> QED
  BY <1>2, <1>4, <1>5, <1>6 DEF SlotInv

\* reset(nullptr) and clear(id) are removeLocal() alone.
LEMMA RemoveSlotInv ==
  ASSUME SlotInv, NEW id,
         freed' = freed \cup Deleted(id),
         statics' = Removed(id), dynamics' = Remaining(id),
         vector' = vector, localId' = localId, nextValue' = nextValue
  PROVE  SlotInv'
<1>1. /\ Sound(Removed(id), Remaining(id), freed \cup Deleted(id), localId,
               nextValue)
      /\ Remaining(id) # <<>> => vector
  BY RemovalIsSound
<1> QED
  BY <1>1 DEF SlotInv

LEMMA ClearAllSlotInv ==
  ASSUME SlotInv, NEW t \in Threads, ClearAll(t)
  PROVE  SlotInv'
<1>1. /\ statics' = [i \in Slots |-> 0] /\ dynamics' = <<>>
      /\ freed' = freed \cup Stored
      /\ nextValue' = nextValue /\ localId' = localId
  BY DEF ClearAll
<1>2. Sound(statics, dynamics, freed, localId, nextValue)
  BY DEF SlotInv
<1>3. 0 \in 0..MaxValues /\ 0 < nextValue /\ <<>> \in Seq(Values)
  BY ConstantsAssumption DEF SlotInv
<1>4. \A v \in Stored : v \in Values /\ v < nextValue
  <2>1. \A i \in DOMAIN statics : statics[i] # 0 =>
          statics[i] \in Values /\ statics[i] < nextValue
    BY <1>2, ValuesFacts DEF Sound
  <2>2. \A i \in DOMAIN dynamics :
          dynamics[i] \in Values /\ dynamics[i] < nextValue
    BY <1>2 DEF Sound
  <2> QED
    BY <2>1, <2>2 DEF Stored, Members
<1>5. 0 \notin freed \cup Stored
  BY <1>2, <1>4, ValuesFacts DEF Sound
<1>6. Sound(statics', dynamics', freed', localId', nextValue')
  BY <1>1, <1>2, <1>3, <1>4, <1>5 DEF Sound
<1> QED
  BY <1>1, <1>6 DEF SlotInv

\* One step per method; get() and the threads leave the slots alone.
LEMMA NextSlotInv == SlotInv /\ [Next]_vars => SlotInv'
<1> SUFFICES ASSUME SlotInv, [Next]_vars PROVE SlotInv'
  OBVIOUS
<1>1. ASSUME UNCHANGED slotVars PROVE SlotInv'
  BY <1>1 DEF slotVars, SlotInv
<1>2. ASSUME NEW t \in Threads, Reset(t) PROVE SlotInv'
  BY <1>2, ResetSlotInv
<1>3. ASSUME NEW t \in Threads, ResetNull(t) PROVE SlotInv'
  BY <1>3, RemoveSlotInv DEF ResetNull
<1>4. CASE Clear
  BY <1>4, RemoveSlotInv DEF Clear
<1>5. ASSUME NEW t \in Threads, ClearAll(t) PROVE SlotInv'
  BY <1>5, ClearAllSlotInv
<1>6. ASSUME NEW t \in Threads, Get(t) PROVE SlotInv'
  BY <1>1, <1>6 DEF Get
<1>7. ASSUME NEW t \in Threads, GetContinues(t) PROVE SlotInv'
  BY <1>1, <1>7 DEF GetContinues, GetLoad, GetCompare, GetVector, GetDone
<1>8. ASSUME NEW t \in Threads, Start(t) PROVE SlotInv'
  BY <1>1, <1>8 DEF Start
<1>9. ASSUME NEW t \in Threads, Finish(t) PROVE SlotInv'
  BY <1>1, <1>9 DEF Finish
<1>10. CASE UNCHANGED vars
  BY <1>1, <1>10 DEF vars, slotVars
<1> QED
  BY <1>2, <1>3, <1>4, <1>5, <1>6, <1>7, <1>8, <1>9, <1>10 DEF Next

LEMMA SlotInvIsEnough == SlotInv => SlotsAreSound
<1> SUFFICES ASSUME SlotInv PROVE SlotsAreSound
  OBVIOUS
<1>1. /\ Sound(statics, dynamics, freed, localId, nextValue)
      /\ dynamics # <<>> => vector
  BY DEF SlotInv
<1>2. DOMAIN statics = Slots
  BY <1>1 DEF Sound
<1>3. \A v \in Stored : v < nextValue /\ v \notin freed
  BY <1>1, <1>2 DEF Sound, Stored, Members
<1>4. ASSUME NEW v \in Stored, NEW w \in Stored, localId[v] = localId[w]
      PROVE  v = w
  <2>1. \A u \in Stored : \/ \E i \in Slots : u = statics[i] /\ statics[i] # 0
                          \/ \E i \in DOMAIN dynamics : u = dynamics[i]
    BY <1>2 DEF Stored, Members
  <2> QED
    BY <1>1, <1>4, <2>1 DEF Sound
<1> QED
  BY <1>1, <1>3, <1>4 DEF SlotsAreSound

\* What reset(), clear() and clearAll() do under the lock keeps the slots
\* sound, with any number of threads, slots and values: no stored Local was
\* deleted and no id has two, whichever thread's clear(id) runs late.
THEOREM SlotsStaySound == Spec => []SlotsAreSound
<1>1. Init => SlotInv
  BY InitSlotInv
<1>2. SlotInv /\ [Next]_vars => SlotInv'
  BY NextSlotInv
<1>3. SlotInv => SlotsAreSound
  BY SlotInvIsEnough
<1> QED
  BY <1>1, <1>2, <1>3, PTL DEF Spec
-----------------------------------------------------------------------------
(* Types, with the slots' own from SlotInv.                                *)

\* What get() finds in the vector is one of its values.
LEMMA FoundIsValue ==
  ASSUME SlotInv, NEW id, InVector(id) # {}
  PROVE  /\ First(InVector(id)) \in InVector(id)
         /\ dynamics[First(InVector(id))] \in Values
<1>1. dynamics \in Seq(Values)
  BY DEF SlotInv, Sound
<1>2. InVector(id) \in SUBSET Nat /\ InVector(id) \subseteq DOMAIN dynamics
  BY <1>1 DEF InVector
<1>3. First(InVector(id)) \in InVector(id)
  BY <1>2, FirstIsIn
<1> QED
  BY <1>1, <1>2, <1>3

\* The types of the variables SlotInv does not speak of, by group.
SlotTypes ==
  /\ vector \in BOOLEAN
  /\ localId \in [Values -> Ids \cup {MainId, NoId}]
  /\ maker \in [Values -> Threads]

LifeTypes ==
  /\ life \in [Threads -> {"new", "running", "finished"}]
  /\ idOf \in [Threads -> Ids \cup {MainId, NoId}]
  /\ watched \in [Threads -> Nat]
  /\ posted \in Seq(Ids \cup {NoId, MainId})
  /\ heirs \subseteq Threads

GetTypes ==
  /\ pc \in [Threads -> {"idle", "load", "compare", "vector", "returned"}]
  /\ cursor \in [Threads -> 0..(StaticCount + 1)]
  /\ \A t \in Threads : pc[t] = "compare" => cursor[t] \in Slots
  /\ seen \in [Threads -> 0..MaxValues]
  /\ got \in [Threads -> 0..MaxValues]
  /\ dirty \subseteq Threads
  /\ swept \subseteq Threads
  /\ fault \in {"none", "nullVector"}

LEMMA TypesTogether ==
  SlotInv => (TypeOK <=> SlotTypes /\ LifeTypes /\ GetTypes)
  BY DEF SlotInv, Sound, TypeOK, SlotTypes, LifeTypes, GetTypes

LEMMA InitTypes == Init => SlotTypes /\ LifeTypes /\ GetTypes
<1> SUFFICES ASSUME Init PROVE SlotTypes /\ LifeTypes /\ GetTypes
  OBVIOUS
<1>1. Main \in Threads /\ 0 \in 0..MaxValues /\ 0 \in Nat
  BY ConstantsAssumption DEF Threads
<1>2. SlotTypes
  BY <1>1 DEF Init, SlotTypes
<1>3. LifeTypes
  BY <1>1 DEF Init, LifeTypes
<1>4. GetTypes
  <2>1. 0 \in 0..(StaticCount + 1)
    BY ConstantsAssumption
  <2> QED
    BY <1>1, <2>1 DEF Init, GetTypes
<1> QED
  BY <1>2, <1>3, <1>4

\* The connections a reset() leaves are a number.
LEMMA WatchAfterIsNumber ==
  ASSUME LifeTypes, NEW t \in Threads, NEW r \in BOOLEAN, NEW a \in BOOLEAN
  PROVE  WatchAfter(t, r, a) \in Nat
  BY DEF WatchAfter, LifeTypes

LEMMA NextSlotTypes ==
  ASSUME SlotInv, SlotTypes, LifeTypes, Next
  PROVE  SlotTypes'
<1>1. ASSUME UNCHANGED <<vector, localId, maker>> PROVE SlotTypes'
  BY <1>1 DEF SlotTypes
<1>2. ASSUME NEW t \in Threads, Reset(t) PROVE SlotTypes'
  <2>1. nextValue \in Values
    BY <1>2, ConstantsAssumption DEF Reset, SlotInv, Values
  <2>2. vector' \in BOOLEAN
    BY <1>2 DEF Reset, Add, SlotTypes
  <2>3. /\ localId' = [localId EXCEPT ![nextValue] = idOf[t]]
        /\ maker' = [maker EXCEPT ![nextValue] = t]
    BY <1>2 DEF Reset
  <2>4. idOf[t] \in Ids \cup {MainId, NoId}
    BY DEF LifeTypes
  <2> QED
    BY <2>1, <2>2, <2>3, <2>4 DEF SlotTypes
<1>3. ASSUME NEW t \in Threads, ClearAll(t) PROVE SlotTypes'
  BY <1>3 DEF ClearAll, SlotTypes
<1>4. ASSUME NEW t \in Threads, ResetNull(t) PROVE SlotTypes'
  BY <1>1, <1>4 DEF ResetNull
<1>5. CASE Clear
  BY <1>1, <1>5 DEF Clear
<1>6. ASSUME UNCHANGED slotVars PROVE SlotTypes'
  BY <1>1, <1>6 DEF slotVars
<1>7. ASSUME NEW t \in Threads, Get(t) \/ GetContinues(t) \/ Start(t) \/ Finish(t)
      PROVE  SlotTypes'
  BY <1>6, <1>7 DEF Get, GetContinues, GetLoad, GetCompare, GetVector, GetDone,
                    Start, Finish
<1>8. CASE UNCHANGED vars
  BY <1>6, <1>8 DEF vars, slotVars
<1> QED
  BY <1>2, <1>3, <1>4, <1>5, <1>7, <1>8 DEF Next

LEMMA NextLifeTypes ==
  ASSUME SlotInv, LifeTypes, Next
  PROVE  LifeTypes'
<1>1. ASSUME UNCHANGED <<lifeVars, posted>>, watched' \in [Threads -> Nat]
      PROVE  LifeTypes'
  BY <1>1 DEF LifeTypes, lifeVars
<1>2. ASSUME NEW t \in Threads, Reset(t) PROVE LifeTypes'
  <2>1. WatchAfter(t, Deleted(idOf[t]) # {}, TRUE) \in Nat
    BY WatchAfterIsNumber
  <2>2. watched' \in [Threads -> Nat]
    BY <1>2, <2>1 DEF Reset, LifeTypes
  <2> QED
    BY <1>1, <1>2, <2>2 DEF Reset
<1>3. ASSUME NEW t \in Threads, ResetNull(t) PROVE LifeTypes'
  <2>1. WatchAfter(t, TRUE, FALSE) \in Nat
    BY WatchAfterIsNumber
  <2>2. watched' \in [Threads -> Nat]
    BY <1>3, <2>1 DEF ResetNull, LifeTypes
  <2> QED
    BY <1>1, <1>3, <2>2 DEF ResetNull
<1>4. CASE Clear
  <2>1. posted' \in Seq(Ids \cup {NoId, MainId})
    BY <1>4 DEF Clear, LifeTypes
  <2>2. watched' \in [Threads -> Nat]
    BY <1>4 DEF Clear, LifeTypes
  <2> QED
    BY <1>4, <2>1, <2>2 DEF Clear, LifeTypes, lifeVars
<1>5. ASSUME NEW t \in Threads, Start(t) PROVE LifeTypes'
  <2>1. PICK id \in Ids :
          /\ idOf' = [idOf EXCEPT ![t] = id]
          /\ heirs' = IF LocalsOf(id) # {} \/ id \in Members(posted)
                      THEN heirs \cup {t} ELSE heirs
    BY <1>5 DEF Start
  <2>2. heirs' \subseteq Threads
    BY <2>1 DEF LifeTypes
  <2> QED
    BY <1>5, <2>1, <2>2 DEF Start, LifeTypes
<1>6. ASSUME NEW t \in Threads, Finish(t) PROVE LifeTypes'
  <2> DEFINE I == Ids \cup {NoId, MainId}
             p == [i \in 1..watched[t] |-> idOf[t]]
  <2>1. watched[t] \in Nat /\ idOf[t] \in I /\ posted \in Seq(I)
    BY DEF LifeTypes
  <2>2. p \in Seq(I)
    BY <2>1
  <2> HIDE DEF p, I
  <2>3. posted \o p \in Seq(I)
    BY <2>1, <2>2, ConcatProperties
  <2> QED
    BY <1>6, <2>3 DEF Finish, LifeTypes, p, I
<1>7. ASSUME UNCHANGED <<lifeVars, watched, posted>> PROVE LifeTypes'
  BY <1>7 DEF LifeTypes, lifeVars
<1>8. ASSUME NEW t \in Threads, ClearAll(t) \/ Get(t) \/ GetContinues(t)
      PROVE  LifeTypes'
  BY <1>7, <1>8 DEF ClearAll, Get, GetContinues, GetLoad, GetCompare, GetVector,
                    GetDone
<1>9. CASE UNCHANGED vars
  BY <1>7, <1>9 DEF vars, lifeVars
<1> QED
  BY <1>2, <1>3, <1>4, <1>5, <1>6, <1>8, <1>9 DEF Next

LEMMA ReturnTypes ==
  ASSUME GetTypes, NEW t \in Threads, NEW v \in 0..MaxValues, Return(t, v)
  PROVE  /\ pc' \in [Threads -> {"idle", "load", "compare", "vector", "returned"}]
         /\ cursor' \in [Threads -> 0..(StaticCount + 1)]
         /\ \A u \in Threads : pc'[u] = "compare" => cursor'[u] \in Slots
         /\ seen' \in [Threads -> 0..MaxValues]
         /\ got' \in [Threads -> 0..MaxValues]
  BY ConstantsAssumption DEF Return, GetTypes

LEMMA NextGetTypes ==
  ASSUME SlotInv, GetTypes, Next
  PROVE  GetTypes'
<1> USE DEF GetTypes
<1>1. ASSUME UNCHANGED <<getVars, swept, fault>> PROVE GetTypes'
  BY <1>1 DEF getVars
<1>2. ASSUME NEW t \in Threads, ClearAll(t) PROVE GetTypes'
  BY <1>2 DEF ClearAll, getVars
<1>3. ASSUME NEW t \in Threads, Get(t) PROVE GetTypes'
  <2>1. 1 \in 0..(StaticCount + 1)
    BY ConstantsAssumption
  <2> QED
    BY <1>3, <2>1 DEF Get
<1>4. ASSUME NEW t \in Threads, GetLoad(t) PROVE GetTypes'
  <2>1. UNCHANGED <<dirty, swept, fault>>
    BY <1>4 DEF GetLoad
  <2>2. CASE cursor[t] \in Slots
    <3>1. statics[cursor[t]] \in 0..MaxValues
      BY <2>2 DEF SlotInv, Sound
    <3> QED
      BY <1>4, <2>1, <2>2, <3>1 DEF GetLoad
  <2>3. CASE cursor[t] \notin Slots /\ vector
    BY <1>4, <2>1, <2>3 DEF GetLoad
  <2>4. CASE cursor[t] \notin Slots /\ ~vector
    <3>1. Return(t, 0) /\ 0 \in 0..MaxValues
      BY <1>4, <2>4, ConstantsAssumption DEF GetLoad
    <3> QED
      BY <2>1, <3>1, ReturnTypes
  <2> QED
    BY <2>2, <2>3, <2>4
<1>5. ASSUME NEW t \in Threads, GetCompare(t) PROVE GetTypes'
  <2>1. UNCHANGED <<swept, fault>> /\ dirty' \subseteq Threads
    BY <1>5 DEF GetCompare
  <2>2. CASE Return(t, seen[t])
    BY <2>1, <2>2, ReturnTypes
  <2>3. CASE GoOn(t)
    <3>1. cursor[t] + 1 \in 0..(StaticCount + 1) /\ 0 \in 0..MaxValues
      BY <1>5, ConstantsAssumption DEF GetCompare, Slots
    <3> QED
      BY <2>1, <2>3, <3>1 DEF GoOn
  <2> QED
    BY <1>5, <2>2, <2>3 DEF GetCompare
<1>6. ASSUME NEW t \in Threads, GetVector(t) PROVE GetTypes'
  <2> DEFINE mine == InVector(idOf[t])
             v == IF mine = {} THEN 0 ELSE dynamics[First(mine)]
  <2>1. UNCHANGED <<dirty, swept>>
    BY <1>6 DEF GetVector
  <2>2. CASE vector
    <3>1. Return(t, v) /\ fault' = fault
      BY <1>6, <2>2 DEF GetVector
    <3>2. v \in 0..MaxValues
      <4>1. CASE mine = {}
        BY <4>1, ConstantsAssumption
      <4>2. CASE mine # {}
        <5>1. dynamics[First(mine)] \in Values
          BY <4>2, FoundIsValue
        <5> QED
          BY <4>2, <5>1, ValuesFacts
      <4> QED
        BY <4>1, <4>2
    <3> QED
      BY <2>1, <3>1, <3>2, ReturnTypes
  <2>3. CASE ~vector
    BY <1>6, <2>1, <2>3 DEF GetVector
  <2> QED
    BY <2>2, <2>3
<1>7. ASSUME NEW t \in Threads, GetDone(t) PROVE GetTypes'
  BY <1>7, ConstantsAssumption DEF GetDone
<1>8. ASSUME NEW t \in Threads, Reset(t) \/ ResetNull(t) \/ Start(t) \/ Finish(t)
      PROVE  GetTypes'
  BY <1>1, <1>8 DEF Reset, ResetNull, Start, Finish
<1>9. CASE Clear
  BY <1>1, <1>9 DEF Clear
<1>10. CASE UNCHANGED vars
  BY <1>1, <1>10 DEF vars, getVars
<1> QED
  BY <1>2, <1>3, <1>4, <1>5, <1>6, <1>7, <1>8, <1>9, <1>10
     DEF Next, GetContinues

LEMMA NextTypeOK == SlotInv /\ TypeOK /\ [Next]_vars => TypeOK'
<1> SUFFICES ASSUME SlotInv, TypeOK, [Next]_vars PROVE TypeOK'
  OBVIOUS
<1>1. CASE Next
  <2>1. SlotInv'
    BY <1>1, NextSlotInv
  <2>2. SlotTypes' /\ LifeTypes' /\ GetTypes'
    BY <1>1, TypesTogether, NextSlotTypes, NextLifeTypes, NextGetTypes
  <2> QED
    BY <2>1, <2>2 DEF SlotInv, Sound, TypeOK, SlotTypes, LifeTypes, GetTypes
<1>2. CASE UNCHANGED vars
  BY <1>2 DEF vars, TypeOK
<1> QED
  BY <1>1, <1>2

\* Every variable keeps its type: get() reads no slot behind the last, and it
\* returns nullptr or a value passed to reset().
THEOREM TypeCorrect == Spec => []TypeOK
<1>1. Init => SlotInv /\ TypeOK
  BY InitSlotInv, InitTypes, TypesTogether
<1>2. SlotInv /\ TypeOK /\ [Next]_vars => SlotInv' /\ TypeOK'
  BY NextSlotInv, NextTypeOK
<1> QED
  BY <1>1, <1>2, PTL DEF Spec
-----------------------------------------------------------------------------
(* get() beside reset(), clear() and clearAll().                           *)

\* What is stored in these slots and this vector.
StoredIn(slots, rest) == (Members(slots) \ {0}) \cup Members(rest)

LEMMA StoredFacts ==
  ASSUME SlotInv
  PROVE  /\ \A v \in Stored : v \in Values /\ v < nextValue /\ v \notin freed
         /\ \A v \in freed : v < nextValue
         /\ \A i \in Slots : statics[i] # 0 => statics[i] \in Stored
         /\ \A i \in DOMAIN dynamics : dynamics[i] \in Stored
         /\ \A i \in Slots : statics[i] \in 0..MaxValues /\ statics[i] < nextValue
         /\ 0 \notin Stored
<1>1. Sound(statics, dynamics, freed, localId, nextValue)
  BY DEF SlotInv
<1>2. DOMAIN statics = Slots
  BY <1>1 DEF Sound
<1>3. /\ \A i \in Slots : statics[i] # 0 => statics[i] \in Stored
      /\ \A i \in DOMAIN dynamics : dynamics[i] \in Stored
  BY <1>2 DEF Stored, Members
<1>4. \A i \in Slots : statics[i] \in 0..MaxValues
  BY <1>1 DEF Sound
<1>5. \A i \in DOMAIN dynamics : dynamics[i] \in Values
  BY <1>1 DEF Sound
<1>6. \A v \in Stored : \/ \E i \in Slots : v = statics[i] /\ statics[i] # 0
                        \/ \E i \in DOMAIN dynamics : v = dynamics[i]
  BY <1>2 DEF Stored, Members
<1>7. \A v \in Stored : v \in Values
  BY <1>4, <1>5, <1>6, ValuesFacts
<1>8. \A v \in Stored : v < nextValue /\ v \notin freed
  BY <1>1, <1>6 DEF Sound
<1> QED
  BY <1>1, <1>3, <1>4, <1>7, <1>8, ValuesFacts DEF Sound

\* removeLocal(id) empties a slot at most, and stores nothing.
LEMMA RemovalStoresNothing ==
  ASSUME SlotInv, NEW id
  PROVE  /\ StoredIn(Removed(id), Remaining(id)) \subseteq Stored
         /\ \A i \in Slots : Removed(id)[i] \in {0, statics[i]}
<1>1. /\ statics \in [Slots -> 0..MaxValues] /\ dynamics \in Seq(Values)
      /\ DOMAIN statics = Slots
  BY DEF SlotInv, Sound
<1>2. /\ DOMAIN Removed(id) = Slots
      /\ \A i \in Slots : Removed(id)[i] \in {0, statics[i]}
  BY <1>1 DEF Removed
<1>3. \A i \in DOMAIN Remaining(id) :
        \E j \in DOMAIN dynamics : Remaining(id)[i] = dynamics[j]
  <2>1. CASE InSlots(id) # {} \/ InVector(id) = {}
    BY <2>1 DEF Remaining
  <2>2. CASE ~(InSlots(id) # {} \/ InVector(id) = {})
    <3> DEFINE k == First(InVector(id))
    <3>1. k \in DOMAIN dynamics
      <4>1. k \in InVector(id)
        BY <2>2, FoundIsValue
      <4> QED
        BY <4>1 DEF InVector
    <3>2. Remaining(id) = Without(dynamics, k)
      BY <2>2 DEF Remaining, Without
    <3> HIDE DEF k
    <3>3. \A i \in DOMAIN Without(dynamics, k) :
            /\ Before(i, k) \in DOMAIN dynamics
            /\ Without(dynamics, k)[i] = dynamics[Before(i, k)]
      BY <1>1, <3>1, Erased
    <3> QED
      BY <3>2, <3>3
  <2> QED
    BY <2>1, <2>2
<1>4. Members(Removed(id)) \ {0} \subseteq Stored
  BY <1>1, <1>2 DEF Members, Stored
<1>5. Members(Remaining(id)) \subseteq Stored
  BY <1>3 DEF Members, Stored
<1> QED
  BY <1>2, <1>4, <1>5 DEF StoredIn

\* addLocal(id, v) stores v, and moves nothing.
LEMMA AdditionStoresOne ==
  ASSUME NEW s \in [Slots -> 0..MaxValues], NEW d \in Seq(Values),
         NEW v \in Values, Add(s, d, v)
  PROVE  /\ Stored' \subseteq StoredIn(s, d) \cup {v}
         /\ \A i \in Slots : statics'[i] \in {s[i], v}
<1>1. CASE FreeSlots(s) # {}
  <2>1. PICK k : statics' = [s EXCEPT ![k] = v] /\ dynamics' = d
    BY <1>1 DEF Add
  <2>2. DOMAIN statics' = Slots /\ \A i \in Slots : statics'[i] \in {s[i], v}
    BY <2>1
  <2> QED
    BY <2>1, <2>2 DEF Stored, StoredIn, Members
<1>2. CASE FreeSlots(s) = {}
  <2>1. statics' = s /\ dynamics' = Append(d, v)
    BY <1>2 DEF Add
  <2>2. \A i \in DOMAIN Append(d, v) :
          \/ Append(d, v)[i] = v
          \/ i \in DOMAIN d /\ Append(d, v)[i] = d[i]
    BY AppendProperties
  <2> QED
    BY <2>1, <2>2 DEF Stored, StoredIn, Members
<1> QED
  BY <1>1, <1>2

\* What a method of thread t does to the slots: it takes away, and stores at
\* most a new value of its own.
SlotStep(t, N) ==
  /\ N \subseteq {nextValue}
  /\ Stored' \subseteq Stored \cup N
  /\ \A i \in Slots : statics'[i] \in {0, statics[i]} \cup N
  /\ \A v \in N : localId'[v] = idOf[t] /\ maker'[v] = t
  /\ \A v \in Values : v < nextValue => /\ localId'[v] = localId[v]
                                        /\ maker'[v] = maker[v]
  /\ nextValue' \in Nat /\ nextValue <= nextValue'

LEMMA ResetSteps ==
  ASSUME SlotInv, TypeOK, NEW t \in Threads, Reset(t)
  PROVE  SlotStep(t, {nextValue})
<1> DEFINE id == idOf[t]
           s == Removed(id)
           d == Remaining(id)
<1>1. /\ StoredIn(s, d) \subseteq Stored
      /\ \A i \in Slots : s[i] \in {0, statics[i]}
  BY RemovalStoresNothing
<1>2. s \in [Slots -> 0..MaxValues] /\ d \in Seq(Values)
  BY RemovalIsSound DEF Sound
<1>3. /\ Add(s, d, nextValue) /\ localId' = [localId EXCEPT ![nextValue] = id]
      /\ maker' = [maker EXCEPT ![nextValue] = t]
      /\ nextValue' = nextValue + 1
  BY DEF Reset
<1>4. nextValue \in Values /\ nextValue \in Nat
  BY ConstantsAssumption DEF Reset, SlotInv, Values
<1>5. localId \in [Values -> Ids \cup {MainId, NoId}] /\ maker \in [Values -> Threads]
  BY DEF TypeOK
<1> HIDE DEF id, s, d
<1>6. /\ Stored' \subseteq StoredIn(s, d) \cup {nextValue}
      /\ \A i \in Slots : statics'[i] \in {s[i], nextValue}
  BY <1>2, <1>3, <1>4, AdditionStoresOne
<1>7. /\ localId'[nextValue] = id /\ maker'[nextValue] = t
      /\ \A v \in Values : v < nextValue =>
           localId'[v] = localId[v] /\ maker'[v] = maker[v]
  BY <1>3, <1>4, <1>5 DEF Values
<1>8. nextValue' \in Nat /\ nextValue <= nextValue'
  BY <1>3, <1>4
<1> QED
  BY <1>1, <1>6, <1>7, <1>8 DEF SlotStep, id

LEMMA RemoveSteps ==
  ASSUME SlotInv, NEW t, NEW id,
         statics' = Removed(id), dynamics' = Remaining(id),
         UNCHANGED <<localId, nextValue, maker>>
  PROVE  SlotStep(t, {})
<1>1. /\ StoredIn(Removed(id), Remaining(id)) \subseteq Stored
      /\ \A i \in Slots : Removed(id)[i] \in {0, statics[i]}
  BY RemovalStoresNothing
<1>2. Stored' = StoredIn(Removed(id), Remaining(id))
  BY DEF Stored, StoredIn
<1>3. nextValue \in Nat
  BY ConstantsAssumption DEF SlotInv
<1> QED
  BY <1>1, <1>2, <1>3 DEF SlotStep

LEMMA ClearAllSteps ==
  ASSUME SlotInv, NEW t \in Threads, ClearAll(t)
  PROVE  SlotStep(t, {})
<1>1. /\ statics' = [i \in Slots |-> 0] /\ dynamics' = <<>>
      /\ UNCHANGED <<localId, nextValue, maker>>
  BY DEF ClearAll
<1>2. Stored' = {}
  BY <1>1 DEF Stored, Members
<1>3. nextValue \in Nat
  BY ConstantsAssumption DEF SlotInv
<1> QED
  BY <1>1, <1>2, <1>3 DEF SlotStep
\* What a running thread has stored after a method of t, it had before, or it
\* is t and has just stored it.
LEMMA OnlyOwnAreAdded ==
  ASSUME GetInv, NEW t \in Threads, life[t] = "running", NEW N, SlotStep(t, N),
         UNCHANGED lifeVars,
         NEW u \in Threads, life[u] = "running",
         NEW v \in LocalsOf(idOf[u])'
  PROVE  \/ v \in LocalsOf(idOf[u]) /\ maker'[v] = maker[v]
         \/ u = t /\ v \in N /\ maker'[v] = t
<1>1. v \in Stored' /\ localId'[v] = idOf[u]
  BY DEF LocalsOf, lifeVars
<1>2. CASE v \in Stored
  <2>1. v \in Values /\ v < nextValue
    BY <1>2, StoredFacts DEF GetInv
  <2>2. localId'[v] = localId[v] /\ maker'[v] = maker[v]
    BY <2>1 DEF SlotStep
  <2> QED
    BY <1>1, <1>2, <2>2 DEF LocalsOf
<1>3. CASE v \in N
  <2>1. localId'[v] = idOf[t] /\ maker'[v] = t
    BY <1>3 DEF SlotStep
  <2>2. u = t
    BY <1>1, <2>1 DEF GetInv, IdsAreDistinct
  <2> QED
    BY <1>3, <2>1, <2>2
<1> QED
  BY <1>1, <1>2, <1>3 DEF SlotStep

\* A slot that holds the Local of another running thread after a method of t
\* held it before.
LEMMA OthersStay ==
  ASSUME GetInv, SlotInv', NEW t \in Threads, life[t] = "running", NEW N,
         SlotStep(t, N), UNCHANGED lifeVars,
         NEW u \in Threads, life[u] = "running", u # t,
         NEW i \in Slots, statics'[i] \in LocalsOf(idOf[u])'
  PROVE  statics'[i] = statics[i] /\ statics[i] \in LocalsOf(idOf[u])
<1> DEFINE v == statics'[i]
<1>1. v \in LocalsOf(idOf[u])
  BY OnlyOwnAreAdded
<1>2. v \in Stored
  BY <1>1 DEF LocalsOf
<1>3. v # 0 /\ v \in Nat /\ v < nextValue /\ nextValue \in Nat
  <2>1. v \in Values /\ v < nextValue
    BY <1>2, StoredFacts DEF GetInv
  <2>2. nextValue \in Nat
    BY ConstantsAssumption DEF GetInv, SlotInv
  <2> QED
    BY <2>1, <2>2, ValuesFacts
<1>4. v \in {0, statics[i]} \cup N /\ N \subseteq {nextValue}
  BY DEF SlotStep
<1> HIDE DEF v
<1>5. v = statics[i]
  BY <1>3, <1>4
<1> QED
  BY <1>1, <1>5 DEF v

\* The part of GetInv that speaks of the slots and of get().
ViewsAgree ==
  /\ IdsAreDistinct
  /\ OwnIsMade
  /\ LoadedWasStored
  /\ \A t \in Threads : got[t] < nextValue
  /\ GotIsMade
  /\ OwnIsAhead

LEMMA SlotStepAgrees ==
  ASSUME GetInv, SlotInv', NEW t \in Threads, Idle(t), NEW N, SlotStep(t, N),
         UNCHANGED <<lifeVars, getVars>>
  PROVE  ViewsAgree'
<1>1. /\ life' = life /\ idOf' = idOf /\ heirs' = heirs /\ pc' = pc
      /\ cursor' = cursor /\ seen' = seen /\ got' = got /\ dirty' = dirty
      /\ UNCHANGED lifeVars
  BY DEF lifeVars, getVars
<1>2. life[t] = "running" /\ pc[t] = "idle"
  BY DEF Idle
<1>3. \A u \in Threads : pc[u] # "idle" => life[u] = "running" /\ u # t
  BY <1>2 DEF GetInv, IdsAreDistinct
<1>4. \A v \in 0..MaxValues : v # 0 /\ v < nextValue =>
        localId'[v] = localId[v] /\ maker'[v] = maker[v]
  BY ValuesFacts DEF SlotStep
<1>5. \A n \in Nat : n < nextValue => n < nextValue'
  BY ConstantsAssumption DEF SlotStep, GetInv, SlotInv
<1>6. \A u \in Threads : /\ seen[u] \in 0..MaxValues /\ got[u] \in 0..MaxValues
                         /\ seen[u] \in Nat /\ got[u] \in Nat
  BY ValuesFacts DEF GetInv, TypeOK
<1>7. IdsAreDistinct'
  BY <1>1 DEF GetInv, IdsAreDistinct
<1>8. OwnIsMade'
  <2> SUFFICES ASSUME NEW u \in Threads \ heirs, life[u] = "running",
                      NEW v \in LocalsOf(idOf[u])'
               PROVE  maker'[v] = u
    BY <1>1 DEF OwnIsMade
  <2> QED
    BY <1>1, <1>2, OnlyOwnAreAdded DEF GetInv, OwnIsMade
<1>9. LoadedWasStored'
  <2> SUFFICES ASSUME NEW u \in Threads, pc[u] = "compare"
      PROVE  /\ seen[u] < nextValue'
             /\ Matches(u, seen[u])' /\ u \notin heirs => maker'[seen[u]] = u
             /\ cursor[u] \in Slots
             /\ statics'[cursor[u]] \in LocalsOf(idOf[u])' =>
                  statics'[cursor[u]] = seen[u]
    BY <1>1 DEF LoadedWasStored
  <2>1. life[u] = "running" /\ u # t
    BY <1>3
  <2>2. /\ seen[u] < nextValue
        /\ Matches(u, seen[u]) /\ u \notin heirs => maker[seen[u]] = u
        /\ cursor[u] \in Slots
        /\ statics[cursor[u]] \in LocalsOf(idOf[u]) =>
             statics[cursor[u]] = seen[u]
    BY DEF GetInv, LoadedWasStored
  <2>3. seen[u] < nextValue'
    BY <1>5, <1>6, <2>2
  <2>4. Matches(u, seen[u])' /\ u \notin heirs => maker'[seen[u]] = u
    BY <1>1, <1>4, <1>6, <2>2 DEF Matches
  <2>5. ASSUME statics'[cursor[u]] \in LocalsOf(idOf[u])'
        PROVE  statics'[cursor[u]] = seen[u]
    BY <1>1, <1>2, <2>1, <2>2, <2>5, OthersStay
  <2> QED
    BY <2>2, <2>3, <2>4, <2>5
<1>10. \A u \in Threads : got'[u] < nextValue'
  BY <1>1, <1>5, <1>6 DEF GetInv
<1>11. GotIsMade'
  BY <1>1, <1>4, <1>6 DEF GetInv, GetIsOwn, GotIsMade
<1>12. OwnIsAhead'
  <2> SUFFICES ASSUME NEW u \in Threads, pc[u] \in {"load", "compare", "vector"},
                      NEW i \in Slots, i < cursor[u],
                      statics'[i] \in LocalsOf(idOf[u])'
               PROVE  FALSE
    BY <1>1 DEF OwnIsAhead
  <2>1. life[u] = "running" /\ u # t
    BY <1>3
  <2>2. statics[i] \in LocalsOf(idOf[u])
    BY <1>1, <1>2, <2>1, OthersStay
  <2> QED
    BY <2>2 DEF GetInv, GetIsOwn, OwnIsAhead
<1> QED
  BY <1>7, <1>8, <1>9, <1>10, <1>11, <1>12 DEF ViewsAgree
\* Threads that are not inside get() need nothing, and a step of get() changes
\* the place of one thread only.
LEMMA GetStepAgrees ==
  ASSUME GetInv, NEW t \in Threads, life[t] = "running",
         UNCHANGED <<lifeVars, slotVars>>,
         NEW p, NEW c, NEW s, NEW g, dirty' \ {t} = dirty \ {t},
         pc' = [pc EXCEPT ![t] = p], cursor' = [cursor EXCEPT ![t] = c],
         seen' = [seen EXCEPT ![t] = s], got' = [got EXCEPT ![t] = g],
         g < nextValue,
         t \notin heirs \cup dirty' /\ g # 0 => maker[g] = t,
         p = "compare" =>
           /\ s < nextValue
           /\ Matches(t, s) /\ t \notin heirs => maker[s] = t
           /\ c \in Slots
           /\ statics[c] \in LocalsOf(idOf[t]) => statics[c] = s,
         p \in {"load", "compare", "vector"} =>
           \A i \in Slots : i < c => statics[i] \notin LocalsOf(idOf[t])
  PROVE  ViewsAgree'
<1>1. /\ life' = life /\ idOf' = idOf /\ heirs' = heirs /\ statics' = statics
      /\ dynamics' = dynamics /\ localId' = localId /\ nextValue' = nextValue
      /\ maker' = maker
  BY DEF lifeVars, slotVars
<1>2. \A u \in Threads : LocalsOf(idOf[u])' = LocalsOf(idOf[u])
  BY <1>1 DEF LocalsOf, Stored
<1>3. /\ \A u \in Threads : pc'[u] = IF u = t THEN p ELSE pc[u]
      /\ \A u \in Threads : cursor'[u] = IF u = t THEN c ELSE cursor[u]
      /\ \A u \in Threads : seen'[u] = IF u = t THEN s ELSE seen[u]
      /\ \A u \in Threads : got'[u] = IF u = t THEN g ELSE got[u]
  BY DEF GetInv, TypeOK
<1>4. IdsAreDistinct'
  BY <1>1, <1>3 DEF GetInv, IdsAreDistinct
<1>5. OwnIsMade'
  BY <1>1, <1>2 DEF GetInv, OwnIsMade
<1>6. LoadedWasStored'
  <2> SUFFICES ASSUME NEW u \in Threads, pc'[u] = "compare"
      PROVE  /\ seen'[u] < nextValue
             /\ Matches(u, seen'[u]) /\ u \notin heirs => maker[seen'[u]] = u
             /\ cursor'[u] \in Slots
             /\ statics[cursor'[u]] \in LocalsOf(idOf[u]) =>
                  statics[cursor'[u]] = seen'[u]
    BY <1>1, <1>2 DEF LoadedWasStored, Matches
  <2>1. CASE u = t
    BY <1>3, <2>1
  <2>2. CASE u # t
    BY <1>3, <2>2 DEF GetInv, LoadedWasStored
  <2> QED
    BY <2>1, <2>2
<1>7. \A u \in Threads : got'[u] < nextValue'
  BY <1>1, <1>3 DEF GetInv
<1>8. GotIsMade'
  <2> SUFFICES ASSUME NEW u \in Threads \ (heirs \cup dirty'), got'[u] # 0
               PROVE  maker[got'[u]] = u
    BY <1>1 DEF GotIsMade
  <2>1. CASE u = t
    BY <1>3, <2>1
  <2>2. CASE u # t
    BY <1>3, <2>2 DEF GetInv, GetIsOwn, GotIsMade
  <2> QED
    BY <2>1, <2>2
<1>9. OwnIsAhead'
  <2> SUFFICES ASSUME NEW u \in Threads, pc'[u] \in {"load", "compare", "vector"},
                      NEW i \in Slots, i < cursor'[u]
               PROVE  statics[i] \notin LocalsOf(idOf[u])
    BY <1>1, <1>2 DEF OwnIsAhead
  <2>1. CASE u = t
    BY <1>3, <2>1
  <2>2. CASE u # t
    BY <1>3, <2>2 DEF GetInv, GetIsOwn, OwnIsAhead
  <2> QED
    BY <2>1, <2>2
<1> QED
  BY <1>4, <1>5, <1>6, <1>7, <1>8, <1>9 DEF ViewsAgree
\* The names of the variables' values, for a step that leaves them.
LEMMA ExceptSame ==
  ASSUME TypeOK, NEW t \in Threads
  PROVE  /\ pc = [pc EXCEPT ![t] = pc[t]]
         /\ cursor = [cursor EXCEPT ![t] = cursor[t]]
         /\ seen = [seen EXCEPT ![t] = seen[t]]
         /\ got = [got EXCEPT ![t] = got[t]]
  BY DEF TypeOK

\* A Local of this id that is stored, of a thread that is no heir, is its own.
LEMMA StoredIsOwn ==
  ASSUME GetInv, NEW t \in Threads \ heirs, life[t] = "running",
         NEW v \in Stored, localId[v] = idOf[t]
  PROVE  maker[v] = t
  BY DEF GetInv, OwnIsMade, LocalsOf

LEMMA GetAgrees ==
  ASSUME GetInv, NEW t \in Threads, Get(t)
  PROVE  ViewsAgree'
<1>1. /\ pc' = [pc EXCEPT ![t] = "load"] /\ cursor' = [cursor EXCEPT ![t] = 1]
      /\ seen' = [seen EXCEPT ![t] = seen[t]]
      /\ got' = [got EXCEPT ![t] = got[t]]
      /\ dirty' = dirty /\ life[t] = "running" /\ UNCHANGED <<lifeVars, slotVars>>
  BY ExceptSame DEF Get, Idle, GetInv
<1>2. /\ got[t] < nextValue
      /\ t \notin heirs \cup dirty' /\ got[t] # 0 => maker[got[t]] = t
  BY <1>1 DEF GetInv, GetIsOwn, GotIsMade
<1>3. \A i \in Slots : ~(i < 1)
  BY ConstantsAssumption DEF Slots
<1>4. dirty' \ {t} = dirty \ {t}
  BY <1>1
<1> QED
  BY <1>1, <1>2, <1>3, <1>4, GetStepAgrees

LEMMA GetLoadAgrees ==
  ASSUME GetInv, NEW t \in Threads, GetLoad(t)
  PROVE  ViewsAgree'
<1> DEFINE c == cursor[t]
<1>1. /\ pc[t] = "load" /\ dirty' = dirty /\ UNCHANGED <<lifeVars, slotVars>>
      /\ dirty' \ {t} = dirty \ {t}
  BY DEF GetLoad
<1>2. life[t] = "running"
  BY <1>1 DEF GetInv, IdsAreDistinct
<1>3. /\ got[t] < nextValue
      /\ t \notin heirs \cup dirty' /\ got[t] # 0 => maker[got[t]] = t
  BY <1>1 DEF GetInv, GetIsOwn, GotIsMade
<1>4. \A i \in Slots : i < c => statics[i] \notin LocalsOf(idOf[t])
  BY <1>1 DEF GetInv, GetIsOwn, OwnIsAhead
<1>5. CASE c \in Slots
  <2> DEFINE s == statics[c]
  <2>1. /\ pc' = [pc EXCEPT ![t] = "compare"]
        /\ cursor' = [cursor EXCEPT ![t] = c]
        /\ seen' = [seen EXCEPT ![t] = s]
        /\ got' = [got EXCEPT ![t] = got[t]]
    BY <1>5, ExceptSame DEF GetLoad, GetInv
  <2>2. s < nextValue /\ (s # 0 => s \in Stored)
    BY <1>5, StoredFacts DEF GetInv
  <2>3. Matches(t, s) /\ t \notin heirs => maker[s] = t
    BY <1>2, <2>2, StoredIsOwn DEF Matches
  <2> HIDE DEF c
  <2> QED
    BY <1>1, <1>2, <1>3, <1>4, <1>5, <2>1, <2>2, <2>3, GetStepAgrees
<1>6. CASE c \notin Slots /\ vector
  <2>1. /\ pc' = [pc EXCEPT ![t] = "vector"]
        /\ cursor' = [cursor EXCEPT ![t] = c]
        /\ seen' = [seen EXCEPT ![t] = seen[t]]
        /\ got' = [got EXCEPT ![t] = got[t]]
    BY <1>6, ExceptSame DEF GetLoad, GetInv
  <2> HIDE DEF c
  <2> QED
    BY <1>1, <1>2, <1>3, <1>4, <2>1, GetStepAgrees
<1>7. CASE c \notin Slots /\ ~vector
  <2>1. /\ pc' = [pc EXCEPT ![t] = "returned"]
        /\ cursor' = [cursor EXCEPT ![t] = 0]
        /\ seen' = [seen EXCEPT ![t] = 0]
        /\ got' = [got EXCEPT ![t] = 0]
    BY <1>7 DEF GetLoad, Return
  <2>2. 0 < nextValue
    BY ConstantsAssumption DEF GetInv, SlotInv
  <2> QED
    BY <1>1, <1>2, <2>1, <2>2, GetStepAgrees
<1> QED
  BY <1>5, <1>6, <1>7

\* The pointer that is read leads to a value of t, or to a deleted Local; and
\* if get() goes on, then the slot does not hold the Local of t.
LEMMA GetCompareAgrees ==
  ASSUME GetInv, NEW t \in Threads, GetCompare(t)
  PROVE  ViewsAgree'
<1> DEFINE v == seen[t]
           c == cursor[t]
<1>1. /\ pc[t] = "compare" /\ UNCHANGED <<lifeVars, slotVars>>
      /\ dirty' = IF v \in freed THEN dirty \cup {t} ELSE dirty
      /\ dirty' \ {t} = dirty \ {t}
  BY DEF GetCompare
<1>2. life[t] = "running"
  BY <1>1 DEF GetInv, IdsAreDistinct
<1>3. /\ v < nextValue
      /\ Matches(t, v) /\ t \notin heirs => maker[v] = t
      /\ c \in Slots
      /\ statics[c] \in LocalsOf(idOf[t]) => statics[c] = v
  BY <1>1 DEF GetInv, LoadedWasStored
<1>4. CASE Return(t, v) /\ (Matches(t, v) \/ v \in freed)
  <2>1. /\ pc' = [pc EXCEPT ![t] = "returned"]
        /\ cursor' = [cursor EXCEPT ![t] = 0]
        /\ seen' = [seen EXCEPT ![t] = 0]
        /\ got' = [got EXCEPT ![t] = v]
    BY <1>4 DEF Return
  <2>2. t \notin heirs \cup dirty' /\ v # 0 => maker[v] = t
    BY <1>1, <1>3, <1>4
  <2> HIDE DEF v, c
  <2> QED
    BY <1>1, <1>2, <1>3, <2>1, <2>2, GetStepAgrees
<1>5. CASE GoOn(t) /\ (~Matches(t, v) \/ v \in freed)
  <2>1. /\ pc' = [pc EXCEPT ![t] = "load"]
        /\ cursor' = [cursor EXCEPT ![t] = c + 1]
        /\ seen' = [seen EXCEPT ![t] = 0]
        /\ got' = [got EXCEPT ![t] = got[t]]
    BY <1>5, ExceptSame DEF GoOn, GetInv
  <2>2. /\ got[t] < nextValue
        /\ t \notin heirs \cup dirty' /\ got[t] # 0 => maker[got[t]] = t
    BY <1>1 DEF GetInv, GetIsOwn, GotIsMade
  <2>3. statics[c] \notin LocalsOf(idOf[t])
    <3> SUFFICES ASSUME statics[c] \in LocalsOf(idOf[t]) PROVE FALSE
      OBVIOUS
    <3>1. v \in Stored /\ localId[v] = idOf[t]
      BY <1>3 DEF LocalsOf
    <3>2. v \notin freed /\ v # 0
      BY <3>1, StoredFacts DEF GetInv
    <3> QED
      BY <1>5, <3>1, <3>2 DEF Matches
  <2>4. \A i \in Slots : i < c => statics[i] \notin LocalsOf(idOf[t])
    BY <1>1 DEF GetInv, GetIsOwn, OwnIsAhead
  <2>5. \A i \in Slots : i < c + 1 => i < c \/ i = c
    BY <1>3, ConstantsAssumption DEF Slots
  <2>6. \A i \in Slots : i < c + 1 => statics[i] \notin LocalsOf(idOf[t])
    BY <2>3, <2>4, <2>5
  <2> HIDE DEF v, c
  <2> QED
    BY <1>1, <1>2, <2>1, <2>2, <2>6, GetStepAgrees
<1> QED
  BY <1>4, <1>5 DEF GetCompare

LEMMA UnchangedAgrees ==
  ASSUME GetInv, UNCHANGED <<lifeVars, slotVars, getVars>>
  PROVE  ViewsAgree'
<1>1. /\ life' = life /\ idOf' = idOf /\ heirs' = heirs /\ statics' = statics
      /\ dynamics' = dynamics /\ localId' = localId /\ nextValue' = nextValue
      /\ maker' = maker /\ pc' = pc /\ cursor' = cursor /\ seen' = seen
      /\ got' = got /\ dirty' = dirty
  BY DEF lifeVars, slotVars, getVars
<1> QED
  BY <1>1 DEF GetInv, GetIsOwn, ViewsAgree, IdsAreDistinct, OwnIsMade, GotIsMade,
              LoadedWasStored, OwnIsAhead, Matches, LocalsOf, Stored

LEMMA GetVectorAgrees ==
  ASSUME GetInv, NEW t \in Threads, GetVector(t)
  PROVE  ViewsAgree'
<1> DEFINE mine == InVector(idOf[t])
           v == IF mine = {} THEN 0 ELSE dynamics[First(mine)]
<1>1. /\ pc[t] = "vector" /\ UNCHANGED <<lifeVars, slotVars>> /\ dirty' = dirty
      /\ dirty' \ {t} = dirty \ {t}
  BY DEF GetVector
<1>2. life[t] = "running"
  BY <1>1 DEF GetInv, IdsAreDistinct
<1>3. CASE vector
  <2>1. /\ pc' = [pc EXCEPT ![t] = "returned"]
        /\ cursor' = [cursor EXCEPT ![t] = 0]
        /\ seen' = [seen EXCEPT ![t] = 0]
        /\ got' = [got EXCEPT ![t] = v]
    BY <1>3 DEF GetVector, Return
  <2>2. v # 0 => v \in Stored /\ localId[v] = idOf[t]
    <3>1. CASE mine = {}
      BY <3>1
    <3>2. CASE mine # {}
      <4>1. First(mine) \in mine
        BY <3>2, FoundIsValue DEF GetInv
      <4>2. First(mine) \in DOMAIN dynamics /\ localId[dynamics[First(mine)]] = idOf[t]
        BY <4>1 DEF InVector
      <4>3. dynamics[First(mine)] \in Stored
        BY <4>2, StoredFacts DEF GetInv
      <4> QED
        BY <3>2, <4>2, <4>3
    <3> QED
      BY <3>1, <3>2
  <2> HIDE DEF v
  <2>3. t \notin heirs \cup dirty' /\ v # 0 => maker[v] = t
    BY <1>2, <2>2, StoredIsOwn
  <2>4. v < nextValue
    <3>1. 0 < nextValue
      BY ConstantsAssumption DEF GetInv, SlotInv
    <3> QED
      BY <2>2, <3>1, StoredFacts DEF GetInv
  <2> QED
    BY <1>1, <1>2, <2>1, <2>3, <2>4, GetStepAgrees
<1>4. CASE ~vector
  <2>1. UNCHANGED getVars
    BY <1>1, <1>4 DEF GetVector, getVars
  <2> QED
    BY <1>1, <2>1, UnchangedAgrees
<1> QED
  BY <1>3, <1>4

LEMMA GetDoneAgrees ==
  ASSUME GetInv, NEW t \in Threads, GetDone(t)
  PROVE  ViewsAgree'
<1>1. /\ pc' = [pc EXCEPT ![t] = "idle"]
      /\ cursor' = [cursor EXCEPT ![t] = cursor[t]]
      /\ seen' = [seen EXCEPT ![t] = seen[t]]
      /\ got' = [got EXCEPT ![t] = 0]
      /\ pc[t] = "returned" /\ dirty' \ {t} = dirty \ {t}
      /\ UNCHANGED <<lifeVars, slotVars>>
  BY ExceptSame DEF GetDone, GetInv
<1>2. life[t] = "running"
  BY <1>1 DEF GetInv, IdsAreDistinct
<1>3. 0 < nextValue
  BY ConstantsAssumption DEF GetInv, SlotInv
<1> QED
  BY <1>1, <1>2, <1>3, GetStepAgrees
\* A thread that starts is not inside get(), and is an heir if its id still has
\* a Local.
LEMMA StartAgrees ==
  ASSUME GetInv, NEW t \in Threads, Start(t)
  PROVE  ViewsAgree'
<1>1. PICK id \in Ids :
        /\ \A u \in Threads : life[u] = "running" => idOf[u] # id
        /\ idOf' = [idOf EXCEPT ![t] = id]
        /\ heirs' = IF LocalsOf(id) # {} \/ id \in Members(posted)
                    THEN heirs \cup {t} ELSE heirs
  BY DEF Start
<1>2. /\ life[t] = "new" /\ life' = [life EXCEPT ![t] = "running"]
      /\ statics' = statics /\ dynamics' = dynamics /\ localId' = localId
      /\ nextValue' = nextValue /\ maker' = maker /\ pc' = pc /\ cursor' = cursor
      /\ seen' = seen /\ got' = got /\ dirty' = dirty
  BY DEF Start, slotVars, getVars
<1>3. /\ \A u \in Threads : life'[u] = IF u = t THEN "running" ELSE life[u]
      /\ \A u \in Threads : idOf'[u] = IF u = t THEN id ELSE idOf[u]
  BY <1>1, <1>2 DEF GetInv, TypeOK
<1>4. \A u \in Threads : pc[u] # "idle" => u # t /\ life[u] = "running"
  BY <1>2 DEF GetInv, IdsAreDistinct
<1>5. heirs \subseteq heirs'
  BY <1>1
<1>6. \A u \in Threads : LocalsOf(idOf[u])' = LocalsOf(idOf'[u])
  BY <1>2 DEF LocalsOf, Stored
<1>7. IdsAreDistinct'
  BY <1>1, <1>2, <1>3, <1>4 DEF GetInv, IdsAreDistinct
<1>8. OwnIsMade'
  <2> SUFFICES ASSUME NEW u \in Threads \ heirs', life'[u] = "running",
                      NEW v \in LocalsOf(idOf[u])'
               PROVE  maker[v] = u
    BY <1>2 DEF OwnIsMade
  <2>1. v \in LocalsOf(idOf'[u])
    BY <1>6
  <2>2. CASE u = t
    <3>1. LocalsOf(id) = {}
      BY <1>1, <2>2
    <3> QED
      BY <1>3, <2>1, <2>2, <3>1
  <2>3. CASE u # t
    BY <1>3, <1>5, <2>1, <2>3 DEF GetInv, OwnIsMade
  <2> QED
    BY <2>2, <2>3
<1>9. LoadedWasStored'
  <2> SUFFICES ASSUME NEW u \in Threads, pc[u] = "compare"
      PROVE  /\ seen[u] < nextValue
             /\ Matches(u, seen[u])' /\ u \notin heirs' => maker[seen[u]] = u
             /\ cursor[u] \in Slots
             /\ statics[cursor[u]] \in LocalsOf(idOf[u])' =>
                  statics[cursor[u]] = seen[u]
    BY <1>2 DEF LoadedWasStored
  <2>1. u # t /\ idOf'[u] = idOf[u]
    BY <1>3, <1>4
  <2>2. LocalsOf(idOf[u])' = LocalsOf(idOf[u])
    BY <1>6, <2>1
  <2> QED
    BY <1>2, <1>5, <2>1, <2>2 DEF GetInv, LoadedWasStored, Matches
<1>10. \A u \in Threads : got'[u] < nextValue'
  BY <1>2 DEF GetInv
<1>11. GotIsMade'
  BY <1>2, <1>5 DEF GetInv, GetIsOwn, GotIsMade
<1>12. OwnIsAhead'
  <2> SUFFICES ASSUME NEW u \in Threads, pc[u] \in {"load", "compare", "vector"},
                      NEW i \in Slots, i < cursor[u]
               PROVE  statics[i] \notin LocalsOf(idOf[u])'
    BY <1>2 DEF OwnIsAhead
  <2>1. idOf'[u] = idOf[u]
    BY <1>3, <1>4
  <2> QED
    BY <1>6, <2>1 DEF GetInv, GetIsOwn, OwnIsAhead
<1> QED
  BY <1>7, <1>8, <1>9, <1>10, <1>11, <1>12 DEF ViewsAgree

LEMMA FinishAgrees ==
  ASSUME GetInv, NEW t \in Threads, Finish(t)
  PROVE  ViewsAgree'
<1>1. /\ life' = [life EXCEPT ![t] = "finished"] /\ idOf' = idOf /\ heirs' = heirs
      /\ statics' = statics /\ dynamics' = dynamics /\ localId' = localId
      /\ nextValue' = nextValue /\ maker' = maker /\ pc' = pc /\ cursor' = cursor
      /\ seen' = seen /\ got' = got /\ dirty' = dirty /\ pc[t] = "idle"
  BY DEF Finish, Idle, slotVars, getVars
<1>2. \A u \in Threads : life'[u] = IF u = t THEN "finished" ELSE life[u]
  BY <1>1 DEF GetInv, TypeOK
<1>3. \A u \in Threads : LocalsOf(idOf[u])' = LocalsOf(idOf[u])
  BY <1>1 DEF LocalsOf, Stored
<1>4. IdsAreDistinct'
  BY <1>1, <1>2 DEF GetInv, IdsAreDistinct
<1>5. OwnIsMade'
  BY <1>1, <1>2, <1>3 DEF GetInv, OwnIsMade
<1>6. LoadedWasStored'
  BY <1>1, <1>3 DEF GetInv, LoadedWasStored, Matches
<1>7. \A u \in Threads : got'[u] < nextValue'
  BY <1>1 DEF GetInv
<1>8. GotIsMade'
  BY <1>1 DEF GetInv, GetIsOwn, GotIsMade
<1>9. OwnIsAhead'
  BY <1>1, <1>3 DEF GetInv, GetIsOwn, OwnIsAhead
<1> QED
  BY <1>4, <1>5, <1>6, <1>7, <1>8, <1>9 DEF ViewsAgree

LEMMA NextAgrees ==
  ASSUME GetInv, Next
  PROVE  ViewsAgree'
<1>1. SlotInv'
  BY NextSlotInv DEF GetInv
<1>2. ASSUME NEW t \in Threads, Reset(t) PROVE ViewsAgree'
  <2>1. SlotStep(t, {nextValue})
    BY <1>2, ResetSteps DEF GetInv
  <2>2. Idle(t) /\ UNCHANGED <<lifeVars, getVars>>
    BY <1>2 DEF Reset
  <2> QED
    BY <1>1, <2>1, <2>2, SlotStepAgrees
<1>3. ASSUME NEW t \in Threads, ResetNull(t) PROVE ViewsAgree'
  <2>1. /\ statics' = Removed(idOf[t]) /\ dynamics' = Remaining(idOf[t])
        /\ UNCHANGED <<localId, nextValue, maker>>
        /\ Idle(t) /\ UNCHANGED <<lifeVars, getVars>>
    BY <1>3 DEF ResetNull
  <2>2. SlotStep(t, {})
    BY <2>1, RemoveSteps DEF GetInv
  <2> QED
    BY <1>1, <2>1, <2>2, SlotStepAgrees
<1>4. CASE Clear
  <2>1. /\ statics' = Removed(Head(posted)) /\ dynamics' = Remaining(Head(posted))
        /\ UNCHANGED <<localId, nextValue, maker>>
        /\ Idle(Main) /\ UNCHANGED <<lifeVars, getVars>>
    BY <1>4 DEF Clear
  <2>2. SlotStep(Main, {})
    BY <2>1, RemoveSteps DEF GetInv
  <2> QED
    BY <1>1, <2>1, <2>2, SlotStepAgrees DEF Threads
<1>5. ASSUME NEW t \in Threads, ClearAll(t) PROVE ViewsAgree'
  <2>1. SlotStep(t, {})
    BY <1>5, ClearAllSteps DEF GetInv
  <2>2. Idle(t) /\ UNCHANGED <<lifeVars, getVars>>
    BY <1>5 DEF ClearAll
  <2> QED
    BY <1>1, <2>1, <2>2, SlotStepAgrees
<1>6. ASSUME NEW t \in Threads, Get(t) \/ GetContinues(t) \/ Start(t) \/ Finish(t)
      PROVE  ViewsAgree'
  BY <1>6, GetAgrees, GetLoadAgrees, GetCompareAgrees, GetVectorAgrees,
     GetDoneAgrees, StartAgrees, FinishAgrees DEF GetContinues
<1>7. CASE UNCHANGED vars
  BY <1>7, UnchangedAgrees DEF vars, lifeVars, slotVars, getVars
<1> QED
  BY <1>2, <1>3, <1>4, <1>5, <1>6, <1>7 DEF Next

\* The vector goes by clearAll() alone, which sweeps every thread inside get().
LEMMA NextVectorIsThere ==
  ASSUME GetInv, Next
  PROVE  VectorIsThere' /\ FaultIsSwept'
<1>1. VectorIsThere /\ FaultIsSwept
      /\ pc \in [Threads -> {"idle", "load", "compare", "vector", "returned"}]
  BY DEF GetInv, GetIsOwn, TypeOK
<1> USE DEF VectorIsThere, FaultIsSwept
<1>2. CASE UNCHANGED vars
  BY <1>1, <1>2 DEF vars
<1>3. ASSUME fault = "none", fault' = fault, pc' = pc, swept' = swept,
             vector => vector'
      PROVE  VectorIsThere' /\ FaultIsSwept'
  BY <1>1, <1>3
<1>4. ASSUME NEW t \in Threads, fault = "none",
             Reset(t) \/ ResetNull(t) \/ Start(t) \/ Finish(t)
      PROVE  VectorIsThere' /\ FaultIsSwept'
  BY <1>3, <1>4 DEF Reset, ResetNull, Start, Finish, Add, getVars, slotVars
<1>5. CASE fault = "none" /\ Clear
  BY <1>3, <1>5 DEF Clear, getVars
<1>6. ASSUME NEW t \in Threads, fault = "none", ClearAll(t)
      PROVE  VectorIsThere' /\ FaultIsSwept'
  BY <1>6 DEF ClearAll, getVars
<1>7. ASSUME NEW t \in Threads, fault = "none", Get(t)
      PROVE  VectorIsThere' /\ FaultIsSwept'
  BY <1>1, <1>7 DEF Get, slotVars
<1>8. ASSUME NEW t \in Threads, fault = "none", GetLoad(t)
      PROVE  VectorIsThere' /\ FaultIsSwept'
  BY <1>1, <1>8 DEF GetLoad, Return, slotVars
<1>9. ASSUME NEW t \in Threads, fault = "none", GetCompare(t)
      PROVE  VectorIsThere' /\ FaultIsSwept'
  BY <1>1, <1>9 DEF GetCompare, Return, GoOn, slotVars
<1>10. ASSUME NEW t \in Threads, fault = "none", GetVector(t)
       PROVE  VectorIsThere' /\ FaultIsSwept'
  <2>1. CASE vector
    BY <1>1, <1>10, <2>1 DEF GetVector, Return, slotVars
  <2>2. CASE ~vector
    BY <1>1, <1>10, <2>2 DEF GetVector, slotVars
  <2> QED
    BY <2>1, <2>2
<1>11. ASSUME NEW t \in Threads, fault = "none", GetDone(t)
       PROVE  VectorIsThere' /\ FaultIsSwept'
  BY <1>1, <1>11 DEF GetDone, slotVars
<1> QED
  BY <1>2, <1>4, <1>5, <1>6, <1>7, <1>8, <1>9, <1>10, <1>11
     DEF Next, GetContinues

LEMMA InitGetInv == Init => GetInv
<1> SUFFICES ASSUME Init PROVE GetInv
  OBVIOUS
<1>1. SlotInv /\ TypeOK
  BY InitSlotInv, InitTypes, TypesTogether
<1>2. /\ life = [t \in Threads |-> IF t = Main THEN "running" ELSE "new"]
      /\ pc = [t \in Threads |-> "idle"] /\ got = [t \in Threads |-> 0]
      /\ statics = [i \in Slots |-> 0] /\ dynamics = <<>>
      /\ nextValue = 1 /\ fault = "none"
  BY DEF Init
<1>3. Stored = {}
  BY <1>2 DEF Stored, Members
<1>4. IdsAreDistinct
  BY <1>2 DEF IdsAreDistinct
<1>5. OwnIsMade
  BY <1>3 DEF OwnIsMade, LocalsOf
<1>6. LoadedWasStored /\ VectorIsThere
  BY <1>2 DEF LoadedWasStored, VectorIsThere
<1>7. \A t \in Threads : got[t] < nextValue
  BY <1>2
<1>8. GetIsOwn
  BY <1>2 DEF GetIsOwn, GotIsMade, OwnIsAhead, FaultIsSwept
<1> QED
  BY <1>1, <1>4, <1>5, <1>6, <1>7, <1>8 DEF GetInv

LEMMA NextGetInv == GetInv /\ [Next]_vars => GetInv'
<1> SUFFICES ASSUME GetInv, [Next]_vars PROVE GetInv'
  OBVIOUS
<1>1. SlotInv' /\ TypeOK'
  BY NextSlotInv, NextTypeOK DEF GetInv
<1>2. Next \/ UNCHANGED vars
  OBVIOUS
<1>3. ViewsAgree'
  BY <1>2, NextAgrees, UnchangedAgrees DEF vars, lifeVars, slotVars, getVars
<1>4. VectorIsThere' /\ FaultIsSwept'
  <2>1. CASE UNCHANGED vars
    BY <2>1 DEF vars, GetInv, GetIsOwn, VectorIsThere, FaultIsSwept
  <2> QED
    BY <1>2, <2>1, NextVectorIsThere
<1> QED
  BY <1>1, <1>3, <1>4 DEF GetInv, GetIsOwn, ViewsAgree

\* get() without the lock, with any number of threads, slots and values: what
\* it returns to a thread that is no heir and read no deleted Local was passed
\* to reset() by that thread; it never goes past the thread's own Local; and
\* it finds the vector gone only beside clearAll().
THEOREM GetReturnsOwn == Spec => []GetIsOwn
<1>1. Init => GetInv
  BY InitGetInv
<1>2. GetInv /\ [Next]_vars => GetInv'
  BY NextGetInv
<1>3. GetInv => GetIsOwn
  BY DEF GetInv
<1> QED
  BY <1>1, <1>2, <1>3, PTL DEF Spec
=============================================================================
