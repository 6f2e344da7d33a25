------------------------- MODULE GreedyDualProofs -------------------------
(***************************************************************************)
(* The invariants of the greedy-dual family, for every set of lines, every *)
(* cache size, policy and K, and every length of trace.                    *)
(***************************************************************************)
EXTENDS GreedyDual, FiniteSetTheorems, SequenceTheorems, TLAPS

\* The shared lemmas on data.  What LRUCache defines under the names of
\* GreedyDualBase comes with them, under the prefix.
Data == INSTANCE ClassLemmas

\* Under its prefix the instance has copies of the operators on finite sets.
LEMMA FiniteSame == \A S : Data!IsFiniteSet(S) = IsFiniteSet(S)
BY DEF Data!IsFiniteSet, IsFiniteSet

LEMMA CardinalitySame == \A S : Data!Cardinality(S) = Cardinality(S)
BY DEF Data!Cardinality, Cardinality

----------------------------------------------------------------------------
(***************************************************************************)
(* The value map as a sequence of entries.                                 *)
(***************************************************************************)
Entries == [val : Nat, obj : Requested]

\* The entry a is somewhere before the entry b.
Before(vs, a, b) == \E i, j \in DOMAIN vs : i < j /\ vs[i] = a /\ vs[j] = b

Ordered(vs)   == \A a, b \in ToSet(vs) : Before(vs, a, b) => a.val <= b.val
Distinct(vs)  == \A i, j \in DOMAIN vs : vs[i].obj = vs[j].obj => i = j
ObjectsIn(vs) == {vs[i].obj : i \in DOMAIN vs}

ValueMap(vs) == vs \in Seq(Entries) /\ Ordered(vs) /\ Distinct(vs)

\* What leaves an entry out of vs keeps the order of the rest.
LEMMA RemoveEntry ==
  ASSUME NEW vs, ValueMap(vs), NEW n \in DOMAIN vs, NEW t, t = RemoveAt(vs, n)
  PROVE  /\ ValueMap(t) /\ Len(t) = Len(vs) - 1
         /\ ToSet(t) = ToSet(vs) \ {vs[n]}
         /\ ObjectsIn(t) = ObjectsIn(vs) \ {vs[n].obj}
         /\ \A a, b : Before(t, a, b) => Before(vs, a, b)
<1>1. /\ vs \in Seq(Entries) /\ DOMAIN vs = 1..Len(vs) /\ Len(vs) \in Nat
      /\ Ordered(vs) /\ Distinct(vs) /\ n \in 1..Len(vs)
  BY LenProperties DEF ValueMap
<1>2. /\ t \in Seq(Entries) /\ Len(t) = Len(vs) - 1
      /\ \A i \in 1..(Len(vs)-1) : t[i] = IF i < n THEN vs[i] ELSE vs[i+1]
  BY <1>1, Data!RemoveAtCells DEF RemoveAt, Data!RemoveAt
<1>3. DOMAIN t = 1..(Len(vs) - 1)
  BY <1>2, LenProperties
<1> DEFINE at(i) == IF i < n THEN i ELSE i + 1
<1>4. /\ \A i \in DOMAIN t : at(i) \in DOMAIN vs /\ at(i) # n /\ t[i] = vs[at(i)]
      /\ \A i, j \in DOMAIN t : i < j <=> at(i) < at(j)
      /\ \A k \in DOMAIN vs : k # n => \E i \in DOMAIN t : at(i) = k
  <2>1. \A i \in DOMAIN t : at(i) \in DOMAIN vs /\ at(i) # n /\ t[i] = vs[at(i)]
    BY <1>1, <1>2, <1>3
  <2>2. \A i, j \in DOMAIN t : i < j <=> at(i) < at(j)
    BY <1>1, <1>3
  <2>3. ASSUME NEW k \in DOMAIN vs, k # n PROVE \E i \in DOMAIN t : at(i) = k
    <3>1. CASE k < n
      <4>1. k \in DOMAIN t /\ at(k) = k
        BY <3>1, <1>1, <1>3
      <4> QED BY <4>1
    <3>2. CASE k > n
      <4>1. k - 1 \in DOMAIN t /\ at(k - 1) = k
        BY <3>2, <1>1, <1>3
      <4> QED BY <4>1
    <3> QED BY <2>3, <3>1, <3>2, <1>1
  <2> QED BY <2>1, <2>2, <2>3
<1> HIDE DEF at
<1>5. \A a, b : Before(t, a, b) => Before(vs, a, b)
  BY <1>4 DEF Before
<1>6. ToSet(t) = ToSet(vs) \ {vs[n]}
  <2>1. \A i \in DOMAIN vs : i # n => vs[i] # vs[n]
    BY <1>1 DEF Distinct
  <2> QED BY <1>1, <1>4, <2>1 DEF ToSet
<1>7. ObjectsIn(t) = ObjectsIn(vs) \ {vs[n].obj}
  <2>1. \A i \in DOMAIN vs : i # n => vs[i].obj # vs[n].obj
    BY <1>1 DEF Distinct
  <2> QED BY <1>1, <1>4, <2>1 DEF ObjectsIn
<1>8. Distinct(t)
  <2> SUFFICES ASSUME NEW i \in DOMAIN t, NEW j \in DOMAIN t, t[i].obj = t[j].obj
               PROVE  i = j
    BY DEF Distinct
  <2>1. at(i) = at(j)
    BY <1>1, <1>4 DEF Distinct
  <2> QED BY <1>3, <1>4, <2>1
<1>9. Ordered(t)
  BY <1>1, <1>5, <1>6 DEF Ordered
<1> QED BY <1>2, <1>5, <1>6, <1>7, <1>8, <1>9 DEF ValueMap

\* pop_front() is one such.
LEMMA TailEntry ==
  ASSUME NEW vs, ValueMap(vs), vs # <<>>
  PROVE  /\ 1 \in DOMAIN vs /\ Head(vs) = vs[1] /\ Head(vs) \in Entries
         /\ Tail(vs) = RemoveAt(vs, 1)
         /\ \A e \in ToSet(vs) : Head(vs).val <= e.val
<1>1. /\ vs \in Seq(Entries) /\ DOMAIN vs = 1..Len(vs) /\ Len(vs) \in Nat
      /\ Ordered(vs)
  BY LenProperties DEF ValueMap
<1>2. Len(vs) > 0 /\ 1 \in DOMAIN vs /\ Head(vs) = vs[1] /\ vs[1] \in Entries
  BY <1>1, EmptySeq, ElementOfSeq
<1>3. Tail(vs) = RemoveAt(vs, 1)
  <2>1. /\ Tail(vs) \in Seq(Entries) /\ Len(Tail(vs)) = Len(vs) - 1
        /\ \A i \in 1..Len(Tail(vs)) : Tail(vs)[i] = vs[i+1]
    BY <1>1, HeadTailProperties
  <2>2. /\ RemoveAt(vs, 1) \in Seq(Entries) /\ Len(RemoveAt(vs, 1)) = Len(vs) - 1
        /\ \A i \in 1..(Len(vs)-1) :
             RemoveAt(vs, 1)[i] = IF i < 1 THEN vs[i] ELSE vs[i+1]
    <3>1. 1 \in 1..Len(vs)
      BY <1>1, <1>2
    <3> QED BY <1>1, <3>1, Data!RemoveAtCells DEF RemoveAt, Data!RemoveAt
  <2>3. \A i \in 1..Len(Tail(vs)) : Tail(vs)[i] = RemoveAt(vs, 1)[i]
    BY <2>1, <2>2
  <2> QED BY <2>1, <2>2, <2>3, SeqEqual
<1>4. ASSUME NEW e \in ToSet(vs) PROVE Head(vs).val <= e.val
  <2>1. PICK i \in DOMAIN vs : e = vs[i]
    BY DEF ToSet
  <2>2. CASE i = 1
    BY <1>2, <2>1, <2>2 DEF Entries
  <2>3. CASE i # 1
    <3>1. 1 < i /\ vs[1] \in ToSet(vs)
      BY <1>1, <1>2, <2>3 DEF ToSet
    <3>2. Before(vs, vs[1], e)
      BY <1>2, <2>1, <3>1 DEF Before
    <3> QED BY <1>1, <1>2, <3>1, <3>2 DEF Ordered
  <2> QED BY <2>2, <2>3
<1> QED BY <1>2, <1>3, <1>4

\* emplace() keeps the order; a value no entry is above goes to the end.
LEMMA EmplaceEntry ==
  ASSUME NEW vs, ValueMap(vs), NEW v \in Nat, NEW o \in Requested,
         o \notin ObjectsIn(vs), NEW e, e = [val |-> v, obj |-> o],
         NEW t, t = Emplace(vs, v, o)
  PROVE  /\ ValueMap(t) /\ Len(t) = Len(vs) + 1
         /\ ToSet(t) = ToSet(vs) \cup {e}
         /\ ObjectsIn(t) = ObjectsIn(vs) \cup {o}
         /\ \A a, b : Before(t, a, b) =>
              Before(vs, a, b) \/ (a = e /\ b \in ToSet(vs) /\ b.val > v)
                               \/ (b = e /\ a \in ToSet(vs) /\ a.val <= v)
<1> DEFINE T == {i \in DOMAIN vs : vs[i].val <= v}
           n == 1 + Cardinality(T)
<1>1. /\ vs \in Seq(Entries) /\ DOMAIN vs = 1..Len(vs) /\ Len(vs) \in Nat
      /\ Ordered(vs) /\ Distinct(vs) /\ e \in Entries
      /\ \A i \in DOMAIN vs : vs[i].val \in Nat
  <2>1. /\ vs \in Seq(Entries) /\ DOMAIN vs = 1..Len(vs) /\ Len(vs) \in Nat
        /\ Ordered(vs) /\ Distinct(vs)
    BY LenProperties DEF ValueMap
  <2>2. \A i \in DOMAIN vs : vs[i] \in Entries
    BY <2>1, ElementOfSeq
  <2> QED BY <2>1, <2>2 DEF Entries
<1>2. /\ T = 1..Cardinality(T) /\ Cardinality(T) \in 0..Len(vs)
  <2>1. ASSUME NEW i \in T, NEW j \in 1..i PROVE j \in T
    <3>1. CASE j = i
      BY <3>1
    <3>2. CASE j # i
      <4>1. j \in DOMAIN vs /\ j < i
        BY <1>1, <3>2
      <4>2. vs[j].val <= vs[i].val
        <5>1. Before(vs, vs[j], vs[i]) /\ vs[j] \in ToSet(vs) /\ vs[i] \in ToSet(vs)
          BY <4>1 DEF Before, ToSet
        <5> QED BY <1>1, <5>1 DEF Ordered
      <4> QED BY <1>1, <4>1, <4>2
    <3> QED BY <3>1, <3>2
  <2>2. T \in SUBSET (1..Len(vs))
    BY <1>1
  <2>3. \A i \in T : \A j \in 1..i : j \in T
    BY <2>1
  <2> HIDE DEF T
  <2> QED BY <1>1, <2>2, <2>3, CardinalitySame, Data!InitialSegment
<1>3. \A i \in DOMAIN vs : vs[i].val <= v <=> i < n
  <2>1. \A i \in DOMAIN vs : vs[i].val <= v <=> i \in T
    OBVIOUS
  <2>2. \A i \in DOMAIN vs : i \in 1..Cardinality(T) <=> i < n
    BY <1>1, <1>2
  <2> HIDE DEF T
  <2> QED BY <1>2, <2>1, <2>2
<1>4. n \in 1..(Len(vs)+1) /\ t = InsertAt(vs, n, e)
  BY <1>1, <1>2 DEF Emplace
<1> HIDE DEF T, n
<1>5. /\ t \in Seq(Entries) /\ Len(t) = Len(vs) + 1
      /\ \A i \in 1..(Len(vs)+1) :
           t[i] = IF i < n THEN vs[i] ELSE IF i = n THEN e ELSE vs[i-1]
  <2>1. InsertAt(vs, n, e) = Data!InsertAt(vs, n, e)
    BY DEF InsertAt, Data!InsertAt
  <2>2. e \in Entries
    BY DEF Entries
  <2> DEFINE r == Data!InsertAt(vs, n, e)
  <2>3. /\ r \in Seq(Entries) /\ Len(r) = Len(vs) + 1
        /\ \A i \in 1..(Len(vs)+1) :
             r[i] = IF i < n THEN vs[i] ELSE IF i = n THEN e ELSE vs[i-1]
    BY <1>1, <1>4, <2>2, Data!InsertAtCells
  <2> HIDE DEF r
  <2>4. t = r
    BY <1>4, <2>1 DEF r
  <2> QED BY <2>3, <2>4
<1>6. DOMAIN t = 1..(Len(vs) + 1)
  BY <1>5, LenProperties
<1> DEFINE at(i) == IF i < n THEN i ELSE i - 1
           from(k) == IF k < n THEN k ELSE k + 1
<1>7. /\ n \in DOMAIN t /\ t[n] = e
      /\ \A i \in DOMAIN t : i # n => at(i) \in DOMAIN vs /\ t[i] = vs[at(i)]
      /\ \A k \in DOMAIN vs : from(k) \in DOMAIN t /\ from(k) # n /\ t[from(k)] = vs[k]
      /\ \A i, j \in DOMAIN t : i # n /\ j # n => (i < j <=> at(i) < at(j))
      /\ \A i \in DOMAIN t : i # n => (i < n <=> at(i) < n)
  <2>1. n \in DOMAIN t /\ t[n] = e
    BY <1>1, <1>4, <1>5, <1>6
  <2>2. ASSUME NEW i \in DOMAIN t, i # n
        PROVE  at(i) \in DOMAIN vs /\ t[i] = vs[at(i)] /\ (i < n <=> at(i) < n)
    BY <2>2, <1>1, <1>4, <1>5, <1>6
  <2>3. ASSUME NEW k \in DOMAIN vs
        PROVE  from(k) \in DOMAIN t /\ from(k) # n /\ t[from(k)] = vs[k]
    BY <1>1, <1>4, <1>5, <1>6
  <2>4. \A i, j \in DOMAIN t : i # n /\ j # n => (i < j <=> at(i) < at(j))
    BY <1>1, <1>4, <1>6
  <2> QED BY <2>1, <2>2, <2>3, <2>4
<1> HIDE DEF at, from
<1>8. ToSet(t) = ToSet(vs) \cup {e}
  BY <1>7 DEF ToSet
<1>9. ObjectsIn(t) = ObjectsIn(vs) \cup {o}
  BY <1>7 DEF ObjectsIn
<1>10. ASSUME NEW a, NEW b, Before(t, a, b)
       PROVE  \/ Before(vs, a, b)
              \/ a = e /\ b \in ToSet(vs) /\ b.val > v
              \/ b = e /\ a \in ToSet(vs) /\ a.val <= v
  <2>1. PICK i, j \in DOMAIN t : i < j /\ t[i] = a /\ t[j] = b
    BY <1>10 DEF Before
  <2>2. CASE i # n /\ j # n
    <3>1. at(i) \in DOMAIN vs /\ at(j) \in DOMAIN vs /\ at(i) < at(j)
          /\ vs[at(i)] = a /\ vs[at(j)] = b
      BY <1>7, <2>1, <2>2
    <3> QED BY <3>1 DEF Before
  <2>3. CASE i = n
    <3>1. j # n /\ ~(j < n)
      BY <1>4, <1>6, <2>1, <2>3
    <3>2. at(j) \in DOMAIN vs /\ vs[at(j)] = b /\ ~(at(j) < n)
      BY <1>7, <2>1, <3>1
    <3>3. ~(vs[at(j)].val <= v) /\ vs[at(j)].val \in Nat
      BY <1>1, <1>3, <3>2
    <3>4. b.val > v /\ b \in ToSet(vs)
      BY <3>2, <3>3 DEF ToSet
    <3> QED BY <1>7, <2>1, <2>3, <3>4
  <2>4. CASE j = n
    <3>1. i # n /\ i < n
      BY <1>4, <1>6, <2>1, <2>4
    <3>2. at(i) \in DOMAIN vs /\ vs[at(i)] = a /\ at(i) < n
      BY <1>7, <2>1, <3>1
    <3>3. vs[at(i)].val <= v
      BY <1>3, <3>2
    <3>4. a.val <= v /\ a \in ToSet(vs)
      BY <3>2, <3>3 DEF ToSet
    <3> QED BY <1>7, <2>1, <2>4, <3>4
  <2> QED BY <2>2, <2>3, <2>4
<1>11. Ordered(t)
  <2> SUFFICES ASSUME NEW a \in ToSet(t), NEW b \in ToSet(t), Before(t, a, b)
               PROVE  a.val <= b.val
    BY DEF Ordered
  <2>1. CASE Before(vs, a, b)
    <3>1. a \in ToSet(vs) /\ b \in ToSet(vs)
      BY <2>1 DEF Before, ToSet
    <3> QED BY <1>1, <2>1, <3>1 DEF Ordered
  <2>2. CASE a = e /\ b \in ToSet(vs) /\ b.val > v
    <3>1. b.val \in Nat /\ a.val = v
      BY <1>1, <2>2 DEF ToSet
    <3> QED BY <2>2, <3>1
  <2>3. CASE b = e /\ a \in ToSet(vs) /\ a.val <= v
    BY <2>3
  <2> QED BY <1>10, <2>1, <2>2, <2>3
<1>12. Distinct(t)
  <2> SUFFICES ASSUME NEW i \in DOMAIN t, NEW j \in DOMAIN t, t[i].obj = t[j].obj
               PROVE  i = j
    BY DEF Distinct
  <2>0. \A k \in DOMAIN t : k # n => t[k].obj # o
    BY <1>7 DEF ObjectsIn
  <2>1. CASE i = n \/ j = n
    BY <1>7, <2>0, <2>1
  <2>2. CASE i # n /\ j # n
    <3>1. at(i) = at(j)
      BY <1>1, <1>7, <2>2 DEF Distinct
    <3>2. ~(i < j) /\ ~(j < i)
      <4>1. at(i) \in 1..Len(vs)
        BY <1>1, <1>7, <2>2
      <4> QED BY <1>7, <2>2, <3>1, <4>1
    <3> QED BY <1>6, <3>2
  <2> QED BY <2>1, <2>2
<1> QED BY <1>5, <1>8, <1>9, <1>10, <1>11, <1>12 DEF ValueMap

----------------------------------------------------------------------------
(***************************************************************************)
(* What the fields of the cache promise of each other.                     *)
(***************************************************************************)
Caches == [size : Nat, current : Nat, values : Seq(Entries),
           map : SUBSET Requested, L : Nat, reqsMap : [Requested -> Nat],
           refsMap : [Requested -> Seq(Nat)], curTime : Nat]

Consistent(c) ==
  /\ c \in Caches /\ ValueMap(c.values)
  /\ c.map = ObjectsIn(c.values)
  /\ Data!Sized(c.map) /\ c.current = Data!SizeSum(c.map)

\* Weight(o), in a cache that may be between two steps of a request.
WeightIn(c, o) == CASE cacheType = "GD"    -> Unit
                    [] cacheType = "GDS"   -> Unit \div o.size
                    [] cacheType = "GDSF"  -> (c.reqsMap[o] * Unit) \div o.size
                    [] cacheType = "LFUDA" -> c.reqsMap[o] * Unit

Aged(c) ==
  cacheType # "LRUK" =>
    \A e \in ToSet(c.values) : c.L <= e.val /\ e.val <= c.L + WeightIn(c, e.obj)

\* A quotient is a number, and grows with its dividend.
LEMMA DivNat ==
  ASSUME NEW a \in Nat, NEW b \in Nat, NEW s \in Nat \ {0}, a <= b
  PROVE  a \div s \in Nat /\ a \div s <= b \div s
<1>1. a \div s \in Nat
  OBVIOUS
<1>2. a \div s <= b \div s
  BY SMTT(30)
<1> QED BY <1>1, <1>2

\* What lines are looked up as has a size, as 1 without filesize.
LEMMA RequestedSizes ==
  /\ \A o \in Requested : o.size \in Nat \ {0}
  /\ \A line \in Lines : ObjectOf(line) \in Requested
<1>1. Lines \subseteq Objects /\ \A o \in Objects : o.id \in Ids /\ o.size \in Nat \ {0}
  BY LinesAssumption DEF Objects
<1>2. \A o \in Requested : o.size \in Nat \ {0}
  BY <1>1 DEF Requested
<1>3. ASSUME NEW line \in Lines PROVE ObjectOf(line) \in Requested
  <2>1. line = [id |-> line.id, size |-> line.size] /\ line.id \in Ids
    BY <1>1 DEF Objects
  <2> QED BY <2>1 DEF ObjectOf, Requested
<1> QED BY <1>2, <1>3

\* The product of two natural numbers is one.
LEMMA ProductNat == ASSUME NEW a \in Nat, NEW b \in Nat PROVE a * b \in Nat
OBVIOUS

\* A product grows with its first factor.
LEMMA ProductGrows ==
  ASSUME NEW a \in Nat, NEW b \in Nat, NEW n \in Nat, a <= b
  PROVE  a * n <= b * n
OBVIOUS

\* Weights are natural numbers, and grow with the count of the object.
LEMMA WeightNat ==
  ASSUME cacheType \in Policies, cacheType # "LRUK",
         NEW c \in Caches, NEW o \in Requested
  PROVE  /\ WeightIn(c, o) \in Nat
         /\ \A d \in Caches : c.reqsMap[o] <= d.reqsMap[o] =>
              WeightIn(c, o) <= WeightIn(d, o)
<1>1. /\ o.size \in Nat \ {0} /\ Unit \in Nat /\ c.reqsMap[o] \in Nat
      /\ c.reqsMap[o] * Unit \in Nat
      /\ cacheType \in {"GD", "GDS", "GDSF", "LFUDA"}
  BY RequestedSizes, LinesAssumption, ArgumentsAssumption DEF Caches
<1>2. WeightIn(c, o) \in Nat
  <2>1. Unit \div o.size \in Nat /\ (c.reqsMap[o] * Unit) \div o.size \in Nat
    BY <1>1, DivNat
  <2> QED BY <1>1, <2>1 DEF WeightIn
<1>3. ASSUME NEW d \in Caches, c.reqsMap[o] <= d.reqsMap[o]
      PROVE  WeightIn(c, o) <= WeightIn(d, o)
  <2>1. d.reqsMap[o] \in Nat /\ d.reqsMap[o] * Unit \in Nat
    <3>1. d.reqsMap[o] \in Nat
      BY DEF Caches
    <3> QED BY <1>1, <3>1, ProductNat
  <2>2. c.reqsMap[o] * Unit <= d.reqsMap[o] * Unit
    BY <1>1, <1>3, <2>1, ProductGrows
  <2>3. (c.reqsMap[o] * Unit) \div o.size <= (d.reqsMap[o] * Unit) \div o.size
    BY <1>1, <2>1, <2>2, DivNat
  <2>4. Unit \div o.size \in Nat
    BY <1>1, DivNat
  <2>5. CASE cacheType = "GD"
    BY <1>1, <2>5 DEF WeightIn
  <2>6. CASE cacheType = "GDS"
    BY <1>1, <2>4, <2>6 DEF WeightIn
  <2>7. CASE cacheType = "GDSF"
    BY <2>3, <2>7 DEF WeightIn
  <2>8. CASE cacheType = "LFUDA"
    BY <2>2, <2>8 DEF WeightIn
  <2> QED BY <1>1, <2>5, <2>6, <2>7, <2>8
<1> QED BY <1>2, <1>3

\* A weight depends on the count of the object only.
LEMMA WeightSame ==
  ASSUME NEW c, NEW d, NEW o, c.reqsMap[o] = d.reqsMap[o]
  PROVE  WeightIn(c, o) = WeightIn(d, o)
BY DEF WeightIn

----------------------------------------------------------------------------
(***************************************************************************)
(* Eviction.  d is what evictions left of c.                               *)
(***************************************************************************)
Evicted(c, d) ==
  /\ d.size = c.size /\ d.reqsMap = c.reqsMap /\ d.curTime = c.curTime
  /\ d.map \subseteq c.map
  /\ ToSet(d.values) \subseteq ToSet(c.values)
  /\ \A a, b : Before(d.values, a, b) => Before(c.values, a, b)
  /\ \A o \in Requested :
       d.refsMap[o] = IF cacheType = "LRUK" /\ o \in c.map \ d.map THEN <<>>
                      ELSE c.refsMap[o]

\* evict(): the first entry goes, with what the maps say of its object.
LEMMA EvictInv ==
  ASSUME cacheType \in Policies, NEW c, Consistent(c), c.values # <<>>,
         NEW d, d = Evict(c)
  PROVE  /\ Consistent(d) /\ Evicted(c, d) /\ Len(d.values) = Len(c.values) - 1
         /\ Aged(c) => Aged(d)
<1> DEFINE victim == Head(c.values)
<1>1. /\ 1 \in DOMAIN c.values /\ victim = c.values[1] /\ victim \in Entries
      /\ Tail(c.values) = RemoveAt(c.values, 1)
      /\ \A e \in ToSet(c.values) : victim.val <= e.val
  BY TailEntry DEF Consistent
<1>2. /\ ValueMap(Tail(c.values)) /\ Len(Tail(c.values)) = Len(c.values) - 1
      /\ ToSet(Tail(c.values)) = ToSet(c.values) \ {victim}
      /\ ObjectsIn(Tail(c.values)) = ObjectsIn(c.values) \ {victim.obj}
      /\ \A a, b : Before(Tail(c.values), a, b) => Before(c.values, a, b)
  <2>1. ValueMap(c.values)
    BY DEF Consistent
  <2> QED BY <1>1, <2>1, RemoveEntry
<1>3. victim.obj \in c.map /\ victim.obj \in Requested /\ victim.val \in Nat
      /\ victim \in ToSet(c.values)
  BY <1>1 DEF Consistent, ObjectsIn, Entries, ToSet
<1> HIDE DEF victim
<1>4. /\ Data!SizeSum(c.map) = victim.obj.size + Data!SizeSum(c.map \ {victim.obj})
      /\ Data!SizeSum(c.map \ {victim.obj}) \in Nat /\ Data!Sized(c.map \ {victim.obj})
      /\ victim.obj.size \in Nat
  BY <1>3, Data!SizeSumRemove, RequestedSizes DEF Consistent
<1>5. /\ c \in Caches /\ c.current = Data!SizeSum(c.map) /\ c.map = ObjectsIn(c.values)
  BY DEF Consistent
<1> DEFINE refs == [c.refsMap EXCEPT ![victim.obj] =
                      IF cacheType = "LRUK" THEN <<>> ELSE @]
<1>6. d = [c EXCEPT !.current = @ - victim.obj.size,
                    !.map     = @ \ {victim.obj},
                    !.L       = victim.val,
                    !.values  = Tail(@),
                    !.refsMap = refs]
  BY DEF Evict, victim
<1>7. /\ refs \in [Requested -> Seq(Nat)]
      /\ \A o \in Requested :
           refs[o] = IF cacheType = "LRUK" /\ o = victim.obj THEN <<>>
                     ELSE c.refsMap[o]
  BY <1>3, <1>5, EmptySeq DEF Caches
<1> HIDE DEF refs
<1>8. c.current - victim.obj.size \in Nat
      /\ c.current - victim.obj.size = Data!SizeSum(c.map \ {victim.obj})
  BY <1>4, <1>5
<1>9. Tail(c.values) \in Seq(Entries)
  BY <1>2 DEF ValueMap
<1>10. /\ d \in Caches
       /\ d.size = c.size /\ d.reqsMap = c.reqsMap /\ d.curTime = c.curTime
       /\ d.current = c.current - victim.obj.size
       /\ d.map = c.map \ {victim.obj} /\ d.L = victim.val
       /\ d.values = Tail(c.values) /\ d.refsMap = refs
  <2> DEFINE current == c.current - victim.obj.size
             map == c.map \ {victim.obj}
             values == Tail(c.values)
  <2>1. /\ c.size \in Nat /\ c.reqsMap \in [Requested -> Nat]
        /\ c.curTime \in Nat
        /\ current \in Nat /\ map \in SUBSET Requested
        /\ values \in Seq(Entries)
    BY <1>5, <1>8, <1>9 DEF Caches
  <2>2. d = [c EXCEPT !.current = current, !.map = map, !.L = victim.val,
                      !.values = values, !.refsMap = refs]
    BY <1>5, <1>6 DEF Caches
  <2> HIDE DEF current, map, values
  <2>3. d = [size |-> c.size, current |-> current, values |-> values,
             map |-> map, L |-> victim.val, reqsMap |-> c.reqsMap,
             refsMap |-> refs, curTime |-> c.curTime]
    BY <1>5, <2>2 DEF Caches
  <2>4. d \in Caches
    BY <1>3, <1>7, <2>1, <2>3 DEF Caches
  <2> QED BY <2>3, <2>4 DEF current, map, values
<1>11. Consistent(d)
  BY <1>2, <1>4, <1>5, <1>8, <1>10 DEF Consistent
<1>12. Evicted(c, d)
  BY <1>2, <1>3, <1>7, <1>10 DEF Evicted
<1>13. ASSUME Aged(c) PROVE Aged(d)
  <2> SUFFICES ASSUME cacheType # "LRUK", NEW e \in ToSet(d.values)
               PROVE  d.L <= e.val /\ e.val <= d.L + WeightIn(d, e.obj)
    BY DEF Aged
  <2>1. e \in ToSet(c.values) /\ d.L <= e.val
    BY <1>1, <1>2, <1>10
  <2>2. e \in Entries
    BY <1>5, <2>1, ElementOfSeq, LenProperties DEF Caches, ToSet
  <2>3. e.val <= c.L + WeightIn(c, e.obj) /\ c.L <= d.L
    BY <1>3, <1>10, <1>13, <2>1 DEF Aged
  <2>4. WeightIn(d, e.obj) = WeightIn(c, e.obj)
    BY <1>10, WeightSame
  <2>5. WeightIn(c, e.obj) \in Nat /\ c.L \in Nat /\ d.L \in Nat /\ e.val \in Nat
    BY <1>5, <1>10, <2>2, WeightNat DEF Caches, Entries
  <2> QED BY <2>1, <2>3, <2>4, <2>5
<1> QED BY <1>2, <1>10, <1>11, <1>12, <1>13

\* Evictions compose.
LEMMA EvictedTwice ==
  ASSUME NEW c, NEW d, NEW e, Evicted(c, d), Evicted(d, e)
  PROVE  Evicted(c, e)
BY DEF Evicted

\* The evictions of one request: they stop when the object fits, at the latest
\* when nothing is left, for an object that is smaller than the cache.
LEMMA MakeRoomInv ==
  ASSUME cacheType \in Policies, NEW c, Consistent(c),
         NEW size \in Nat, size < c.size, NEW d, d = MakeRoom(c, size)
  PROVE  /\ Consistent(d) /\ Evicted(c, d) /\ d.current + size <= d.size
         /\ Aged(c) => Aged(d)
<1> DEFINE n == Len(c.values)
           V == {x \in Caches : Consistent(x)}
           Rec(f) == [k \in 0..n |-> IF k = 0 THEN c ELSE Evict(f[k-1])]
           after == CHOOSE f : f = Rec(f)
           Fits(k) == after[k].current + size <= c.size
           step == [k \in 1..n |-> [x \in V |-> Evict(x)]]
<1>1. n \in Nat /\ c \in V /\ \A x \in V : Consistent(x) /\ Len(x.values) \in Nat
  BY LenProperties DEF Consistent, Caches
<1>2. step \in [1..n -> [V -> V]]
  <2> SUFFICES ASSUME NEW x \in V PROVE Evict(x) \in V
    OBVIOUS
  <2>1. CASE x.values = <<>>
    BY <2>1 DEF Evict
  <2>2. CASE x.values # <<>>
    BY <2>2, EvictInv DEF Consistent
  <2> QED BY <2>1, <2>2
<1> HIDE DEF V
<1>3. \E f : f \in [0..n -> V] /\ f = Rec(f)
  <2>1. PICK f : Data!IsRecursion(f, n, V, c, step)
    <3> HIDE DEF step, n
    <3> QED BY <1>1, <1>2, Data!RecursionExists
  <2>2. /\ f \in [0..n -> V] /\ f[0] = c
        /\ \A k \in 1..n : f[k] = Evict(f[k-1])
    <3>1. f \in [0..n -> V] /\ f[0] = c /\ \A k \in 1..n : f[k] = step[k][f[k-1]]
      BY <2>1 DEF Data!IsRecursion
    <3>2. ASSUME NEW k \in 1..n PROVE f[k] = Evict(f[k-1])
      <4>1. f[k-1] \in V
        <5> HIDE DEF n
        <5> QED BY <1>1, <3>1
      <4>2. \A x \in V : step[k][x] = Evict(x)
        <5> HIDE DEF n
        <5> QED OBVIOUS
      <4> QED BY <3>1, <4>1, <4>2
    <3> QED BY <3>1, <3>2
  <2>3. f = Rec(f)
    BY <1>1, <2>2
  <2> QED BY <2>2, <2>3
<1> HIDE DEF n, step
<1>4. after = Rec(after)
  BY <1>3
<1>5. d = after[CHOOSE k \in DOMAIN after : Fits(k) /\ \A j \in 0..(k-1) : ~Fits(j)]
  BY DEF MakeRoom, n
<1> HIDE DEF after
<1>6. /\ DOMAIN after = 0..n /\ after[0] = c
      /\ \A k \in 1..n : after[k] = Evict(after[k-1])
  BY <1>1, <1>4
<1> DEFINE Good(k) == /\ Consistent(after[k]) /\ Evicted(c, after[k])
                      /\ Len(after[k].values) = n - k
                      /\ Aged(c) => Aged(after[k])
           P == {k \in 0..n : Good(k)}
<1>7. 0 \in P
  BY <1>1, <1>6 DEF Evicted, n
<1>8. ASSUME NEW k \in 1..n, k - 1 \in P PROVE k \in P
  <2>1. Good(k - 1) /\ k - 1 \in 0..n
    BY <1>8
  <2> HIDE DEF P
  <2>2. after[k-1].values # <<>>
    BY <1>1, <2>1
  <2>3. /\ Consistent(after[k]) /\ Evicted(after[k-1], after[k])
        /\ Len(after[k].values) = Len(after[k-1].values) - 1
        /\ Aged(after[k-1]) => Aged(after[k])
    BY <1>6, <2>1, <2>2, EvictInv
  <2>4. Evicted(c, after[k])
    BY <2>1, <2>3, EvictedTwice
  <2>5. Len(after[k].values) = n - k
    BY <1>1, <2>1, <2>3
  <2> QED BY <2>1, <2>3, <2>4, <2>5 DEF P
<1>9. P = 0..n
  <2>1. P \in SUBSET (0..n)
    OBVIOUS
  <2> HIDE DEF P
  <2> QED BY <1>1, <1>7, <1>8, <2>1, Data!UptoInduction
<1>10. \A k \in 0..n : Good(k)
  BY <1>9
<1> HIDE DEF P
<1>11. Fits(n)
  <2>1. Good(n)
    BY <1>1, <1>10
  <2>2. after[n].values = <<>>
    BY <1>1, <2>1, EmptySeq DEF Consistent, ValueMap
  <2>3. after[n].map = {}
    BY <2>1, <2>2 DEF Consistent, ObjectsIn
  <2>4. Data!Sized({})
    BY FS_EmptySet, FiniteSame DEF Data!Sized
  <2>5. after[n].current = 0
    BY <2>1, <2>3, <2>4, Data!SizeSumNat DEF Consistent
  <2> QED BY <1>1, <2>5 DEF Consistent, Caches
<1>12. PICK k \in 0..n : Fits(k) /\ \A j \in 0..(k-1) : ~Fits(j)
  <2> DEFINE T == {k \in 0..n : Fits(k)}
  <2>1. T \in SUBSET Nat /\ T # {}
    BY <1>1, <1>11
  <2>2. PICK k \in T : \A m \in T : k <= m
    BY <2>1, Data!LeastNat
  <2>3. \A j \in 0..(k-1) : j \in 0..n /\ ~(k <= j)
    BY <1>1
  <2>4. \A j \in 0..(k-1) : ~Fits(j)
    BY <2>2, <2>3
  <2> QED BY <2>2, <2>4
<1>13. PICK m \in 0..n : d = after[m] /\ Fits(m)
  <2> HIDE DEF Fits
  <2> QED BY <1>5, <1>6, <1>12
<1> QED BY <1>10, <1>13 DEF Evicted

----------------------------------------------------------------------------
(***************************************************************************)
(* The steps of a request: the reference, the count and the new value.     *)
(***************************************************************************)
LEMMA ReferencedInv ==
  ASSUME NEW c, Consistent(c), NEW o \in Requested, NEW d, d = Referenced(c, o)
  PROVE  /\ Consistent(d)
         /\ d.size = c.size /\ d.current = c.current /\ d.values = c.values
         /\ d.map = c.map /\ d.L = c.L /\ d.reqsMap = c.reqsMap
         /\ cacheType # "LRUK" => d = c
         /\ cacheType = "LRUK" =>
              /\ d.curTime = c.curTime + 1
              /\ d.refsMap[o] = Append(c.refsMap[o], c.curTime + 1)
              /\ \A x \in Requested : x # o => d.refsMap[x] = c.refsMap[x]
         /\ Aged(c) => Aged(d)
<1>1. CASE cacheType # "LRUK"
  <2>1. d = c
    BY <1>1 DEF Referenced
  <2> QED BY <1>1, <2>1
<1>2. CASE cacheType = "LRUK"
  <2> DEFINE refs == [c.refsMap EXCEPT ![o] = Append(@, c.curTime + 1)]
  <2>1. c \in Caches /\ c.curTime + 1 \in Nat
    BY DEF Consistent, Caches
  <2>2. refs \in [Requested -> Seq(Nat)]
    <3>1. c.refsMap \in [Requested -> Seq(Nat)] /\ c.refsMap[o] \in Seq(Nat)
      BY <2>1 DEF Caches
    <3>2. Append(c.refsMap[o], c.curTime + 1) \in Seq(Nat)
      BY <2>1, <3>1, AppendProperties
    <3> QED BY <3>1, <3>2
  <2>3. d = [c EXCEPT !.curTime = c.curTime + 1, !.refsMap = refs]
    BY <1>2 DEF Referenced
  <2>4. /\ refs[o] = Append(c.refsMap[o], c.curTime + 1)
        /\ \A x \in Requested : x # o => refs[x] = c.refsMap[x]
    BY <2>1 DEF Caches
  <2> HIDE DEF refs
  <2>5. /\ d \in Caches
        /\ d.size = c.size /\ d.current = c.current /\ d.values = c.values
        /\ d.map = c.map /\ d.L = c.L /\ d.reqsMap = c.reqsMap
        /\ d.curTime = c.curTime + 1 /\ d.refsMap = refs
    BY <2>1, <2>2, <2>3 DEF Caches
  <2>6. Consistent(d) /\ Aged(d)
    BY <1>2, <2>5 DEF Consistent, Aged
  <2> QED BY <1>2, <2>4, <2>5, <2>6
<1> QED BY <1>1, <1>2

WithCount(c, o, n) == IF cacheType \notin {"GDSF", "LFUDA"} THEN c
                      ELSE [c EXCEPT !.reqsMap[o] = n]

\* A new count n of o, which falls only when o is not stored.
LEMMA CountedInv ==
  ASSUME cacheType \in Policies, NEW c, Consistent(c), NEW o \in Requested,
         NEW n \in Nat, c.reqsMap[o] <= n \/ o \notin c.map,
         NEW d, d = WithCount(c, o, n)
  PROVE  /\ Consistent(d)
         /\ d.size = c.size /\ d.current = c.current /\ d.values = c.values
         /\ d.map = c.map /\ d.L = c.L /\ d.refsMap = c.refsMap
         /\ d.curTime = c.curTime
         /\ \A x \in Requested : x # o => d.reqsMap[x] = c.reqsMap[x]
         /\ cacheType \in {"GDSF", "LFUDA"} => d.reqsMap[o] = n
         /\ Aged(c) => Aged(d)
<1>1. CASE cacheType \notin {"GDSF", "LFUDA"}
  <2>1. d = c
    BY <1>1 DEF WithCount
  <2> QED BY <1>1, <2>1
<1>2. CASE cacheType \in {"GDSF", "LFUDA"}
  <2> DEFINE counts == [c.reqsMap EXCEPT ![o] = n]
  <2>1. c \in Caches /\ c.map = ObjectsIn(c.values)
    BY DEF Consistent
  <2>2. /\ counts \in [Requested -> Nat] /\ counts[o] = n
        /\ \A x \in Requested : x # o => counts[x] = c.reqsMap[x]
        /\ o \in c.map => c.reqsMap[o] <= counts[o]
    BY <2>1 DEF Caches
  <2>3. d = [c EXCEPT !.reqsMap = counts]
    BY <1>2 DEF WithCount
  <2> HIDE DEF counts
  <2>4. /\ d \in Caches
        /\ d.size = c.size /\ d.current = c.current /\ d.values = c.values
        /\ d.map = c.map /\ d.L = c.L /\ d.refsMap = c.refsMap
        /\ d.curTime = c.curTime /\ d.reqsMap = counts
    BY <2>1, <2>2, <2>3 DEF Caches
  <2>5. Consistent(d)
    BY <2>4 DEF Consistent
  <2>6. ASSUME Aged(c) PROVE Aged(d)
    <3> SUFFICES ASSUME NEW e \in ToSet(c.values)
                 PROVE  d.L <= e.val /\ e.val <= d.L + WeightIn(d, e.obj)
      BY <2>4 DEF Aged
    <3>1. e \in Entries /\ e.obj \in c.map
      <4>1. PICK i \in DOMAIN c.values : e = c.values[i]
        BY DEF ToSet
      <4>2. c.values \in Seq(Entries)
        BY <2>1 DEF Caches
      <4> QED BY <2>1, <4>1, <4>2, ElementOfSeq, LenProperties DEF ObjectsIn
    <3>2. c.L <= e.val /\ e.val <= c.L + WeightIn(c, e.obj)
      BY <1>2, <2>6 DEF Aged
    <3>3. c.reqsMap[e.obj] <= d.reqsMap[e.obj]
      <4>1. CASE e.obj = o
        BY <2>2, <2>4, <3>1, <4>1
      <4>2. CASE e.obj # o
        BY <2>1, <2>2, <2>4, <3>1, <4>2 DEF Caches, Entries
      <4> QED BY <4>1, <4>2
    <3>4. /\ WeightIn(c, e.obj) \in Nat /\ WeightIn(d, e.obj) \in Nat
          /\ WeightIn(c, e.obj) <= WeightIn(d, e.obj)
      BY <1>2, <2>1, <2>4, <3>1, <3>3, WeightNat DEF Entries
    <3>5. c.L \in Nat /\ e.val \in Nat
      BY <2>1, <3>1 DEF Caches, Entries
    <3> QED BY <2>4, <3>2, <3>4, <3>5
  <2> QED BY <1>2, <2>2, <2>4, <2>5, <2>6
<1> QED BY <1>1, <1>2

\* The two uses of a new count.
LEMMA CountedIs ==
  ASSUME NEW c, NEW o
  PROVE  /\ Counted(c, o, TRUE) = WithCount(c, o, c.reqsMap[o] + 1)
         /\ Counted(c, o, FALSE) = WithCount(c, o, 1)
BY DEF Counted, WithCount

\* The value ageValue() gives is a natural number: the age and the weight of
\* the object, but for LRU-K.
LEMMA AgeValueNat ==
  ASSUME cacheType \in Policies, NEW c \in Caches, NEW o \in Requested
  PROVE  /\ AgeValue(c, o) \in Nat
         /\ cacheType # "LRUK" => AgeValue(c, o) = c.L + WeightIn(c, o)
         /\ RefsLeft(c, o) \in [Requested -> Seq(Nat)]
         /\ \A x \in Requested : x # o => RefsLeft(c, o)[x] = c.refsMap[x]
<1>1. /\ cacheType \in {"GD", "GDS", "GDSF", "LRUK", "LFUDA"}
      /\ c.L \in Nat /\ K \in Nat \ {0}
      /\ c.refsMap \in [Requested -> Seq(Nat)] /\ c.refsMap[o] \in Seq(Nat)
  BY ArgumentsAssumption DEF Caches
<1>2. CASE cacheType # "LRUK"
  <2>1. AgeValue(c, o) = c.L + WeightIn(c, o)
    <3>1. CASE cacheType = "GD"
      BY <3>1 DEF AgeValue, WeightIn
    <3>2. CASE cacheType = "GDS"
      BY <3>2 DEF AgeValue, WeightIn
    <3>3. CASE cacheType = "GDSF"
      BY <3>3 DEF AgeValue, WeightIn
    <3>4. CASE cacheType = "LFUDA"
      BY <3>4 DEF AgeValue, WeightIn
    <3> QED BY <1>1, <1>2, <3>1, <3>2, <3>3, <3>4
  <2>2. WeightIn(c, o) \in Nat
    BY <1>2, WeightNat
  <2>3. RefsLeft(c, o) = c.refsMap
    BY <1>2 DEF RefsLeft
  <2> QED BY <1>1, <2>1, <2>2, <2>3
<1>3. CASE cacheType = "LRUK"
  <2>1. CASE Len(c.refsMap[o]) >= K
    <3>1. 1 \in 1..Len(c.refsMap[o]) /\ c.refsMap[o] # <<>>
      BY <1>1, <2>1, LenProperties, EmptySeq
    <3>2. c.refsMap[o][1] \in Nat /\ Tail(c.refsMap[o]) \in Seq(Nat)
      BY <1>1, <3>1, ElementOfSeq, HeadTailProperties
    <3>3. AgeValue(c, o) = c.refsMap[o][1]
      BY <1>3, <2>1 DEF AgeValue
    <3>4. RefsLeft(c, o) = [c.refsMap EXCEPT ![o] = Tail(@)]
      BY <1>3, <2>1 DEF RefsLeft
    <3> QED BY <1>1, <1>3, <3>2, <3>3, <3>4
  <2>2. CASE ~(Len(c.refsMap[o]) >= K)
    <3>1. AgeValue(c, o) = 0
      BY <1>3, <2>2 DEF AgeValue
    <3>2. RefsLeft(c, o) = c.refsMap
      BY <1>3, <2>2 DEF RefsLeft
    <3> QED BY <1>1, <1>3, <3>1, <3>2
  <2> QED BY <2>1, <2>2
<1> QED BY <1>2, <1>3

\* The entry of an object is placed among those of the others.
LEMMA ValuedInv ==
  ASSUME cacheType \in Policies, NEW c \in Caches, ValueMap(c.values),
         NEW o \in Requested, o \notin ObjectsIn(c.values),
         NEW d, d = Valued(c, o),
         NEW e, e = [val |-> AgeValue(c, o), obj |-> o]
  PROVE  /\ d \in Caches /\ ValueMap(d.values) /\ e \in Entries
         /\ d.size = c.size /\ d.current = c.current /\ d.map = c.map
         /\ d.L = c.L /\ d.reqsMap = c.reqsMap /\ d.curTime = c.curTime
         /\ d.refsMap = RefsLeft(c, o)
         /\ ToSet(d.values) = ToSet(c.values) \cup {e}
         /\ ObjectsIn(d.values) = ObjectsIn(c.values) \cup {o}
         /\ \A a, b : Before(d.values, a, b) =>
              Before(c.values, a, b) \/ (a = e /\ b \in ToSet(c.values) /\ b.val > e.val)
                                     \/ (b = e /\ a \in ToSet(c.values))
         /\ Aged(c) => Aged(d)
<1>1. /\ AgeValue(c, o) \in Nat
      /\ cacheType # "LRUK" => AgeValue(c, o) = c.L + WeightIn(c, o)
      /\ RefsLeft(c, o) \in [Requested -> Seq(Nat)]
  BY AgeValueNat
<1> DEFINE t == Emplace(c.values, AgeValue(c, o), o)
<1>2. /\ ValueMap(t)
      /\ ToSet(t) = ToSet(c.values) \cup {e}
      /\ ObjectsIn(t) = ObjectsIn(c.values) \cup {o}
      /\ \A a, b : Before(t, a, b) =>
           \/ Before(c.values, a, b)
           \/ a = e /\ b \in ToSet(c.values) /\ b.val > AgeValue(c, o)
           \/ b = e /\ a \in ToSet(c.values) /\ a.val <= AgeValue(c, o)
  BY <1>1, EmplaceEntry
<1>3. d = [c EXCEPT !.values = t, !.refsMap = RefsLeft(c, o)]
  BY DEF Valued
<1> HIDE DEF t
<1>4. t \in Seq(Entries) /\ e \in Entries /\ e.val = AgeValue(c, o) /\ e.obj = o
  BY <1>1, <1>2 DEF ValueMap, Entries
<1>5. /\ d \in Caches
      /\ d.size = c.size /\ d.current = c.current /\ d.map = c.map
      /\ d.L = c.L /\ d.reqsMap = c.reqsMap /\ d.curTime = c.curTime
      /\ d.refsMap = RefsLeft(c, o) /\ d.values = t
  BY <1>1, <1>3, <1>4 DEF Caches
<1>6. ASSUME Aged(c) PROVE Aged(d)
  <2> SUFFICES ASSUME cacheType # "LRUK", NEW x \in ToSet(t)
               PROVE  d.L <= x.val /\ x.val <= d.L + WeightIn(d, x.obj)
    BY <1>5 DEF Aged
  <2>1. WeightIn(d, x.obj) = WeightIn(c, x.obj)
    BY <1>5, WeightSame
  <2>2. CASE x = e
    <3>1. WeightIn(c, o) \in Nat /\ c.L \in Nat
      BY WeightNat DEF Caches
    <3> QED BY <1>1, <1>4, <1>5, <2>1, <2>2, <3>1
  <2>3. CASE x \in ToSet(c.values)
    BY <1>5, <1>6, <2>1, <2>3 DEF Aged
  <2> QED BY <1>2, <2>2, <2>3
<1> QED BY <1>2, <1>4, <1>5, <1>6

----------------------------------------------------------------------------
(***************************************************************************)
(* What a request for o that stores it makes of the cache: evictions, and  *)
(* the entry e of o, whose place is after every entry it is worth as much  *)
(* as.                                                                     *)
(***************************************************************************)
Renewed(c, d, o, e) ==
  /\ Consistent(d) /\ d.size = c.size /\ o \in d.map /\ d.map \subseteq c.map \cup {o}
  /\ e \in ToSet(d.values) /\ e \in Entries /\ e.obj = o
  /\ \A x \in ToSet(d.values) : x = e \/ (x \in ToSet(c.values) /\ x.obj # o)
  /\ \A a, b : Before(d.values, a, b) =>
       \/ Before(c.values, a, b) /\ a.obj # o /\ b.obj # o
       \/ a = e /\ b \in ToSet(d.values) /\ b.val > e.val
       \/ b = e /\ a.obj # o
  /\ cacheType \in {"GDSF", "LFUDA"} =>
       /\ d.reqsMap[o] = IF o \in c.map THEN c.reqsMap[o] + 1 ELSE 1
       /\ \A x \in Requested : x # o => d.reqsMap[x] = c.reqsMap[x]
  /\ cacheType = "GD" => e.val = d.L + Unit
  /\ cacheType = "GDS" => e.val = d.L + Unit \div o.size
  /\ cacheType \in {"GDSF", "LFUDA"} =>
       e.val = d.L + FrequencyWeight(o, IF o \in c.map THEN c.reqsMap[o] ELSE 1)
  /\ cacheType = "LRUK" =>
       LET r == Append(c.refsMap[o], c.curTime + 1)
       IN  /\ d.curTime = c.curTime + 1
           /\ IF Len(r) >= K THEN e.val = r[1] /\ d.refsMap[o] = Tail(r)
                             ELSE e.val = 0 /\ d.refsMap[o] = r
           /\ \A x \in Requested : x # o =>
                d.refsMap[x] = IF x \in c.map \ d.map THEN <<>> ELSE c.refsMap[x]

\* The value and the references that LRU-K leaves.
LEMMA LRUKValue ==
  ASSUME cacheType = "LRUK", NEW c \in Caches, NEW o \in Requested,
         NEW r, r = c.refsMap[o]
  PROVE  IF Len(r) >= K THEN AgeValue(c, o) = r[1] /\ RefsLeft(c, o)[o] = Tail(r)
         ELSE AgeValue(c, o) = 0 /\ RefsLeft(c, o)[o] = r
<1>1. c.refsMap \in [Requested -> Seq(Nat)]
  BY DEF Caches
<1>2. CASE Len(r) >= K
  BY <1>1, <1>2 DEF AgeValue, RefsLeft
<1>3. CASE ~(Len(r) >= K)
  BY <1>1, <1>3 DEF AgeValue, RefsLeft
<1> QED BY <1>2, <1>3

\* lookup() of an object in the cache gives it a new entry.
LEMMA HitRenews ==
  ASSUME cacheType \in Policies, NEW c, Consistent(c), NEW o \in c.map,
         NEW d, d = WithCount(Hit(Referenced(c, o), o), o, c.reqsMap[o] + 1)
  PROVE  /\ \E e : Renewed(c, d, o, e)
         /\ d.map = c.map /\ d.current = c.current
         /\ Aged(c) => Aged(d)
<1> DEFINE c1 == Referenced(c, o)
           c2 == [c1 EXCEPT !.values = RemoveAt(@, Place(c1, o))]
           c3 == Valued(c2, o)
           e  == [val |-> AgeValue(c2, o), obj |-> o]
<1>1. o \in Requested /\ c \in Caches /\ c.map = ObjectsIn(c.values)
  BY DEF Consistent, Caches
<1>2. /\ Consistent(c1)
      /\ c1.size = c.size /\ c1.current = c.current /\ c1.values = c.values
      /\ c1.map = c.map /\ c1.L = c.L /\ c1.reqsMap = c.reqsMap
      /\ cacheType # "LRUK" => c1 = c
      /\ cacheType = "LRUK" =>
           /\ c1.curTime = c.curTime + 1
           /\ c1.refsMap[o] = Append(c.refsMap[o], c.curTime + 1)
           /\ \A x \in Requested : x # o => c1.refsMap[x] = c.refsMap[x]
      /\ Aged(c) => Aged(c1)
  BY <1>1, ReferencedInv
<1> HIDE DEF c1
<1>3. PICK p \in DOMAIN c1.values : p = Place(c1, o) /\ c1.values[p].obj = o
  <2>1. \E i \in DOMAIN c1.values : c1.values[i].obj = o
    BY <1>1, <1>2 DEF ObjectsIn
  <2> QED BY <2>1 DEF Place
<1> DEFINE t == RemoveAt(c1.values, p)
<1>4. /\ ValueMap(t)
      /\ ToSet(t) = ToSet(c.values) \ {c.values[p]}
      /\ ObjectsIn(t) = ObjectsIn(c.values) \ {o}
      /\ \A a, b : Before(t, a, b) => Before(c.values, a, b)
  BY <1>2, <1>3, RemoveEntry DEF Consistent
<1>5. c2 = [c1 EXCEPT !.values = t]
  BY <1>3
<1> HIDE DEF t, c2
<1>6. /\ c2 \in Caches /\ c2.values = t
      /\ c2.size = c1.size /\ c2.current = c1.current /\ c2.map = c1.map
      /\ c2.L = c1.L /\ c2.reqsMap = c1.reqsMap /\ c2.refsMap = c1.refsMap
      /\ c2.curTime = c1.curTime
  <2>1. c1 \in Caches
    BY <1>2 DEF Consistent
  <2>2. t \in Seq(Entries)
    BY <1>4 DEF ValueMap
  <2> QED BY <1>5, <2>1, <2>2 DEF Caches
<1>7. Aged(c) => Aged(c2)
  <2>1. ToSet(c2.values) \subseteq ToSet(c1.values)
    BY <1>2, <1>4, <1>6
  <2>2. \A x : WeightIn(c2, x.obj) = WeightIn(c1, x.obj)
    BY <1>6, WeightSame
  <2> QED BY <1>2, <1>6, <2>1, <2>2 DEF Aged
<1>8. /\ c3 \in Caches /\ ValueMap(c3.values) /\ e \in Entries
      /\ c3.size = c2.size /\ c3.current = c2.current /\ c3.map = c2.map
      /\ c3.L = c2.L /\ c3.reqsMap = c2.reqsMap /\ c3.curTime = c2.curTime
      /\ c3.refsMap = RefsLeft(c2, o)
      /\ ToSet(c3.values) = ToSet(c2.values) \cup {e}
      /\ ObjectsIn(c3.values) = ObjectsIn(c2.values) \cup {o}
      /\ \A a, b : Before(c3.values, a, b) =>
           Before(c2.values, a, b) \/ (a = e /\ b \in ToSet(c2.values) /\ b.val > e.val)
                                  \/ (b = e /\ a \in ToSet(c2.values))
      /\ Aged(c2) => Aged(c3)
  <2>1. ValueMap(c2.values) /\ o \notin ObjectsIn(c2.values)
    BY <1>4, <1>6
  <2> QED BY <1>1, <1>6, <2>1, ValuedInv
<1>9. /\ cacheType # "LRUK" => AgeValue(c2, o) = c2.L + WeightIn(c2, o)
      /\ \A x \in Requested : x # o => RefsLeft(c2, o)[x] = c2.refsMap[x]
      /\ cacheType = "LRUK" =>
           LET r == c2.refsMap[o]
           IN  IF Len(r) >= K THEN AgeValue(c2, o) = r[1] /\ RefsLeft(c2, o)[o] = Tail(r)
               ELSE AgeValue(c2, o) = 0 /\ RefsLeft(c2, o)[o] = r
  BY <1>1, <1>6, AgeValueNat, LRUKValue
<1>10. e.val = AgeValue(c2, o) /\ e.obj = o
  OBVIOUS
<1>11. d = WithCount(c3, o, c.reqsMap[o] + 1)
  BY DEF Hit, c1, c2
<1> HIDE DEF c3, e
<1>12. Consistent(c3)
  <2>1. ObjectsIn(c3.values) = c3.map
    BY <1>1, <1>2, <1>4, <1>6, <1>8
  <2>2. c3.current = Data!SizeSum(c3.map) /\ Data!Sized(c3.map)
    BY <1>2, <1>6, <1>8 DEF Consistent
  <2> QED BY <1>8, <2>1, <2>2 DEF Consistent
<1>13. /\ Consistent(d)
       /\ d.size = c3.size /\ d.current = c3.current /\ d.values = c3.values
       /\ d.map = c3.map /\ d.L = c3.L /\ d.refsMap = c3.refsMap
       /\ d.curTime = c3.curTime
       /\ \A x \in Requested : x # o => d.reqsMap[x] = c3.reqsMap[x]
       /\ cacheType \in {"GDSF", "LFUDA"} => d.reqsMap[o] = c.reqsMap[o] + 1
       /\ Aged(c3) => Aged(d)
  <2>1. PICK n \in Nat : n = c.reqsMap[o] + 1 /\ c3.reqsMap[o] <= n
    <3>1. c.reqsMap[o] \in Nat /\ c3.reqsMap = c.reqsMap
      BY <1>1, <1>2, <1>6, <1>8 DEF Caches
    <3> QED BY <3>1
  <2>2. d = WithCount(c3, o, n)
    BY <1>11, <2>1
  <2> QED BY <1>1, <1>12, <2>1, <2>2, CountedInv
<1>14. /\ d.map = c.map /\ d.size = c.size /\ d.current = c.current
       /\ ToSet(d.values) = ToSet(t) \cup {e} /\ d.L = c.L
  BY <1>2, <1>6, <1>8, <1>13
<1>15. \A x \in ToSet(t) : x \in ToSet(c.values) /\ x.obj # o
  <2> SUFFICES ASSUME NEW x \in ToSet(t) PROVE x \in ToSet(c.values) /\ x.obj # o
    OBVIOUS
  <2>1. x.obj \in ObjectsIn(t)
    BY DEF ToSet, ObjectsIn
  <2> QED BY <1>4, <2>1
<1>16. ASSUME NEW a, NEW b, Before(d.values, a, b)
       PROVE  \/ Before(c.values, a, b) /\ a.obj # o /\ b.obj # o
              \/ a = e /\ b \in ToSet(d.values) /\ b.val > e.val
              \/ b = e /\ a.obj # o
  <2>1. CASE Before(t, a, b)
    <3>1. a \in ToSet(t) /\ b \in ToSet(t)
      BY <2>1 DEF Before, ToSet
    <3> QED BY <1>4, <1>15, <2>1, <3>1
  <2>2. CASE a = e /\ b \in ToSet(t) /\ b.val > e.val
    BY <1>14, <2>2
  <2>3. CASE b = e /\ a \in ToSet(t)
    BY <1>15, <2>3
  <2>4. Before(c3.values, a, b) /\ c2.values = t
    BY <1>6, <1>13, <1>16
  <2>5. \/ Before(t, a, b) \/ (a = e /\ b \in ToSet(t) /\ b.val > e.val)
        \/ (b = e /\ a \in ToSet(t))
    BY <1>8, <2>4
  <2> QED BY <2>1, <2>2, <2>3, <2>5
<1>17. /\ cacheType = "GD" => e.val = d.L + Unit
       /\ cacheType = "GDS" => e.val = d.L + Unit \div o.size
  <2>1. /\ cacheType = "GD" => WeightIn(c2, o) = Unit
        /\ cacheType = "GDS" => WeightIn(c2, o) = Unit \div o.size
    BY DEF WeightIn
  <2>2. e.val = AgeValue(c2, o) /\ c2.L = d.L
    BY <1>2, <1>6, <1>10, <1>14
  <2> QED BY <1>9, <2>1, <2>2
<1>18. cacheType \in {"GDSF", "LFUDA"} =>
         /\ d.reqsMap[o] = c.reqsMap[o] + 1
         /\ \A x \in Requested : x # o => d.reqsMap[x] = c.reqsMap[x]
  <2>1. c3.reqsMap = c.reqsMap
    BY <1>2, <1>6, <1>8
  <2> QED BY <1>13, <2>1
<1>19. ASSUME cacheType = "LRUK"
       PROVE  LET r == Append(c.refsMap[o], c.curTime + 1)
              IN  /\ d.curTime = c.curTime + 1
                  /\ IF Len(r) >= K THEN e.val = r[1] /\ d.refsMap[o] = Tail(r)
                                    ELSE e.val = 0 /\ d.refsMap[o] = r
                  /\ \A x \in Requested : x # o => d.refsMap[x] = c.refsMap[x]
  <2>1. d.refsMap = RefsLeft(c2, o) /\ d.curTime = c.curTime + 1
    BY <1>2, <1>6, <1>8, <1>13, <1>19
  <2>2. c2.refsMap[o] = Append(c.refsMap[o], c.curTime + 1)
    BY <1>2, <1>6, <1>19
  <2>3. \A x \in Requested : x # o => RefsLeft(c2, o)[x] = c.refsMap[x]
    BY <1>2, <1>6, <1>9, <1>19
  <2> QED BY <1>9, <1>10, <1>19, <2>1, <2>2, <2>3
<1>20. Renewed(c, d, o, e)
  <2>1. /\ Consistent(d) /\ d.size = c.size /\ o \in d.map /\ d.map \subseteq c.map \cup {o}
        /\ e \in ToSet(d.values) /\ e \in Entries /\ e.obj = o
        /\ \A x \in ToSet(d.values) : x = e \/ (x \in ToSet(c.values) /\ x.obj # o)
    BY <1>8, <1>10, <1>13, <1>14, <1>15
  <2>2. c.map \ d.map = {}
    BY <1>14
  <2>3. ASSUME cacheType \in {"GDSF", "LFUDA"}
        PROVE  e.val = d.L + FrequencyWeight(o, IF o \in c.map THEN c.reqsMap[o] ELSE 1)
    <3>1. FrequencyWeight(o, c.reqsMap[o]) = WeightIn(c2, o)
      BY <1>2, <1>6, <2>3 DEF FrequencyWeight, WeightIn
    <3>2. e.val = AgeValue(c2, o) /\ c2.L = d.L
      BY <1>2, <1>6, <1>10, <1>14
    <3> QED BY <1>9, <2>3, <3>1, <3>2
  <2> QED BY <2>1, <2>2, <2>3, <1>16, <1>17, <1>18, <1>19 DEF Renewed
<1> QED BY <1>7, <1>2, <1>8, <1>13, <1>14, <1>20

\* admit() makes room and gives the object an entry.
LEMMA AdmitRenews ==
  ASSUME cacheType \in Policies, NEW c, Consistent(c),
         NEW o \in Requested, o \notin c.map, o.size < c.size,
         NEW d, d = AdmitInto(MakeRoom(WithCount(Referenced(c, o), o, 1), o.size), o)
  PROVE  /\ \E e : Renewed(c, d, o, e)
         /\ d.current <= d.size
         /\ Aged(c) => Aged(d)
<1> DEFINE c1 == Referenced(c, o)
           c2 == WithCount(c1, o, 1)
           c3 == MakeRoom(c2, o.size)
           c4 == Valued(c3, o)
           e  == [val |-> AgeValue(c3, o), obj |-> o]
<1>1. c \in Caches /\ c.map = ObjectsIn(c.values) /\ o.size \in Nat \ {0}
  BY RequestedSizes DEF Consistent
<1>2. /\ Consistent(c1)
      /\ c1.size = c.size /\ c1.values = c.values
      /\ c1.map = c.map /\ c1.L = c.L /\ c1.reqsMap = c.reqsMap
      /\ cacheType = "LRUK" =>
           /\ c1.curTime = c.curTime + 1
           /\ c1.refsMap[o] = Append(c.refsMap[o], c.curTime + 1)
           /\ \A x \in Requested : x # o => c1.refsMap[x] = c.refsMap[x]
      /\ Aged(c) => Aged(c1)
  BY ReferencedInv
<1> HIDE DEF c1
<1>3. /\ Consistent(c2)
      /\ c2.size = c1.size /\ c2.values = c1.values
      /\ c2.map = c1.map /\ c2.L = c1.L /\ c2.refsMap = c1.refsMap
      /\ c2.curTime = c1.curTime
      /\ \A x \in Requested : x # o => c2.reqsMap[x] = c1.reqsMap[x]
      /\ cacheType \in {"GDSF", "LFUDA"} => c2.reqsMap[o] = 1
      /\ Aged(c1) => Aged(c2)
  <2>1. c1.reqsMap[o] <= 1 \/ o \notin c1.map
    BY <1>2
  <2> QED BY <1>2, <2>1, CountedInv
<1> HIDE DEF c2
<1>4. /\ Consistent(c3) /\ Evicted(c2, c3) /\ c3.current + o.size <= c3.size
      /\ Aged(c2) => Aged(c3)
  <2>1. o.size \in Nat /\ o.size < c2.size
    BY <1>1, <1>2, <1>3
  <2> QED BY <1>3, <2>1, MakeRoomInv
<1> HIDE DEF c3
<1>5. /\ c3 \in Caches /\ ValueMap(c3.values) /\ c3.map = ObjectsIn(c3.values)
      /\ c3.map \subseteq c.map /\ c3.size = c.size /\ c3.reqsMap = c2.reqsMap
      /\ c3.curTime = c2.curTime
      /\ ToSet(c3.values) \subseteq ToSet(c.values)
      /\ \A a, b : Before(c3.values, a, b) => Before(c.values, a, b)
      /\ \A x \in Requested :
           c3.refsMap[x] = IF cacheType = "LRUK" /\ x \in c.map \ c3.map THEN <<>>
                           ELSE c2.refsMap[x]
  BY <1>2, <1>3, <1>4 DEF Consistent, Evicted
<1>6. o \notin c3.map /\ o \notin ObjectsIn(c3.values)
  BY <1>5
<1>7. /\ c4 \in Caches /\ ValueMap(c4.values) /\ e \in Entries
      /\ c4.size = c3.size /\ c4.current = c3.current /\ c4.map = c3.map
      /\ c4.L = c3.L /\ c4.reqsMap = c3.reqsMap /\ c4.curTime = c3.curTime
      /\ c4.refsMap = RefsLeft(c3, o)
      /\ ToSet(c4.values) = ToSet(c3.values) \cup {e}
      /\ ObjectsIn(c4.values) = ObjectsIn(c3.values) \cup {o}
      /\ \A a, b : Before(c4.values, a, b) =>
           Before(c3.values, a, b) \/ (a = e /\ b \in ToSet(c3.values) /\ b.val > e.val)
                                  \/ (b = e /\ a \in ToSet(c3.values))
      /\ Aged(c3) => Aged(c4)
  <2>1. c3 \in Caches /\ ValueMap(c3.values) /\ o \notin ObjectsIn(c3.values)
    BY <1>5, <1>6
  <2> QED BY <2>1, ValuedInv
<1>8. /\ cacheType # "LRUK" => AgeValue(c3, o) = c3.L + WeightIn(c3, o)
      /\ \A x \in Requested : x # o => RefsLeft(c3, o)[x] = c3.refsMap[x]
      /\ cacheType = "LRUK" =>
           LET r == c3.refsMap[o]
           IN  IF Len(r) >= K THEN AgeValue(c3, o) = r[1] /\ RefsLeft(c3, o)[o] = Tail(r)
               ELSE AgeValue(c3, o) = 0 /\ RefsLeft(c3, o)[o] = r
  <2>1. c3 \in Caches
    BY <1>5
  <2> QED BY <2>1, AgeValueNat, LRUKValue
<1>9. e.val = AgeValue(c3, o) /\ e.obj = o
  OBVIOUS
<1>10. d = [c4 EXCEPT !.map = @ \cup {o}, !.current = @ + o.size]
  BY DEF AdmitInto, c3, c2, c1
<1> HIDE DEF c4, e
<1>11. /\ d \in Caches
       /\ d.size = c4.size /\ d.current = c4.current + o.size
       /\ d.values = c4.values /\ d.map = c4.map \cup {o} /\ d.L = c4.L
       /\ d.reqsMap = c4.reqsMap /\ d.refsMap = c4.refsMap /\ d.curTime = c4.curTime
  <2>1. PICK m \in SUBSET Requested, n \in Nat :
          m = c4.map \cup {o} /\ n = c4.current + o.size
    <3>1. c4.map \in SUBSET Requested /\ c4.current \in Nat
      BY <1>7 DEF Caches
    <3>2. o \in Requested /\ o.size \in Nat
      BY <1>1
    <3>3. c4.map \cup {o} \in SUBSET Requested /\ c4.current + o.size \in Nat
      BY <3>1, <3>2
    <3> QED BY <3>3
  <2>2. d = [c4 EXCEPT !.map = m, !.current = n]
    BY <1>10, <2>1
  <2>3. /\ d \in Caches
        /\ d.size = c4.size /\ d.current = n /\ d.values = c4.values /\ d.map = m
        /\ d.L = c4.L /\ d.reqsMap = c4.reqsMap /\ d.refsMap = c4.refsMap
        /\ d.curTime = c4.curTime
    BY <1>7, <2>2 DEF Caches
  <2> QED BY <2>1, <2>3
<1>12. Consistent(d)
  <2>1. Data!Sized(c3.map) /\ c3.current = Data!SizeSum(c3.map)
    BY <1>4 DEF Consistent
  <2>2. Data!Sized(d.map) /\ Data!SizeSum(d.map) = Data!SizeSum(c3.map) + o.size
    BY <1>1, <1>6, <1>7, <1>11, <2>1, Data!SizeSumAdd
  <2>3. d.map = ObjectsIn(d.values)
    BY <1>5, <1>7, <1>11
  <2> QED BY <1>7, <1>11, <2>1, <2>2, <2>3 DEF Consistent
<1>13. d.current <= d.size
  BY <1>4, <1>7, <1>11
<1>14. ASSUME Aged(c) PROVE Aged(d)
  <2>1. Aged(c4)
    BY <1>2, <1>3, <1>4, <1>7, <1>14
  <2>2. \A x : WeightIn(d, x.obj) = WeightIn(c4, x.obj)
    BY <1>11, WeightSame
  <2> QED BY <1>11, <2>1, <2>2 DEF Aged
<1>15. \A x \in ToSet(c3.values) : x \in ToSet(c.values) /\ x.obj # o
  <2> SUFFICES ASSUME NEW x \in ToSet(c3.values) PROVE x \in ToSet(c.values) /\ x.obj # o
    OBVIOUS
  <2>1. x.obj \in ObjectsIn(c3.values)
    BY DEF ToSet, ObjectsIn
  <2> QED BY <1>5, <1>6, <2>1
<1>16. ASSUME NEW a, NEW b, Before(d.values, a, b)
       PROVE  \/ Before(c.values, a, b) /\ a.obj # o /\ b.obj # o
              \/ a = e /\ b \in ToSet(d.values) /\ b.val > e.val
              \/ b = e /\ a.obj # o
  <2>1. CASE Before(c3.values, a, b)
    <3>1. a \in ToSet(c3.values) /\ b \in ToSet(c3.values)
      BY <2>1 DEF Before, ToSet
    <3> QED BY <1>5, <1>15, <2>1, <3>1
  <2>2. CASE a = e /\ b \in ToSet(c3.values) /\ b.val > e.val
    BY <1>7, <1>11, <2>2
  <2>3. CASE b = e /\ a \in ToSet(c3.values)
    BY <1>15, <2>3
  <2>4. Before(c4.values, a, b)
    BY <1>11, <1>16
  <2> QED BY <1>7, <2>1, <2>2, <2>3, <2>4
<1>17. /\ cacheType = "GD" => e.val = d.L + Unit
       /\ cacheType = "GDS" => e.val = d.L + Unit \div o.size
  <2>1. /\ cacheType = "GD" => WeightIn(c3, o) = Unit
        /\ cacheType = "GDS" => WeightIn(c3, o) = Unit \div o.size
    BY DEF WeightIn
  <2>2. e.val = AgeValue(c3, o) /\ c3.L = d.L
    BY <1>7, <1>9, <1>11
  <2> QED BY <1>8, <2>1, <2>2
<1>18. cacheType \in {"GDSF", "LFUDA"} =>
         /\ d.reqsMap[o] = 1
         /\ \A x \in Requested : x # o => d.reqsMap[x] = c.reqsMap[x]
  <2>1. d.reqsMap = c2.reqsMap
    BY <1>5, <1>7, <1>11
  <2> QED BY <1>2, <1>3, <2>1
<1>19. ASSUME cacheType = "LRUK"
       PROVE  LET r == Append(c.refsMap[o], c.curTime + 1)
              IN  /\ d.curTime = c.curTime + 1
                  /\ IF Len(r) >= K THEN e.val = r[1] /\ d.refsMap[o] = Tail(r)
                                    ELSE e.val = 0 /\ d.refsMap[o] = r
                  /\ \A x \in Requested : x # o =>
                       d.refsMap[x] = IF x \in c.map \ d.map THEN <<>> ELSE c.refsMap[x]
  <2>1. d.refsMap = RefsLeft(c3, o) /\ d.curTime = c.curTime + 1
    BY <1>2, <1>3, <1>5, <1>7, <1>11, <1>19
  <2>2. c3.refsMap[o] = Append(c.refsMap[o], c.curTime + 1)
    BY <1>2, <1>3, <1>5, <1>19
  <2>3. ASSUME NEW x \in Requested, x # o
        PROVE  d.refsMap[x] = IF x \in c.map \ d.map THEN <<>> ELSE c.refsMap[x]
    <3>1. d.refsMap[x] = c3.refsMap[x]
      BY <1>8, <2>1, <2>3
    <3>2. x \in c.map \ d.map <=> x \in c.map \ c3.map
      BY <1>7, <1>11, <2>3
    <3>3. c2.refsMap[x] = c.refsMap[x]
      BY <1>2, <1>3, <1>19, <2>3
    <3> QED BY <1>5, <1>19, <3>1, <3>2, <3>3
  <2> QED BY <1>8, <1>9, <1>19, <2>1, <2>2, <2>3
<1>20. Renewed(c, d, o, e)
  <2>1. /\ Consistent(d) /\ d.size = c.size /\ o \in d.map /\ d.map \subseteq c.map \cup {o}
        /\ e \in ToSet(d.values) /\ e \in Entries /\ e.obj = o
        /\ \A x \in ToSet(d.values) : x = e \/ (x \in ToSet(c.values) /\ x.obj # o)
    BY <1>5, <1>7, <1>9, <1>11, <1>12, <1>15
  <2>2. ASSUME cacheType \in {"GDSF", "LFUDA"}
        PROVE  e.val = d.L + FrequencyWeight(o, IF o \in c.map THEN c.reqsMap[o] ELSE 1)
    <3>1. FrequencyWeight(o, 1) = WeightIn(c3, o)
      BY <1>3, <1>5, <2>2 DEF FrequencyWeight, WeightIn
    <3>2. e.val = AgeValue(c3, o) /\ c3.L = d.L
      BY <1>7, <1>9, <1>11
    <3> QED BY <1>8, <2>2, <3>1, <3>2
  <2> QED BY <2>1, <2>2, <1>16, <1>17, <1>18, <1>19 DEF Renewed
<1> QED BY <1>13, <1>14, <1>20

----------------------------------------------------------------------------
(***************************************************************************)
(* The requests of an object since it was evicted.                         *)
(***************************************************************************)
RequestsIn(tr, s, x) == {i \in DOMAIN tr : tr[i] = x /\ i > s}

\* since', in a cache that a request turned from c into d.
SinceAfter(s, c, d, n) ==
  [x \in Requested |-> IF x \in c.map \ d.map THEN n ELSE s[x]]

\* The requests for an object since a time are finitely many numbers.
LEMMA RequestsFinite ==
  ASSUME NEW tr \in Seq(Requested), NEW s \in Nat, NEW x
  PROVE  /\ RequestsIn(tr, s, x) \in SUBSET (1..Len(tr))
         /\ RequestsIn(tr, s, x) \in SUBSET Nat /\ Len(tr) \in Nat
         /\ IsFiniteSet(RequestsIn(tr, s, x))
         /\ Cardinality(RequestsIn(tr, s, x)) \in Nat
<1>1. Len(tr) \in Nat /\ RequestsIn(tr, s, x) \in SUBSET (1..Len(tr))
  BY LenProperties DEF RequestsIn
<1>2. IsFiniteSet(1..Len(tr))
  BY <1>1, FS_Interval
<1>3. IsFiniteSet(RequestsIn(tr, s, x))
  BY <1>1, <1>2, FS_Subset
<1> QED BY <1>1, <1>3, FS_CardinalityType

IsAppend(tr, o, tr1) == tr1 = Append(tr, o)

\* A request is one more for its object and none for the others.
LEMMA RequestsStep ==
  ASSUME NEW tr \in Seq(Requested), NEW o \in Requested,
         NEW s \in Nat, s <= Len(tr), NEW tr1, IsAppend(tr, o, tr1)
  PROVE  /\ tr1 \in Seq(Requested) /\ Len(tr1) = Len(tr) + 1
         /\ RequestsIn(tr1, s, o) = RequestsIn(tr, s, o) \cup {Len(tr) + 1}
         /\ Len(tr) + 1 \notin RequestsIn(tr, s, o)
         /\ \A x : x # o => /\ RequestsIn(tr1, s, x) = RequestsIn(tr, s, x)
                           /\ RequestsIn(tr1, Len(tr), x) = {}
<1>1. /\ tr1 \in Seq(Requested) /\ Len(tr1) = Len(tr) + 1 /\ Len(tr) \in Nat
      /\ DOMAIN tr = 1..Len(tr) /\ DOMAIN tr1 = 1..(Len(tr)+1)
      /\ tr1[Len(tr)+1] = o /\ \A i \in 1..Len(tr) : tr1[i] = tr[i]
  BY AppendProperties, LenProperties DEF IsAppend
<1>2. RequestsIn(tr1, s, o) = RequestsIn(tr, s, o) \cup {Len(tr) + 1}
  BY <1>1 DEF RequestsIn
<1>3. Len(tr) + 1 \notin RequestsIn(tr, s, o)
  BY <1>1 DEF RequestsIn
<1>4. ASSUME NEW x, x # o
      PROVE  /\ RequestsIn(tr1, s, x) = RequestsIn(tr, s, x)
             /\ RequestsIn(tr1, Len(tr), x) = {}
  <2>1. RequestsIn(tr1, s, x) = RequestsIn(tr, s, x)
    BY <1>1, <1>4 DEF RequestsIn
  <2>2. \A i \in DOMAIN tr1 : i > Len(tr) => i = Len(tr) + 1
    BY <1>1
  <2>3. RequestsIn(tr1, Len(tr), x) = {}
    BY <1>1, <1>4, <2>2 DEF RequestsIn
  <2> QED BY <2>1, <2>3
<1> QED BY <1>1, <1>2, <1>3, <1>4

----------------------------------------------------------------------------
(***************************************************************************)
(* The invariant that every policy keeps: the fields agree, the values     *)
(* have aged, and an object is stored if it was requested since it was     *)
(* evicted, unless it is too large.                                        *)
(***************************************************************************)
Inv ==
  /\ cacheType \in Policies /\ file_size \in BOOLEAN
  /\ reqs \in 0..MaxReqs /\ hits \in 0..reqs
  /\ trace \in Seq(Requested) /\ since \in [Requested -> Nat]
  /\ \A x \in Requested : since[x] <= Len(trace)
  /\ cache.size \in CacheSizes /\ Consistent(cache)
  /\ cache.current <= cache.size /\ Aged(cache)
  /\ \A x \in cache.map : RequestsIn(trace, since[x], x) # {}
  /\ \A x \in Requested \ cache.map :
       x.size < cache.size => RequestsIn(trace, since[x], x) = {}
  /\ ~file_size => \A x \in cache.map : x.size = 1

\* The two ways a request for o can go: o is stored, or it is too large.
Stored(o) ==
  /\ o \in cache.map \/ o.size < cache.size
  /\ \E e : Renewed(cache, cache', o, e)
  /\ cache'.current <= cache'.size

TooLarge(o) ==
  /\ o \notin cache.map /\ ~(o.size < cache.size)
  /\ Consistent(cache') /\ cache'.size = cache.size /\ cache'.current = cache.current
  /\ cache'.values = cache.values /\ cache'.map = cache.map /\ cache'.L = cache.L
  /\ \A x \in Requested : x # o => cache'.reqsMap[x] = cache.reqsMap[x]
  /\ cacheType = "LRUK" =>
       /\ cache'.curTime = cache.curTime + 1
       /\ \A x \in Requested : x # o => cache'.refsMap[x] = cache.refsMap[x]

\* What every step does: the facts the further invariants need of it.
LEMMA NextRequest ==
  ASSUME Inv, Next
  PROVE  \E o \in Requested :
           /\ Stored(o) \/ TooLarge(o)
           /\ Aged(cache')
           /\ trace' = Append(trace, o)
           /\ since' = SinceAfter(since, cache, cache', Len(trace))
           /\ ~file_size => o.size = 1
           /\ reqs' = reqs + 1 /\ reqs < MaxReqs
           /\ hits' \in {hits, hits + 1}
           /\ UNCHANGED <<cacheType, file_size>>
<1>1. PICK line \in Lines : RequestHit(ObjectOf(line)) \/ RequestMiss(ObjectOf(line))
  BY DEF Next
<1> DEFINE o == ObjectOf(line)
<1>2. o \in Requested /\ o.size \in Nat \ {0} /\ (~file_size => o.size = 1)
  <2>1. o \in Requested
    BY RequestedSizes
  <2>2. ASSUME ~file_size PROVE o.size = 1
    <3>1. line = [id |-> line.id, size |-> line.size]
      BY LinesAssumption DEF Objects
    <3> QED BY <2>2, <3>1 DEF ObjectOf
  <2> QED BY <2>1, <2>2, RequestedSizes
<1> HIDE DEF o
<1>3. /\ cacheType \in Policies /\ Consistent(cache) /\ Aged(cache)
      /\ cache.current <= cache.size /\ cache.size \in Nat
      /\ since \in [Requested -> Nat]
  BY ArgumentsAssumption, Zenon DEF Inv
<1>4. CASE RequestHit(o)
  <2>1. /\ o \in cache.map /\ hits' = hits + 1 /\ since' = since
        /\ trace' = Append(trace, o) /\ reqs' = reqs + 1 /\ reqs < MaxReqs
        /\ UNCHANGED <<cacheType, file_size>>
    BY <1>4 DEF RequestHit, Read
  <2>2. cache' = WithCount(Hit(Referenced(cache, o), o), o, 
                           Hit(Referenced(cache, o), o).reqsMap[o] + 1)
    BY <1>4, CountedIs DEF RequestHit
  <2>3. Hit(Referenced(cache, o), o).reqsMap = cache.reqsMap
    BY DEF Hit, Valued, Referenced
  <2>4. cache' = WithCount(Hit(Referenced(cache, o), o), o, cache.reqsMap[o] + 1)
    BY <2>2, <2>3
  <2>5. /\ \E e : Renewed(cache, cache', o, e)
        /\ cache'.map = cache.map /\ cache'.current = cache.current
        /\ Aged(cache')
    BY <1>3, <2>1, <2>4, HitRenews
  <2>6. cache'.size = cache.size
    BY <2>5 DEF Renewed
  <2>7. since' = SinceAfter(since, cache, cache', Len(trace))
    BY <1>3, <2>1, <2>5 DEF SinceAfter
  <2>8. Stored(o)
    BY <1>3, <2>1, <2>5, <2>6 DEF Stored
  <2> QED BY <1>2, <2>1, <2>5, <2>7, <2>8
<1>5. CASE RequestMiss(o)
  <2>1. /\ o \notin cache.map /\ hits' = hits
        /\ since' = SinceAfter(since, cache, cache', Len(trace))
        /\ trace' = Append(trace, o) /\ reqs' = reqs + 1 /\ reqs < MaxReqs
        /\ UNCHANGED <<cacheType, file_size>>
    BY <1>5 DEF RequestMiss, Read, SinceAfter
  <2> DEFINE c1 == Referenced(cache, o)
             c2 == WithCount(c1, o, 1)
  <2>2. cache' = Admit(c2, o)
    BY <1>5, CountedIs DEF RequestMiss
  <2>3. /\ Consistent(c1)
        /\ c1.size = cache.size /\ c1.current = cache.current /\ c1.values = cache.values
        /\ c1.map = cache.map /\ c1.L = cache.L /\ c1.reqsMap = cache.reqsMap
        /\ cacheType = "LRUK" =>
             /\ c1.curTime = cache.curTime + 1
             /\ \A x \in Requested : x # o => c1.refsMap[x] = cache.refsMap[x]
        /\ Aged(c1)
    BY <1>2, <1>3, ReferencedInv
  <2> HIDE DEF c1
  <2>4. /\ Consistent(c2)
        /\ c2.size = c1.size /\ c2.current = c1.current /\ c2.values = c1.values
        /\ c2.map = c1.map /\ c2.L = c1.L /\ c2.refsMap = c1.refsMap
        /\ c2.curTime = c1.curTime
        /\ \A x \in Requested : x # o => c2.reqsMap[x] = c1.reqsMap[x]
        /\ Aged(c2)
    <3>1. c1.reqsMap[o] <= 1 \/ o \notin c1.map
      BY <2>1, <2>3
    <3> QED BY <1>2, <1>3, <2>3, <3>1, CountedInv
  <2>5. CASE o.size < cache.size
    <3>1. ~(o.size >= c2.size)
      BY <1>2, <1>3, <2>3, <2>4, <2>5
    <3>2. cache' = AdmitInto(MakeRoom(c2, o.size), o)
      BY <2>2, <3>1 DEF Admit
    <3>3. /\ \E e : Renewed(cache, cache', o, e)
          /\ cache'.current <= cache'.size /\ Aged(cache')
      BY <1>2, <1>3, <2>1, <2>5, <3>2, AdmitRenews DEF c1
    <3> HIDE DEF c2
    <3>4. Stored(o)
      BY <2>5, <3>3 DEF Stored
    <3> QED BY <1>2, <2>1, <3>3, <3>4
  <2>6. CASE ~(o.size < cache.size)
    <3>1. o.size >= c2.size
      BY <1>2, <1>3, <2>3, <2>4, <2>6
    <3>2. cache' = c2
      BY <2>2, <3>1 DEF Admit
    <3> HIDE DEF c2
    <3>3. TooLarge(o)
      BY <2>1, <2>3, <2>4, <2>6, <3>2 DEF TooLarge
    <3> QED BY <1>2, <2>1, <2>4, <3>2, <3>3
  <2> QED BY <2>5, <2>6
<1> QED BY <1>1, <1>4, <1>5 DEF o

\* The invariant holds initially.
LEMMA InitInv == Init => Inv
<1> SUFFICES ASSUME Init PROVE Inv
  OBVIOUS
<1>1. PICK cs \in CacheSizes :
        cache = [size |-> cs, current |-> 0, values |-> <<>>, map |-> {}, L |-> 0,
                 reqsMap |-> [o \in Requested |-> 0],
                 refsMap |-> [o \in Requested |-> <<>>], curTime |-> 0]
  BY DEF Init
<1>2. cs \in Nat /\ MaxReqs \in Nat
  BY ArgumentsAssumption
<1>3. /\ cache.values = <<>> /\ cache.map = {} /\ cache.current = 0 /\ cache.size = cs
      /\ cache \in Caches
  <2>1. [o \in Requested |-> <<>>] \in [Requested -> Seq(Nat)]
    BY EmptySeq
  <2>2. [o \in Requested |-> 0] \in [Requested -> Nat]
    OBVIOUS
  <2>3. <<>> \in Seq(Entries) /\ {} \in SUBSET Requested
    BY EmptySeq
  <2> QED BY <1>1, <1>2, <2>1, <2>2, <2>3 DEF Caches
<1>4. <<>> \in Seq(Entries) /\ <<>> \in Seq(Requested) /\ Len(<<>>) = 0 /\ DOMAIN <<>> = {}
  BY EmptySeq
<1>5. Consistent(cache) /\ Aged(cache)
  <2>1. ToSet(cache.values) = {} /\ ObjectsIn(cache.values) = {}
    BY <1>3, <1>4 DEF ToSet, ObjectsIn
  <2>2. ValueMap(cache.values)
    BY <1>3, <1>4, <2>1 DEF ValueMap, Ordered, Distinct
  <2>3. Data!Sized({}) /\ Data!SizeSum({}) = 0
    BY FS_EmptySet, FiniteSame, Data!SizeSumNat DEF Data!Sized
  <2> QED BY <1>3, <2>1, <2>2, <2>3 DEF Consistent, Aged
<1>6. /\ trace = <<>> /\ since = [o \in Requested |-> 0] /\ reqs = 0 /\ hits = 0
      /\ cacheType \in Policies /\ file_size \in BOOLEAN
  BY Zenon DEF Init
<1>7. \A x \in Requested : RequestsIn(trace, since[x], x) = {}
  BY <1>4, <1>6 DEF RequestsIn
<1>8. /\ since \in [Requested -> Nat] /\ \A x \in Requested : since[x] <= Len(trace)
      /\ reqs \in 0..MaxReqs /\ hits \in 0..reqs
  BY <1>2, <1>4, <1>6
<1>9. trace \in Seq(Requested) /\ cache.size \in CacheSizes /\ cache.current <= cache.size
  BY <1>2, <1>3, <1>4, <1>6
<1> QED BY <1>3, <1>5, <1>6, <1>7, <1>8, <1>9, Zenon DEF Inv

\* What a request makes of the requests of every object.
LEMMA NextRequests ==
  ASSUME Inv, NEW o \in Requested, Stored(o) \/ TooLarge(o),
         trace' = Append(trace, o),
         since' = SinceAfter(since, cache, cache', Len(trace))
  PROVE  /\ trace' \in Seq(Requested) /\ since' \in [Requested -> Nat]
         /\ Len(trace') = Len(trace) + 1
         /\ \A x \in Requested : since'[x] <= Len(trace')
         /\ RequestsIn(trace', since'[o], o)
              = RequestsIn(trace, since[o], o) \cup {Len(trace) + 1}
         /\ Len(trace) + 1 \notin RequestsIn(trace, since[o], o)
         /\ \A x \in Requested : x # o =>
              RequestsIn(trace', since'[x], x)
                = IF x \in cache.map \ cache'.map THEN {}
                  ELSE RequestsIn(trace, since[x], x)
<1>1. /\ trace \in Seq(Requested) /\ Len(trace) \in Nat
      /\ since \in [Requested -> Nat] /\ \A x \in Requested : since[x] <= Len(trace)
  BY LenProperties DEF Inv
<1>2. o \notin cache.map \ cache'.map
  BY DEF Stored, TooLarge, Renewed
<1>3. /\ since' \in [Requested -> Nat] /\ since'[o] = since[o]
      /\ \A x \in Requested :
           since'[x] = IF x \in cache.map \ cache'.map THEN Len(trace) ELSE since[x]
  BY <1>1, <1>2 DEF SinceAfter
<1>4. /\ trace' \in Seq(Requested) /\ Len(trace') = Len(trace) + 1
      /\ RequestsIn(trace', since[o], o)
           = RequestsIn(trace, since[o], o) \cup {Len(trace) + 1}
      /\ Len(trace) + 1 \notin RequestsIn(trace, since[o], o)
  <2>1. PICK s \in Nat : s = since[o] /\ s <= Len(trace)
    BY <1>1
  <2>2. trace \in Seq(Requested) /\ IsAppend(trace, o, trace')
    BY <1>1 DEF IsAppend
  <2>3. /\ trace' \in Seq(Requested) /\ Len(trace') = Len(trace) + 1
        /\ RequestsIn(trace', s, o) = RequestsIn(trace, s, o) \cup {Len(trace) + 1}
        /\ Len(trace) + 1 \notin RequestsIn(trace, s, o)
    BY <2>1, <2>2, RequestsStep
  <2> QED BY <2>1, <2>3
<1>5. ASSUME NEW x \in Requested, x # o
      PROVE  RequestsIn(trace', since'[x], x)
               = IF x \in cache.map \ cache'.map THEN {}
                 ELSE RequestsIn(trace, since[x], x)
  <2>1. PICK s \in Nat : s = since[x] /\ s <= Len(trace)
    BY <1>1
  <2>2. trace \in Seq(Requested) /\ IsAppend(trace, o, trace')
    BY <1>1 DEF IsAppend
  <2>3. /\ RequestsIn(trace', s, x) = RequestsIn(trace, s, x)
        /\ RequestsIn(trace', Len(trace), x) = {}
    BY <1>5, <2>1, <2>2, RequestsStep
  <2> QED BY <1>3, <2>1, <2>3
<1>6. \A x \in Requested : since'[x] <= Len(trace')
  BY <1>1, <1>3, <1>4
<1> QED BY <1>3, <1>4, <1>5, <1>6

\* Every action keeps the invariant.
LEMMA NextInv == Inv /\ [Next]_vars => Inv'
<1> SUFFICES ASSUME Inv, [Next]_vars PROVE Inv'
  OBVIOUS
<1>1. CASE UNCHANGED vars
  BY <1>1 DEF vars, Inv, Aged, WeightIn
<1>2. CASE Next
  <2>1. PICK o \in Requested :
          /\ Stored(o) \/ TooLarge(o)
          /\ Aged(cache')
          /\ trace' = Append(trace, o)
          /\ since' = SinceAfter(since, cache, cache', Len(trace))
          /\ ~file_size => o.size = 1
          /\ reqs' = reqs + 1 /\ reqs < MaxReqs
          /\ hits' \in {hits, hits + 1}
          /\ UNCHANGED <<cacheType, file_size>>
    BY <1>2, NextRequest
  <2>2. /\ trace' \in Seq(Requested) /\ since' \in [Requested -> Nat]
        /\ \A x \in Requested : since'[x] <= Len(trace')
        /\ RequestsIn(trace', since'[o], o)
             = RequestsIn(trace, since[o], o) \cup {Len(trace) + 1}
        /\ \A x \in Requested : x # o =>
             RequestsIn(trace', since'[x], x)
               = IF x \in cache.map \ cache'.map THEN {}
                 ELSE RequestsIn(trace, since[x], x)
    BY <2>1, NextRequests
  <2>3. /\ cache'.size = cache.size /\ Consistent(cache') /\ cache'.current <= cache'.size
        /\ cache'.map \subseteq cache.map \cup {o}
        /\ o \in cache'.map \/ (o \notin cache.map /\ ~(o.size < cache.size))
    BY <2>1 DEF Stored, TooLarge, Renewed, Inv
  <2>4. /\ \A x \in cache.map : x \in Requested /\ RequestsIn(trace, since[x], x) # {}
        /\ \A x \in Requested \ cache.map :
             x.size < cache.size => RequestsIn(trace, since[x], x) = {}
        /\ ~file_size => \A x \in cache.map : x.size = 1
    BY DEF Inv, Consistent, Caches
  <2>5. \A x \in cache'.map : RequestsIn(trace', since'[x], x) # {}
    <3> SUFFICES ASSUME NEW x \in cache'.map PROVE RequestsIn(trace', since'[x], x) # {}
      OBVIOUS
    <3>1. CASE x = o
      BY <2>2, <3>1
    <3>2. CASE x # o
      BY <2>2, <2>3, <2>4, <3>2
    <3> QED BY <3>1, <3>2
  <2>6. \A x \in Requested \ cache'.map :
          x.size < cache'.size => RequestsIn(trace', since'[x], x) = {}
    <3> SUFFICES ASSUME NEW x \in Requested \ cache'.map, x.size < cache'.size
                 PROVE  RequestsIn(trace', since'[x], x) = {}
      OBVIOUS
    <3>1. x # o
      BY <2>3
    <3> QED BY <2>2, <2>3, <2>4, <3>1
  <2>7. ~file_size => \A x \in cache'.map : x.size = 1
    BY <2>1, <2>3, <2>4
  <2>8. reqs' \in 0..MaxReqs /\ hits' \in 0..reqs'
    <3>1. reqs \in 0..MaxReqs /\ hits \in 0..reqs /\ MaxReqs \in Nat
      BY ArgumentsAssumption DEF Inv
    <3> QED BY <2>1, <3>1
  <2>9. (Aged(cache))' /\ cacheType' \in Policies /\ file_size' \in BOOLEAN
        /\ cache'.size \in CacheSizes
    <3>1. (Aged(cache))'
      BY <2>1 DEF Aged, WeightIn
    <3>2. cacheType \in Policies /\ file_size \in BOOLEAN /\ cache.size \in CacheSizes
      BY Zenon DEF Inv
    <3> QED BY <2>1, <2>3, <3>1, <3>2
  <2>10. ~file_size' => \A x \in cache'.map : x.size = 1
    BY <2>1, <2>7
  <2> QED BY <2>2, <2>3, <2>5, <2>6, <2>8, <2>9, <2>10, Zenon DEF Inv
<1> QED BY <1>1, <1>2

\* The invariant of the cache holds in every state, for every policy.
THEOREM InvHolds == Spec => []Inv
<1>1. Init => Inv
  BY InitInv
<1>2. Inv /\ [Next]_vars => Inv'
  BY NextInv
<1> QED BY <1>1, <1>2, PTL DEF Spec

\* The fields have their types in every state.
THEOREM TypesHold == Spec => []TypeOK
<1>1. Inv => TypeOK
  <2> SUFFICES ASSUME Inv PROVE TypeOK
    OBVIOUS
  <2>1. cache \in Caches
    BY DEF Inv, Consistent
  <2>2. /\ cache.current \in Nat /\ cache.values \in Seq(Entries)
        /\ cache.map \subseteq Requested /\ cache.L \in Nat /\ cache.curTime \in Nat
        /\ cache.reqsMap \in [Requested -> Nat]
        /\ cache.refsMap \in [Requested -> Seq(Nat)]
    BY <2>1 DEF Caches
  <2> QED BY <2>2, Zenon DEF Inv, TypeOK, Entries
<1> QED BY <1>1, InvHolds, PTL

\* There are as many entries as objects with one.
LEMMA DistinctLength ==
  ASSUME NEW vs, ValueMap(vs)
  PROVE  Cardinality(ObjectsIn(vs)) = Len(vs)
<1> DEFINE f == [i \in DOMAIN vs |-> vs[i].obj]
<1>1. DOMAIN vs = 1..Len(vs) /\ Len(vs) \in Nat /\ Distinct(vs)
  BY LenProperties DEF ValueMap
<1>2. f \in Bijection(DOMAIN vs, ObjectsIn(vs))
  <2>1. f \in [DOMAIN vs -> ObjectsIn(vs)] /\ IsInjective(f)
    BY <1>1 DEF ObjectsIn, Distinct, IsInjective
  <2>2. \A x \in ObjectsIn(vs) : \E i \in DOMAIN vs : f[i] = x
    BY DEF ObjectsIn
  <2> HIDE DEF f
  <2> QED BY <2>1, <2>2 DEF Bijection, Injection, Surjection
<1>3. ExistsBijection(DOMAIN vs, ObjectsIn(vs))
  BY <1>2, Zenon DEF ExistsBijection
<1>4. IsFiniteSet(DOMAIN vs) /\ Cardinality(DOMAIN vs) = Len(vs)
  <2>1. /\ IsFiniteSet(1..Len(vs))
        /\ Cardinality(1..Len(vs)) = IF 1 > Len(vs) THEN 0 ELSE Len(vs) - 1 + 1
    BY <1>1, FS_Interval
  <2> QED BY <1>1, <2>1
<1> QED BY <1>3, <1>4, FS_Bijection

\* The value map, its index and the byte count agree in every state.
THEOREM MapsAgreeHolds == Spec => []MapsAgree
<1>1. Inv => MapsAgree
  <2> SUFFICES ASSUME Inv PROVE MapsAgree
    OBVIOUS
  <2>1. /\ ValueMap(cache.values) /\ cache.map = ObjectsIn(cache.values)
        /\ cache.current = Data!SizeSum(cache.map) /\ cache.current <= cache.size
    BY DEF Inv, Consistent
  <2>2. Cached = ObjectsIn(cache.values) /\ Cardinality(Cached) = Len(cache.values)
    BY <2>1, DistinctLength DEF Cached, ObjectsIn
  <2>3. \A i, j \in DOMAIN cache.values :
          i < j => cache.values[i].val <= cache.values[j].val
    BY <2>1 DEF ValueMap, Ordered, Before, ToSet
  <2>4. Data!SizeSum(cache.map) = MapThenSumSet(LAMBDA o : o.size, cache.map)
    BY DEF Data!SizeSum, Data!MapThenSumSet, Data!MapThenFoldSet,
           MapThenSumSet, MapThenFoldSet
  <2> QED BY <2>1, <2>2, <2>3, <2>4 DEF MapsAgree
<1> QED BY <1>1, InvHolds, PTL

\* Every value is between the age and the age and the object's weight.
THEOREM ValuesAgedHolds == Spec => []ValuesAged
<1>1. Inv => ValuesAged
  <2> SUFFICES ASSUME Inv, cacheType # "LRUK", NEW i \in DOMAIN cache.values
               PROVE  /\ cache.L <= cache.values[i].val
                      /\ cache.values[i].val <= cache.L + Weight(cache.values[i].obj)
    BY DEF ValuesAged
  <2>1. Aged(cache) /\ cache.values[i] \in ToSet(cache.values)
    BY DEF Inv, ToSet
  <2>2. Weight(cache.values[i].obj) = WeightIn(cache, cache.values[i].obj)
    BY DEF Weight, WeightIn
  <2> QED BY <2>1, <2>2 DEF Aged
<1> QED BY <1>1, InvHolds, PTL

----------------------------------------------------------------------------
(***************************************************************************)
(* The frequency of GDSF and LFUDA.                                        *)
(***************************************************************************)
LEMMA RequestsIs == \A x : Requests(x) = RequestsIn(trace, since[x], x)
BY DEF Requests, RequestsIn

CountsExact ==
  cacheType \in {"GDSF", "LFUDA"} =>
    \A o \in cache.map : cache.reqsMap[o] = Cardinality(Requests(o))

\* How many requests the value is of, when there have been n.
Valuing(n) == IF n = 1 THEN 1 ELSE n - 1

\* The requests for the object of a request since its eviction.
LEMMA RequestCounted ==
  ASSUME Inv, NEW o \in Requested, Stored(o) \/ TooLarge(o),
         trace' = Append(trace, o),
         since' = SinceAfter(since, cache, cache', Len(trace))
  PROVE  LET n == Cardinality(RequestsIn(trace, since[o], o))
         IN  /\ n \in Nat
             /\ Cardinality(RequestsIn(trace', since'[o], o)) = n + 1
             /\ o \in cache.map => n # 0
             /\ o \notin cache.map /\ o.size < cache.size => n = 0
<1> DEFINE q == RequestsIn(trace, since[o], o)
<1>1. /\ RequestsIn(trace', since'[o], o) = q \cup {Len(trace) + 1}
      /\ Len(trace) + 1 \notin q
  BY NextRequests
<1>2. IsFiniteSet(q) /\ Cardinality(q) \in Nat
  BY RequestsFinite DEF Inv
<1>3. /\ o \in cache.map => q # {}
      /\ o \notin cache.map /\ o.size < cache.size => q = {}
  BY DEF Inv
<1> HIDE DEF q
<1>4. Cardinality(q \cup {Len(trace) + 1}) = Cardinality(q) + 1
  BY <1>1, <1>2, FS_AddElement
<1>5. q = {} <=> Cardinality(q) = 0
  BY <1>2, FS_EmptySet
<1> QED BY <1>1, <1>2, <1>3, <1>4, <1>5 DEF q

\* Every action keeps the counts exact.
LEMMA CountsStep == Inv /\ CountsExact /\ [Next]_vars => CountsExact'
<1> SUFFICES ASSUME Inv, CountsExact, [Next]_vars PROVE CountsExact'
  OBVIOUS
<1>1. CASE UNCHANGED vars
  BY <1>1 DEF vars, CountsExact, Requests
<1>2. CASE Next
  <2>1. PICK o \in Requested :
          /\ Stored(o) \/ TooLarge(o)
          /\ trace' = Append(trace, o)
          /\ since' = SinceAfter(since, cache, cache', Len(trace))
          /\ UNCHANGED cacheType
    BY <1>2, NextRequest
  <2>2. \A x \in Requested : x # o =>
          RequestsIn(trace', since'[x], x) = IF x \in cache.map \ cache'.map THEN {}
                                             ELSE RequestsIn(trace, since[x], x)
    BY <2>1, NextRequests
  <2>3. \A x : Requests(x)' = RequestsIn(trace', since'[x], x)
    BY DEF Requests, RequestsIn
  <2> SUFFICES ASSUME cacheType \in {"GDSF", "LFUDA"}, NEW x \in cache'.map
               PROVE  cache'.reqsMap[x] = Cardinality(RequestsIn(trace', since'[x], x))
    BY <2>1, <2>3 DEF CountsExact
  <2>4. \A y \in cache.map :
          y \in Requested /\ cache.reqsMap[y] = Cardinality(RequestsIn(trace, since[y], y))
    BY RequestsIs DEF CountsExact, Inv, Consistent, Caches
  <2>5. CASE x # o
    <3>1. x \in cache.map /\ cache'.reqsMap[x] = cache.reqsMap[x]
      BY <2>1, <2>4, <2>5 DEF Stored, TooLarge, Renewed
    <3> QED BY <2>2, <2>4, <2>5, <3>1
  <2>6. CASE x = o
    <3>1. /\ o \in cache.map \/ o.size < cache.size
          /\ cache'.reqsMap[o] = IF o \in cache.map THEN cache.reqsMap[o] + 1 ELSE 1
      BY <2>1, <2>6 DEF Stored, TooLarge, Renewed
    <3> QED BY <2>1, <2>4, <2>6, <3>1, RequestCounted
  <2> QED BY <2>5, <2>6
<1> QED BY <1>1, <1>2

\* Every action values the object it is for with the count it should.
LEMMA FrequencyStep ==
  Inv /\ CountsExact /\ FrequencyExact /\ [Next]_vars => FrequencyExact'
<1> SUFFICES ASSUME Inv, CountsExact, FrequencyExact, [Next]_vars
             PROVE  FrequencyExact'
  OBVIOUS
<1>1. CASE UNCHANGED vars
  BY <1>1 DEF vars, FrequencyExact, FrequencyWeight, Requests
<1>2. CASE Next
  <2>1. PICK o \in Requested :
          /\ Stored(o) \/ TooLarge(o)
          /\ trace' = Append(trace, o)
          /\ since' = SinceAfter(since, cache, cache', Len(trace))
          /\ UNCHANGED cacheType
    BY <1>2, NextRequest
  <2>2. CountsExact'
    BY CountsStep
  <2>3. Last(trace') = o
    <3>1. trace \in Seq(Requested)
      BY DEF Inv
    <3> QED BY <2>1, <3>1, AppendProperties DEF Last
  <2>4. \A x : Requests(x)' = RequestsIn(trace', since'[x], x)
    BY DEF Requests, RequestsIn
  <2>5. ASSUME cacheType \in {"GDSF", "LFUDA"}, NEW i \in DOMAIN cache'.values,
               cache'.values[i].obj = o
        PROVE  cache'.values[i].val
                 = cache'.L + FrequencyWeight(o,
                     Valuing(Cardinality(RequestsIn(trace', since'[o], o))))
    <3>1. cache'.values[i] \in ToSet(cache'.values) /\ o \in ObjectsIn(cache'.values)
      BY <2>5 DEF ToSet, ObjectsIn
    <3>2. Stored(o)
      BY <2>1, <3>1 DEF TooLarge, Consistent
    <3>3. PICK e : Renewed(cache, cache', o, e)
      BY <3>2 DEF Stored
    <3>4. cache'.values[i] = e
      BY <2>5, <3>1, <3>3 DEF Renewed
    <3>5. e.val = cache'.L
                  + FrequencyWeight(o, IF o \in cache.map THEN cache.reqsMap[o] ELSE 1)
      BY <2>5, <3>3 DEF Renewed
    <3>6. o \in cache.map => cache.reqsMap[o] = Cardinality(RequestsIn(trace, since[o], o))
      BY <2>5, RequestsIs DEF CountsExact
    <3>7. o \in cache.map \/ o.size < cache.size
      BY <3>2 DEF Stored
    <3>8. Valuing(Cardinality(RequestsIn(trace', since'[o], o)))
            = IF o \in cache.map THEN cache.reqsMap[o] ELSE 1
      BY <2>1, <3>6, <3>7, RequestCounted DEF Valuing
    <3> QED BY <3>4, <3>5, <3>8
  <2>6. \A x, n : FrequencyWeight(x, n)' = FrequencyWeight(x, n)
    BY <2>1 DEF FrequencyWeight
  <2> QED BY <2>1, <2>2, <2>3, <2>4, <2>5, <2>6
          DEF FrequencyExact, CountsExact, Valuing
<1> QED BY <1>1, <1>2

\* For every object in the cache of GDSF and LFUDA the count after a request is
\* that of its requests since its last eviction, and the value a request leaves
\* is of the requests before a hit, and of one after an admission.
THEOREM FrequencyExactHolds == Spec => []FrequencyExact
<1>1. Init => CountsExact /\ FrequencyExact
  BY DEF Init, CountsExact, FrequencyExact
<1>2. Inv /\ CountsExact /\ [Next]_vars => CountsExact'
  BY CountsStep
<1>3. Inv /\ CountsExact /\ FrequencyExact /\ [Next]_vars => FrequencyExact'
  BY FrequencyStep
<1> QED BY <1>1, <1>2, <1>3, InvHolds, PTL DEF Spec

----------------------------------------------------------------------------
(***************************************************************************)
(* Greedy dual without sizes is LRU.                                       *)
(***************************************************************************)
Unsized == cacheType = "GD" \/ (cacheType = "GDS" /\ ~file_size)

LastRequest(tr, s, x) == Max(RequestsIn(tr, s[x], x))

RecencyOrder ==
  Unsized =>
    \A a, b : Before(cache.values, a, b) =>
      LastRequest(trace, since, a.obj) < LastRequest(trace, since, b.obj)

\* The last request for an object that was requested is in the trace.
LEMMA LastRequestIn ==
  ASSUME NEW tr \in Seq(Requested), NEW s, NEW x, s[x] \in Nat,
         RequestsIn(tr, s[x], x) # {}
  PROVE  LastRequest(tr, s, x) \in 1..Len(tr) /\ Len(tr) \in Nat
<1> DEFINE q == RequestsIn(tr, s[x], x)
<1>1. q \in SUBSET Nat /\ q \in SUBSET (1..Len(tr)) /\ Len(tr) \in Nat
  BY RequestsFinite
<1>2. \A m \in q : m <= Len(tr)
  BY <1>1
<1> HIDE DEF q
<1>3. Max(q) \in q
  <2>1. Max(q) = Data!Max(q)
    BY DEF Max, Data!Max
  <2> QED BY <1>1, <1>2, <2>1, Data!MaxGreatest DEF q
<1> QED BY <1>1, <1>3 DEF LastRequest, q

\* A new request is the last.
LEMMA LastRequestNew ==
  ASSUME NEW q \in SUBSET Nat, NEW n \in Nat, \A m \in q : m <= n
  PROVE  Max(q \cup {n + 1}) = n + 1
<1>1. PICK m \in Nat : m = n + 1
  OBVIOUS
<1> DEFINE p == q \cup {m}
<1>2. p \in SUBSET Nat /\ p # {} /\ \A x \in p : x <= m
  BY <1>1
<1>3. m \in p
  OBVIOUS
<1> HIDE DEF p
<1>4. Max(p) \in p /\ \A y \in p : Max(p) >= y
  <2>1. \E x \in p : \A y \in p : x >= y
    BY <1>2, <1>3
  <2> QED BY <2>1 DEF Max
<1>5. Max(p) \in Nat /\ Max(p) <= m /\ Max(p) >= m
  BY <1>2, <1>3, <1>4
<1>6. \A x \in Nat : x <= m /\ x >= m => x = m
  OBVIOUS
<1> QED BY <1>1, <1>5, <1>6 DEF p

\* What Next does to the last requests: the requested object has the greatest.
LEMMA LastRequestStep ==
  ASSUME Inv, NEW o \in Requested, Stored(o) \/ TooLarge(o),
         IsAppend(trace, o, trace'), since' = SinceAfter(since, cache, cache', Len(trace))
  PROVE  /\ LastRequest(trace', since', o) = Len(trace) + 1
         /\ \A x \in Requested : x # o /\ (x \in cache'.map \/ x \notin cache.map) =>
              LastRequest(trace', since', x) = LastRequest(trace, since, x)
         /\ \A x \in cache.map :
              LastRequest(trace, since, x) \in 1..Len(trace) /\ Len(trace) \in Nat
<1>1. /\ RequestsIn(trace', since'[o], o)
           = RequestsIn(trace, since[o], o) \cup {Len(trace) + 1}
      /\ \A x \in Requested : x # o =>
           RequestsIn(trace', since'[x], x)
             = IF x \in cache.map \ cache'.map THEN {}
               ELSE RequestsIn(trace, since[x], x)
  BY NextRequests DEF IsAppend
<1>2. /\ trace \in Seq(Requested) /\ \A x \in Requested : since[x] \in Nat
      /\ \A x \in cache.map : x \in Requested /\ RequestsIn(trace, since[x], x) # {}
  BY DEF Inv, Consistent, Caches
<1>3. LastRequest(trace', since', o) = Len(trace) + 1
  <2> DEFINE q == RequestsIn(trace, since[o], o)
  <2>1. q \in SUBSET Nat /\ q \in SUBSET (1..Len(trace)) /\ Len(trace) \in Nat
    BY <1>2, RequestsFinite
  <2>2. \A m \in q : m <= Len(trace)
    BY <2>1
  <2>3. RequestsIn(trace', since'[o], o) = q \cup {Len(trace) + 1}
    BY <1>1
  <2> HIDE DEF q
  <2>4. Max(q \cup {Len(trace) + 1}) = Len(trace) + 1
    BY <2>1, <2>2, LastRequestNew
  <2> QED BY <2>3, <2>4 DEF LastRequest
<1>4. \A x \in Requested : x # o /\ (x \in cache'.map \/ x \notin cache.map) =>
        LastRequest(trace', since', x) = LastRequest(trace, since, x)
  BY <1>1 DEF LastRequest
<1>5. \A x \in cache.map :
        LastRequest(trace, since, x) \in 1..Len(trace) /\ Len(trace) \in Nat
  BY <1>2, LastRequestIn
<1> QED BY <1>3, <1>4, <1>5

\* Without sizes, every action keeps the entries in the order of the last
\* requests.
LEMMA RecencyStep == Inv /\ Inv' /\ RecencyOrder /\ [Next]_vars => RecencyOrder'
<1> SUFFICES ASSUME Inv, Inv', RecencyOrder, [Next]_vars PROVE RecencyOrder'
  OBVIOUS
<1>1. CASE UNCHANGED vars
  BY <1>1 DEF vars, RecencyOrder, Unsized
<1>2. CASE Next
  <2>1. PICK o \in Requested :
          /\ Stored(o) \/ TooLarge(o)
          /\ IsAppend(trace, o, trace')
          /\ since' = SinceAfter(since, cache, cache', Len(trace))
          /\ ~file_size => o.size = 1
          /\ cacheType' = cacheType /\ file_size' = file_size
    BY <1>2, NextRequest DEF IsAppend
  <2>2. /\ LastRequest(trace', since', o) = Len(trace) + 1
        /\ \A x \in Requested : x # o /\ (x \in cache'.map \/ x \notin cache.map) =>
             LastRequest(trace', since', x) = LastRequest(trace, since, x)
        /\ \A x \in cache.map :
             LastRequest(trace, since, x) \in 1..Len(trace) /\ Len(trace) \in Nat
    BY <2>1, LastRequestStep
  <2>3. /\ \A x \in ToSet(cache.values) : x.obj \in cache.map
        /\ \A x \in ToSet(cache'.values) : x.obj \in cache'.map
        /\ cache.map \subseteq Requested /\ cache'.map \subseteq Requested
        /\ Aged(cache') /\ cache'.L \in Nat
        /\ \A x \in ToSet(cache'.values) : x.val \in Nat
        /\ ~file_size => \A x \in cache'.map : x.size = 1
        /\ Consistent(cache')
    <3>1. Consistent(cache) /\ Consistent(cache') /\ Aged(cache)'
          /\ (~file_size => \A x \in cache'.map : x.size = 1)
      BY <2>1 DEF Inv
    <3>2. Aged(cache')
      BY <2>1, <3>1 DEF Aged, WeightIn
    <3>3. /\ \A x \in ToSet(cache.values) : x.obj \in cache.map
          /\ \A x \in ToSet(cache'.values) : x.obj \in cache'.map
      BY <3>1 DEF Consistent, ToSet, ObjectsIn
    <3>4. \A x \in ToSet(cache'.values) : x.val \in Nat
      <4>1. cache'.values \in Seq(Entries)
        BY <3>1 DEF Consistent, ValueMap
      <4>2. DOMAIN cache'.values = 1..Len(cache'.values)
        BY <4>1, LenProperties
      <4>3. \A i \in DOMAIN cache'.values : cache'.values[i] \in Entries
        BY <4>1, <4>2, ElementOfSeq
      <4> QED BY <4>3 DEF ToSet, Entries
    <3> QED BY <3>1, <3>2, <3>3, <3>4 DEF Consistent, Caches
  <2> SUFFICES ASSUME Unsized, NEW a, NEW b, Before(cache'.values, a, b)
               PROVE  LastRequest(trace', since', a.obj) < LastRequest(trace', since', b.obj)
    BY <2>1 DEF RecencyOrder, Unsized
  <2>4. a \in ToSet(cache'.values) /\ b \in ToSet(cache'.values)
    BY DEF Before, ToSet
  <2>5. ASSUME Before(cache.values, a, b), a.obj # o, b.obj # o
        PROVE  LastRequest(trace', since', a.obj) < LastRequest(trace', since', b.obj)
    <3>1. a.obj \in cache'.map /\ b.obj \in cache'.map
          /\ a.obj \in Requested /\ b.obj \in Requested
      BY <2>3, <2>4
    <3>2. LastRequest(trace, since, a.obj) < LastRequest(trace, since, b.obj)
      BY <2>5 DEF RecencyOrder
    <3> QED BY <2>2, <2>5, <3>1, <3>2
  <2>6. CASE Stored(o)
    <3>1. PICK e : Renewed(cache, cache', o, e)
      BY <2>6 DEF Stored
    <3>2. CASE a = e /\ b.val > e.val
      <4>1. cacheType = "GD" => e.val = cache'.L + Unit /\ WeightIn(cache', b.obj) = Unit
        BY <3>1 DEF Renewed, WeightIn
      <4>2. cacheType = "GDS" /\ ~file_size =>
              e.val = cache'.L + Unit \div 1 /\ WeightIn(cache', b.obj) = Unit \div 1
        <5>1. b.obj \in cache'.map
          BY <2>3, <2>4
        <5> QED BY <2>1, <2>3, <3>1, <5>1 DEF Renewed, WeightIn
      <4>3. b.val <= e.val
        <5>1. cacheType # "LRUK"
          BY DEF Unsized
        <5>2. b.val <= cache'.L + WeightIn(cache', b.obj)
          BY <2>3, <2>4, <5>1 DEF Aged
        <5> QED BY <4>1, <4>2, <5>2 DEF Unsized
      <4>4. b.val \in Nat /\ e.val \in Nat
        BY <2>3, <2>4, <3>2
      <4> QED BY <3>2, <4>3, <4>4
    <3>3. CASE b = e /\ a.obj # o
      <4>1. a \in ToSet(cache.values) /\ a.obj \in cache.map
        BY <2>3, <2>4, <3>1, <3>3 DEF Renewed
      <4>2. a.obj \in cache'.map /\ a.obj \in Requested
        BY <2>3, <2>4
      <4>3. LastRequest(trace', since', a.obj) \in 1..Len(trace) /\ Len(trace) \in Nat
        BY <2>2, <3>3, <4>1, <4>2
      <4>4. b.obj = o
        BY <3>1, <3>3 DEF Renewed
      <4> QED BY <2>2, <4>3, <4>4
    <3> QED BY <2>5, <3>1, <3>2, <3>3 DEF Renewed
  <2>7. CASE TooLarge(o)
    <3>1. cache'.values = cache.values /\ cache'.map = cache.map /\ o \notin cache.map
      BY <2>7 DEF TooLarge
    <3>2. a.obj # o /\ b.obj # o
      BY <2>3, <2>4, <3>1
    <3> QED BY <2>5, <3>1, <3>2
  <2> QED BY <2>1, <2>6, <2>7
<1> QED BY <1>1, <1>2

\* Greedy dual without sizes evicts in the order of the last requests.
THEOREM GDIsLRUHolds == Spec => []GDIsLRU
<1>1. Init => RecencyOrder
  <2>1. DOMAIN <<>> = {}
    BY EmptySeq
  <2> QED BY <2>1 DEF Init, RecencyOrder, Before
<1>2. Inv /\ Inv' /\ RecencyOrder /\ [Next]_vars => RecencyOrder'
  BY RecencyStep
<1>3. RecencyOrder => GDIsLRU
  BY RequestsIs DEF RecencyOrder, GDIsLRU, Unsized, Before, LastRequest
<1> QED BY <1>1, <1>2, <1>3, InvHolds, PTL DEF Spec

----------------------------------------------------------------------------
(***************************************************************************)
(* LRU-K.  The references kept of an object are its last requests, in      *)
(* their order, K - 1 of them when there are so many.                      *)
(***************************************************************************)
Tracks(r, q) ==
  /\ r \in Seq(Nat)
  /\ \A i, j \in 1..Len(r) : i < j => r[i] < r[j]
  /\ ToSet(r) \subseteq q
  /\ \A x \in q \ ToSet(r) : \A y \in ToSet(r) : x < y
  /\ Len(r) < K /\ (Len(r) < K - 1 => q = ToSet(r))

\* The value of an object with the requests q.
Kth(v, q) == IF Cardinality(q) < K THEN v = 0
             ELSE v \in q /\ Cardinality({n \in q : n >= v}) = K

\* An increasing sequence has as many members as entries.
LEMMA IncreasingLength ==
  ASSUME NEW r \in Seq(Nat), \A i, j \in 1..Len(r) : i < j => r[i] < r[j]
  PROVE  IsFiniteSet(ToSet(r)) /\ Cardinality(ToSet(r)) = Len(r) /\ Len(r) \in Nat
<1>1. Len(r) \in Nat /\ \A i \in 1..Len(r) : r[i] \in Nat
  BY LenProperties, ElementOfSeq
<1>2. ASSUME NEW i \in 1..Len(r), NEW j \in 1..Len(r), r[i] = r[j] PROVE i = j
  <2>1. ~(i < j) /\ ~(j < i)
    BY <1>1, <1>2
  <2> QED BY <1>1, <2>1
<1>3. Data!ToSet(r) = ToSet(r)
  BY DEF ToSet, Data!ToSet
<1> QED BY <1>1, <1>2, <1>3, FiniteSame, CardinalitySame, Data!InjectiveLength

\* No times are kept of an object without requests.
LEMMA TracksEmpty == Tracks(<<>>, {})
<1>1. <<>> \in Seq(Nat) /\ Len(<<>>) = 0 /\ ToSet(<<>>) = {}
  BY EmptySeq DEF ToSet
<1>2. K \in Nat \ {0}
  BY ArgumentsAssumption
<1> QED BY <1>1, <1>2 DEF Tracks

\* One more request, at the time n + 1.
LEMMA TracksStep ==
  ASSUME NEW r, NEW q, NEW n \in Nat, q \subseteq 1..n, Tracks(r, q),
         NEW r1, IsAppend(r, n + 1, r1),
         NEW q1, \A x : x \in q1 <=> x \in q \/ x = n + 1
  PROVE  /\ Len(r1) >= K => Kth(r1[1], q1) /\ Tracks(Tail(r1), q1)
         /\ ~(Len(r1) >= K) => Kth(0, q1) /\ Tracks(r1, q1)
<1>1. /\ r \in Seq(Nat) /\ Len(r) \in Nat /\ K \in Nat \ {0}
      /\ DOMAIN r = 1..Len(r) /\ Len(r) < K
  BY ArgumentsAssumption, LenProperties DEF Tracks
<1>2. /\ r1 \in Seq(Nat) /\ Len(r1) = Len(r) + 1 /\ r1[Len(r) + 1] = n + 1
      /\ \A i \in 1..Len(r) : r1[i] = r[i]
      /\ DOMAIN r1 = 1..(Len(r) + 1)
  <2>1. /\ r1 \in Seq(Nat) /\ Len(r1) = Len(r) + 1 /\ r1[Len(r) + 1] = n + 1
        /\ \A i \in 1..Len(r) : r1[i] = r[i]
    BY <1>1, AppendProperties DEF IsAppend
  <2> QED BY <1>1, <2>1, LenProperties
<1>3. ToSet(r1) = ToSet(r) \cup {n + 1}
  BY <1>1, <1>2 DEF ToSet
<1>4. \A i \in 1..Len(r) : r[i] \in 1..n
  BY <1>1 DEF Tracks, ToSet
<1>5. \A i, j \in 1..Len(r1) : i < j => r1[i] < r1[j]
  <2> SUFFICES ASSUME NEW i \in 1..Len(r1), NEW j \in 1..Len(r1), i < j
               PROVE  r1[i] < r1[j]
    OBVIOUS
  <2>1. i \in 1..Len(r) /\ r1[i] = r[i]
    BY <1>1, <1>2
  <2>2. CASE j = Len(r) + 1
    BY <1>2, <1>4, <2>1, <2>2
  <2>3. CASE j # Len(r) + 1
    <3>1. j \in 1..Len(r) /\ r1[j] = r[j]
      BY <1>1, <1>2, <2>3
    <3> QED BY <2>1, <3>1 DEF Tracks
  <2> QED BY <2>2, <2>3
<1>6. /\ ToSet(r1) \subseteq q1 /\ q1 \subseteq 1..(n + 1)
      /\ \A x \in q1 \ ToSet(r1) : \A y \in ToSet(r1) : x < y
  <2>1. ToSet(r1) \subseteq q1
    BY <1>3 DEF Tracks
  <2>0. q1 \subseteq 1..(n + 1)
    <3>1. \A x \in 1..n : x \in 1..(n + 1)
      OBVIOUS
    <3>2. n + 1 \in 1..(n + 1)
      OBVIOUS
    <3> QED BY <3>1, <3>2
  <2>2. ASSUME NEW x \in q1 \ ToSet(r1), NEW y \in ToSet(r1) PROVE x < y
    <3>1. x \in q \ ToSet(r) /\ x \in 1..n
      BY <1>3
    <3>2. CASE y = n + 1
      BY <3>1, <3>2
    <3>3. CASE y \in ToSet(r)
      BY <3>1, <3>3 DEF Tracks
    <3> QED BY <1>3, <3>2, <3>3
  <2> QED BY <2>0, <2>1, <2>2
<1>7. IsFiniteSet(ToSet(r1)) /\ Cardinality(ToSet(r1)) = Len(r1) /\ Len(r1) \in Nat
  BY <1>2, <1>5, IncreasingLength
<1>8. ASSUME Len(r1) >= K PROVE Kth(r1[1], q1) /\ Tracks(Tail(r1), q1)
  <2>1. Len(r1) = K /\ 1 \in 1..Len(r1)
    BY <1>1, <1>2, <1>8
  <2>2. r1[1] \in ToSet(r1) /\ r1[1] \in Nat
    BY <1>2, <2>1, ElementOfSeq DEF ToSet
  <2>3. \A y \in ToSet(r1) : y \in Nat /\ y >= r1[1]
    <3> SUFFICES ASSUME NEW i \in 1..Len(r1) PROVE r1[i] \in Nat /\ r1[i] >= r1[1]
      BY <1>2 DEF ToSet
    <3>1. r1[i] \in Nat
      BY <1>2, ElementOfSeq
    <3>2. CASE i = 1
      BY <2>2, <3>2
    <3>3. CASE i # 1
      <4>1. r1[1] < r1[i]
        BY <1>5, <1>7, <2>1, <3>3
      <4> QED BY <2>2, <3>1, <4>1
    <3> QED BY <3>1, <3>2, <3>3
  <2>4. {x \in q1 : x >= r1[1]} = ToSet(r1)
    <3>1. \A x \in q1 : x \in Nat
      BY <1>6
    <3>2. ASSUME NEW x \in q1, x >= r1[1] PROVE x \in ToSet(r1)
      <4>1. SUFFICES ASSUME x \notin ToSet(r1) PROVE FALSE
        OBVIOUS
      <4>2. x < r1[1]
        BY <1>6, <2>2, <4>1
      <4> QED BY <2>2, <3>1, <3>2, <4>2
    <3> QED BY <1>6, <2>3, <3>2
  <2>5. IsFiniteSet(q1) /\ Cardinality(q1) \in Nat /\ Cardinality(ToSet(r1)) <= Cardinality(q1)
    <3>1. PICK m \in Nat : m = n + 1
      OBVIOUS
    <3>2. IsFiniteSet(q1)
      <4>1. IsFiniteSet(1..m) /\ q1 \in SUBSET (1..m)
        BY <1>6, <3>1, FS_Interval
      <4> QED BY <4>1, FS_Subset
    <3> QED BY <1>6, <3>2, FS_Subset, FS_CardinalityType
  <2>6. Kth(r1[1], q1)
    <3>1. ~(Cardinality(q1) < K)
      BY <1>1, <1>7, <2>1, <2>5
    <3>2. r1[1] \in q1 /\ Cardinality({x \in q1 : x >= r1[1]}) = K
      BY <1>6, <1>7, <2>1, <2>2, <2>4
    <3> QED BY <3>1, <3>2 DEF Kth
  <2> DEFINE t == Tail(r1)
  <2>7. /\ t \in Seq(Nat) /\ Len(t) = K - 1 /\ \A i \in 1..Len(t) : t[i] = r1[i + 1]
        /\ DOMAIN t = 1..(K - 1)
    <3>1. r1 # <<>>
      BY <2>1, EmptySeq
    <3>2. /\ t \in Seq(Nat) /\ Len(t) = Len(r1) - 1
          /\ \A i \in 1..Len(t) : t[i] = r1[i + 1]
      BY <1>2, <3>1, HeadTailProperties
    <3> QED BY <2>1, <3>2, LenProperties
  <2> HIDE DEF t
  <2>8. ToSet(t) = ToSet(r1) \ {r1[1]}
    <3>1. \A i \in 1..(K - 1) : i + 1 \in 1..Len(r1) /\ t[i] = r1[i + 1] /\ r1[1] < r1[i + 1]
      BY <1>1, <1>5, <2>1, <2>7
    <3>2. \A i \in 1..(K - 1) : t[i] \in ToSet(r1) /\ t[i] # r1[1]
      <4>1. \A i \in 1..(K - 1) : r1[i + 1] \in ToSet(r1)
        BY <1>2, <3>1 DEF ToSet
      <4> QED BY <2>2, <3>1, <4>1
    <3>3. ASSUME NEW j \in 1..Len(r1), r1[j] # r1[1] PROVE r1[j] \in ToSet(t)
      <4>1. j - 1 \in 1..(K - 1) /\ (j - 1) + 1 = j
        BY <1>1, <2>1, <3>3
      <4>2. t[j - 1] = r1[j]
        BY <2>7, <4>1
      <4> QED BY <2>7, <4>1, <4>2 DEF ToSet
    <3> QED BY <1>2, <2>7, <3>2, <3>3 DEF ToSet
  <2>9. Tracks(t, q1)
    <3>1. \A i, j \in 1..Len(t) : i < j => t[i] < t[j]
      BY <1>1, <1>5, <2>1, <2>7
    <3>2. ASSUME NEW x \in q1 \ ToSet(t), NEW y \in ToSet(t) PROVE x < y
      <4>1. CASE x = r1[1]
        BY <2>2, <2>3, <2>8, <4>1
      <4>2. CASE x # r1[1]
        BY <1>6, <2>8, <4>2
      <4> QED BY <4>1, <4>2
    <3> QED BY <1>1, <1>6, <2>7, <2>8, <3>1, <3>2 DEF Tracks
  <2> QED BY <2>6, <2>9 DEF t
<1>9. ASSUME ~(Len(r1) >= K) PROVE Kth(0, q1) /\ Tracks(r1, q1)
  <2>1. q1 = ToSet(r1)
    BY <1>1, <1>2, <1>3, <1>9 DEF Tracks
  <2>2. Kth(0, q1)
    <3>1. Cardinality(q1) < K
      BY <1>1, <1>7, <1>9, <2>1
    <3> QED BY <3>1 DEF Kth
  <2>3. Len(r1) < K
    BY <1>1, <1>7, <1>9
  <2> QED BY <1>2, <1>5, <1>6, <2>1, <2>2, <2>3 DEF Tracks
<1> QED BY <1>8, <1>9

RefsInv ==
  cacheType = "LRUK" =>
    /\ cache.curTime = Len(trace)
    /\ \A x \in cache.map : x.size < cache.size
    /\ \A x \in Requested : x.size < cache.size =>
         Tracks(cache.refsMap[x], RequestsIn(trace, since[x], x))
    /\ \A e \in ToSet(cache.values) :
         Kth(e.val, RequestsIn(trace, since[e.obj], e.obj))

\* The invariant of the reference times holds initially.
LEMMA RefsInit == Init => RefsInv
<1> SUFFICES ASSUME Init, cacheType = "LRUK" PROVE RefsInv
  BY DEF RefsInv
<1>1. /\ cache.curTime = 0 /\ cache.map = {} /\ cache.values = <<>>
      /\ \A x \in Requested : cache.refsMap[x] = <<>>
      /\ trace = <<>> /\ since = [x \in Requested |-> 0]
  BY DEF Init
<1>2. Len(<<>>) = 0 /\ DOMAIN <<>> = {}
  BY EmptySeq
<1>3. \A x : RequestsIn(trace, since[x], x) = {}
  BY <1>1, <1>2 DEF RequestsIn
<1>4. ToSet(cache.values) = {}
  BY <1>1, <1>2 DEF ToSet
<1>5. \A x \in Requested : Tracks(cache.refsMap[x], RequestsIn(trace, since[x], x))
  BY <1>1, <1>3, TracksEmpty
<1> QED BY <1>1, <1>2, <1>4, <1>5 DEF RefsInv

\* Every action keeps the invariant of the reference times.
LEMMA RefsStep == Inv /\ Inv' /\ RefsInv /\ [Next]_vars => RefsInv'
<1> SUFFICES ASSUME Inv, Inv', RefsInv, [Next]_vars PROVE RefsInv'
  OBVIOUS
<1>1. CASE UNCHANGED vars
  BY <1>1 DEF vars, RefsInv
<1>2. CASE Next
  <2>1. PICK o \in Requested :
          /\ Stored(o) \/ TooLarge(o)
          /\ IsAppend(trace, o, trace')
          /\ since' = SinceAfter(since, cache, cache', Len(trace))
          /\ cacheType' = cacheType
    BY <1>2, NextRequest DEF IsAppend
  <2> SUFFICES ASSUME cacheType = "LRUK"
               PROVE  /\ cache'.curTime = Len(trace')
                      /\ \A x \in cache'.map : x.size < cache'.size
                      /\ \A x \in Requested : x.size < cache'.size =>
                           Tracks(cache'.refsMap[x], RequestsIn(trace', since'[x], x))
                      /\ \A e \in ToSet(cache'.values) :
                           Kth(e.val, RequestsIn(trace', since'[e.obj], e.obj))
    BY <2>1 DEF RefsInv
  <2>2. /\ Len(trace') = Len(trace) + 1
        /\ RequestsIn(trace', since'[o], o)
             = RequestsIn(trace, since[o], o) \cup {Len(trace) + 1}
        /\ \A x \in Requested : x # o =>
             RequestsIn(trace', since'[x], x)
               = IF x \in cache.map \ cache'.map THEN {}
                 ELSE RequestsIn(trace, since[x], x)
    BY <2>1, NextRequests DEF IsAppend
  <2>3. /\ cache.curTime = Len(trace)
        /\ \A x \in cache.map : x.size < cache.size
        /\ \A x \in Requested : x.size < cache.size =>
             Tracks(cache.refsMap[x], RequestsIn(trace, since[x], x))
        /\ \A e \in ToSet(cache.values) :
             Kth(e.val, RequestsIn(trace, since[e.obj], e.obj))
    BY DEF RefsInv
  <2>4. /\ cache'.curTime = cache.curTime + 1 /\ cache'.size = cache.size
        /\ cache'.map \subseteq cache.map \cup {o}
        /\ \A x \in ToSet(cache'.values) : x.obj \in cache'.map
        /\ cache.map \subseteq Requested /\ cache'.map \subseteq Requested
        /\ trace \in Seq(Requested) /\ since[o] \in Nat /\ Len(trace) \in Nat
    <3>1. Consistent(cache) /\ Consistent(cache')
      BY DEF Inv
    <3>2. \A x \in ToSet(cache'.values) : x.obj \in cache'.map
      BY <3>1 DEF Consistent, ToSet, ObjectsIn
    <3>3. cache.map \subseteq Requested /\ cache'.map \subseteq Requested
      BY <3>1 DEF Consistent, Caches
    <3>4. trace \in Seq(Requested) /\ since[o] \in Nat /\ Len(trace) \in Nat
      BY LenProperties DEF Inv
    <3>5. /\ cache'.curTime = cache.curTime + 1 /\ cache'.size = cache.size
          /\ cache'.map \subseteq cache.map \cup {o}
      BY <2>1 DEF Stored, TooLarge, Renewed
    <3> QED BY <3>2, <3>3, <3>4, <3>5
  <2>5. cache'.curTime = Len(trace')
    BY <2>2, <2>3, <2>4
  <2>6. ASSUME NEW x \in Requested, x # o, x.size < cache'.size
        PROVE  Tracks(cache'.refsMap[x], RequestsIn(trace', since'[x], x))
    <3>1. x.size < cache.size
      BY <2>4, <2>6
    <3>2. cache'.refsMap[x] = IF x \in cache.map \ cache'.map THEN <<>>
                              ELSE cache.refsMap[x]
      <4>1. CASE Stored(o)
        BY <2>6, <4>1 DEF Stored, Renewed
      <4>2. CASE TooLarge(o)
        BY <2>6, <4>2 DEF TooLarge
      <4> QED BY <2>1, <4>1, <4>2
    <3>3. CASE x \in cache.map \ cache'.map
      BY <2>2, <2>6, <3>2, <3>3, TracksEmpty
    <3>4. CASE x \notin cache.map \ cache'.map
      BY <2>2, <2>3, <2>6, <3>1, <3>2, <3>4
    <3> QED BY <3>3, <3>4
  <2>7. ASSUME NEW x \in ToSet(cache.values), x.obj # o, x.obj \in cache'.map
        PROVE  Kth(x.val, RequestsIn(trace', since'[x.obj], x.obj))
    BY <2>2, <2>3, <2>4, <2>7
  <2>8. CASE Stored(o)
    <3>1. PICK e : Renewed(cache, cache', o, e)
      BY <2>8 DEF Stored
    <3>2. o.size < cache.size
      BY <2>3, <2>8 DEF Stored
    <3> DEFINE r == cache.refsMap[o]
               r1 == Append(r, cache.curTime + 1)
               q == RequestsIn(trace, since[o], o)
               q1 == RequestsIn(trace', since'[o], o)
    <3>3. /\ Tracks(r, q) /\ q \subseteq 1..Len(trace)
          /\ IsAppend(r, Len(trace) + 1, r1)
          /\ \A x : x \in q1 <=> x \in q \/ x = Len(trace) + 1
      BY <2>2, <2>3, <2>4, <3>2, RequestsFinite DEF IsAppend
    <3>4. IF Len(r1) >= K THEN e.val = r1[1] /\ cache'.refsMap[o] = Tail(r1)
          ELSE e.val = 0 /\ cache'.refsMap[o] = r1
      BY <3>1 DEF Renewed
    <3> HIDE DEF r, r1, q, q1
    <3>5. Kth(e.val, q1) /\ Tracks(cache'.refsMap[o], q1)
      <4>1. /\ Len(r1) >= K => Kth(r1[1], q1) /\ Tracks(Tail(r1), q1)
            /\ ~(Len(r1) >= K) => Kth(0, q1) /\ Tracks(r1, q1)
        BY <2>4, <3>3, TracksStep
      <4> QED BY <3>4, <4>1
    <3>6. \A x \in Requested : x.size < cache'.size =>
            Tracks(cache'.refsMap[x], RequestsIn(trace', since'[x], x))
      BY <2>6, <3>5 DEF q1
    <3>7. \A x \in ToSet(cache'.values) :
            Kth(x.val, RequestsIn(trace', since'[x.obj], x.obj))
      <4> SUFFICES ASSUME NEW x \in ToSet(cache'.values)
                   PROVE  Kth(x.val, RequestsIn(trace', since'[x.obj], x.obj))
        OBVIOUS
      <4>1. CASE x = e
        BY <3>1, <3>5, <4>1 DEF Renewed, q1
      <4>2. CASE x # e
        BY <2>4, <2>7, <3>1, <4>2 DEF Renewed
      <4> QED BY <4>1, <4>2
    <3> QED BY <2>3, <2>4, <2>5, <3>2, <3>6, <3>7
  <2>9. CASE TooLarge(o)
    <3>1. /\ cache'.values = cache.values /\ cache'.map = cache.map /\ o \notin cache.map
          /\ ~(o.size < cache'.size)
      BY <2>9 DEF TooLarge
    <3>2. \A x \in Requested : x.size < cache'.size =>
            Tracks(cache'.refsMap[x], RequestsIn(trace', since'[x], x))
      BY <2>6, <3>1
    <3>3. \A x \in ToSet(cache'.values) :
            Kth(x.val, RequestsIn(trace', since'[x.obj], x.obj))
      BY <2>4, <2>7, <3>1
    <3> QED BY <2>3, <2>4, <2>5, <3>1, <3>2, <3>3
  <2> QED BY <2>1, <2>8, <2>9
<1> QED BY <1>1, <1>2

\* The value of an object is the time of its K-th last request.
THEOREM KthReferenceHolds == Spec => []KthReference
<1>1. Init => RefsInv
  BY RefsInit
<1>2. Inv /\ Inv' /\ RefsInv /\ [Next]_vars => RefsInv'
  BY RefsStep
<1>3. RefsInv => KthReference
  BY RequestsIs DEF RefsInv, KthReference, Kth, ToSet
<1> QED BY <1>1, <1>2, <1>3, InvHolds, PTL DEF Spec
=============================================================================
