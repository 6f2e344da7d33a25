---------------------------- MODULE S4LRUProofs ----------------------------
(***************************************************************************)
(* S4LRU for every capacity and every trace: an object is in one segment,  *)
(* a hit moves it up, and only segment 0 loses objects.                    *)
(***************************************************************************)
EXTENDS S4LRU, ClassLemmas

(***************************************************************************)
(* Bytes of a segment as the sum over its objects.                         *)
(***************************************************************************)

\* Fewer objects have fewer bytes.
LEMMA SizeSumGrows ==
  ASSUME NEW S, Sized(S), NEW T \in SUBSET S
  PROVE  Sized(T) /\ SizeSum(T) \in Nat /\ SizeSum(T) <= SizeSum(S)
<1>1. \A U \in SUBSET S : Sized(U) /\ SizeSum(U) \in Nat
  <2> SUFFICES ASSUME NEW U \in SUBSET S PROVE Sized(U) /\ SizeSum(U) \in Nat
    OBVIOUS
  <2>1. Sized(U)
    BY SizeSumIs
  <2> QED BY <2>1, SizeSumNat
<1> DEFINE F == {U \in SUBSET S : T \subseteq U /\ SizeSum(U) < SizeSum(T)}
<1>2. F = {}
  <2> SUFFICES ASSUME F # {} PROVE FALSE
    OBVIOUS
  <2>1. \A U \in F : IsFiniteSet(U)
    BY <1>1 DEF Sized
  <2>2. PICK U \in F : \A R \in F : Cardinality(U) <= Cardinality(R)
    <3> HIDE DEF F
    <3> QED BY <2>1, LeastSet
  <2>3. U # T
    BY <1>1, <2>2
  <2>4. PICK a \in U : a \notin T
    BY <2>2, <2>3
  <2>5. Sized(U) /\ SizeSum(U) \in Nat /\ a.size \in Nat
    BY <1>1, <2>2 DEF Sized
  <2>6. SizeSum(U) = a.size + SizeSum(U \ {a}) /\ SizeSum(U \ {a}) \in Nat
    BY <2>5, SizeSumRemove
  <2>7. SizeSum(T) \in Nat
    BY <1>1
  <2>8. U \ {a} \in F
    BY <2>2, <2>4, <2>5, <2>6, <2>7
  <2>9. /\ Cardinality(U \ {a}) = Cardinality(U) - 1
        /\ Cardinality(U) \in Nat
    BY <2>1, <2>2, FS_RemoveElement, FS_CardinalityType
  <2>10. Cardinality(U) <= Cardinality(U \ {a})
    BY <2>2, <2>8
  <2> QED BY <2>9, <2>10
<1>3. SizeSum(S) \in Nat /\ SizeSum(T) \in Nat
  BY <1>1
<1>4. ~(SizeSum(S) < SizeSum(T))
  BY <1>2
<1> QED BY <1>1, <1>3, <1>4

\* The bytes of a list that repeats nothing are those of its objects.
LEMMA BytesSum ==
  ASSUME NEW s \in Seq(Objects), IsInjective(s)
  PROVE  Sized(ToSet(s)) /\ SizeSum(ToSet(s)) = Bytes(s)
<1> DEFINE n == Len(s)
           Part(k) == {s[i] : i \in 1..k}
           P == {k \in 0..n : Sized(Part(k)) /\ SizeSum(Part(k)) = Upto(s)[k]}
<1>1. n \in Nat /\ DOMAIN s = 1..n /\ \A i, j \in 1..n : s[i] = s[j] => i = j
  BY LenProperties DEF IsInjective
<1>2. 0 \in P
  <2>1. Part(0) = {}
    OBVIOUS
  <2>2. Sized({}) /\ SizeSum({}) = 0
    BY FS_EmptySet, SizeSumNat DEF Sized
  <2>3. Upto(s)[0] = 0 /\ 0 \in 0..n
    BY <1>1, UptoDef
  <2> HIDE DEF Part
  <2> QED BY <2>1, <2>2, <2>3
<1>3. ASSUME NEW k \in 1..n, k - 1 \in P PROVE k \in P
  <2>1. Part(k) = Part(k-1) \cup {s[k]}
    BY <1>1
  <2>2. s[k] \notin Part(k-1)
    BY <1>1
  <2>3. s[k].size \in Nat
    BY SizesNat
  <2>4. Sized(Part(k-1)) /\ SizeSum(Part(k-1)) = Upto(s)[k-1]
    BY <1>3
  <2> HIDE DEF Part
  <2>5. Sized(Part(k)) /\ SizeSum(Part(k)) = Upto(s)[k-1] + s[k].size
    BY <2>1, <2>2, <2>3, <2>4, SizeSumAdd
  <2>6. Upto(s)[k] = Upto(s)[k-1] + s[k].size /\ k \in 0..n
    BY UptoDef
  <2> QED BY <2>5, <2>6
<1>4. P = 0..n
  <2>1. P \in SUBSET (0..n)
    OBVIOUS
  <2> HIDE DEF P
  <2> QED BY <1>1, <1>2, <1>3, <2>1, UptoInduction
<1>5. Part(n) = ToSet(s)
  BY <1>1 DEF ToSet
<1> HIDE DEF P
<1>6. n \in P
  BY <1>1, <1>4
<1> QED BY <1>5, <1>6 DEF Bytes, P

\* The current size of a cache is the bytes of the objects in its index.
LEMMA CurrentSum ==
  ASSUME NEW c, CacheInv(c)
  PROVE  /\ Sized(c.map) /\ c.current = SizeSum(c.map) /\ c.current <= c.size
         /\ c.current \in Nat /\ c.size \in Nat /\ c.map \subseteq Objects
<1>1. /\ c.list \in Seq(Objects) /\ IsInjective(c.list) /\ c.map = ToSet(c.list)
      /\ c.current = Bytes(c.list) /\ c.current <= c.size
      /\ c.current \in Nat /\ c.size \in Nat /\ c.map \subseteq Objects
  BY DEF CacheInv, SizeExact, IndexExact, LRUCaches
<1> QED BY <1>1, BytesSum

(***************************************************************************)
(* One segment while objects are moved down.  "own" is what it held when   *)
(* that began, "up" what the segment above held.                           *)
(***************************************************************************)

\* What has come down is from the segment above, and more recent than what
\* was there.
Shifted(c, own, up, cap) ==
  /\ CacheInv(c) /\ c.size = cap
  /\ c.map \subseteq own \cup up
  /\ \A a, b \in 1..Len(c.list) :
       a < b /\ c.list[b] \notin own => c.list[a] \notin own

\* The list of a cache: its cells hold the objects of the index, each once.
LEMMA ListOf ==
  ASSUME NEW c, CacheInv(c)
  PROVE  /\ c.list \in Seq(Objects) /\ Len(c.list) \in Nat
         /\ DOMAIN c.list = 1..Len(c.list)
         /\ c.map = {c.list[i] : i \in 1..Len(c.list)}
         /\ \A i, j \in 1..Len(c.list) : c.list[i] = c.list[j] => i = j
         /\ c.list # <<>> => /\ Len(c.list) \in 1..Len(c.list)
                             /\ Last(c.list) = c.list[Len(c.list)]
                             /\ Last(c.list) \in c.map
<1>1. c.list \in Seq(Objects) /\ c.map = ToSet(c.list) /\ IsInjective(c.list)
  BY DEF CacheInv, LRUCaches, IndexExact
<1>2. DOMAIN c.list = 1..Len(c.list) /\ Len(c.list) \in Nat
  BY <1>1, LenProperties
<1>3. c.map = {c.list[i] : i \in 1..Len(c.list)}
  BY <1>1, <1>2 DEF ToSet
<1>4. \A i, j \in 1..Len(c.list) : c.list[i] = c.list[j] => i = j
  BY <1>1, <1>2 DEF IsInjective
<1>5. ASSUME c.list # <<>>
      PROVE  Len(c.list) \in 1..Len(c.list) /\ Last(c.list) = c.list[Len(c.list)]
  BY <1>1, <1>5, EmptySeq DEF Last
<1> QED BY <1>1, <1>2, <1>3, <1>4, <1>5

\* evict_return() takes the last object out of list and index.
LEMMA EvictReturnTakes ==
  ASSUME NEW c, CacheInv(c), c.list # <<>>
  PROVE  /\ CacheInv(EvictReturn(c)) /\ EvictReturn(c).size = c.size
         /\ EvictReturn(c).map = c.map \ {Last(c.list)}
         /\ Len(EvictReturn(c).list) = Len(c.list) - 1
         /\ \A i \in 1..(Len(c.list) - 1) : EvictReturn(c).list[i] = c.list[i]
<1>1. Consistent(c) /\ c.current <= c.size
  BY CacheInvConsistent
<1>2. /\ Consistent(EvictReturn(c)) /\ EvictReturn(c).size = c.size
      /\ Len(EvictReturn(c).list) = Len(c.list) - 1
  BY <1>1, EvictReturnInv
<1>3. EvictReturn(c).map = c.map \ {Last(c.list)}
  BY DEF EvictReturn, CacheInv, LRUCaches
<1>4. /\ \A i \in 1..(Len(c.list) - 1) : EvictReturn(c).list[i] = c.list[i]
      /\ c.current = EvictReturn(c).current + c.list[Len(c.list)].size
  BY <1>1, EvictReturnLast
<1>5. c.list[Len(c.list)].size \in Nat
  BY ListOf, SizesNat
<1>6. EvictReturn(c).current \in Nat /\ c.current \in Nat /\ c.size \in Nat
  BY <1>1, <1>2 DEF Consistent, LRUCaches
<1>7. EvictReturn(c).current <= EvictReturn(c).size
  BY <1>1, <1>2, <1>4, <1>5, <1>6
<1>8. CacheInv(EvictReturn(c))
  BY <1>2, <1>7, CacheInvConsistent
<1> QED BY <1>2, <1>3, <1>4, <1>8

\* A segment an object leaves stays as it should be.
LEMMA EvictReturnShifted ==
  ASSUME NEW c, NEW own, NEW up, NEW cap, Shifted(c, own, up, cap),
         c.list # <<>>
  PROVE  Shifted(EvictReturn(c), own, up, cap)
<1> DEFINE e == EvictReturn(c)
<1>1. CacheInv(c) /\ c.size = cap /\ c.map \subseteq own \cup up
  BY DEF Shifted
<1>2. /\ CacheInv(e) /\ e.size = c.size /\ e.map = c.map \ {Last(c.list)}
      /\ Len(e.list) = Len(c.list) - 1 /\ Len(c.list) \in Nat
      /\ \A i \in 1..(Len(c.list) - 1) : e.list[i] = c.list[i]
  BY <1>1, EvictReturnTakes, ListOf
<1> HIDE DEF e
<1>3. ASSUME NEW a \in 1..Len(e.list), NEW b \in 1..Len(e.list),
             a < b, e.list[b] \notin own
      PROVE  e.list[a] \notin own
  <2>1. a \in 1..Len(c.list) /\ b \in 1..Len(c.list)
        /\ e.list[a] = c.list[a] /\ e.list[b] = c.list[b]
    BY <1>2
  <2> QED BY <1>3, <2>1 DEF Shifted
<1>4. Shifted(e, own, up, cap)
  BY <1>1, <1>2, <1>3 DEF Shifted
<1> QED BY <1>4 DEF e

\* When what has come down from above, a part of what fits there, leaves too
\* little room for one more of it, the least recent object was here before.
LEMMA LastIsOwn ==
  ASSUME NEW c, NEW own, NEW up, NEW cap, Shifted(c, own, up, cap),
         NEW v \in Objects, v \notin c.map, c.current + v.size > cap,
         c.list # <<>>,
         \/ v \in up /\ Sized(up) /\ SizeSum(up) <= cap
         \/ c.map \subseteq own
  PROVE  Last(c.list) \in own
<1>1. /\ CacheInv(c) /\ c.size = cap /\ c.map \subseteq own \cup up
      /\ \A a, b \in 1..Len(c.list) :
           a < b /\ c.list[b] \notin own => c.list[a] \notin own
  BY DEF Shifted
<1>2. /\ Sized(c.map) /\ c.current = SizeSum(c.map) /\ c.current \in Nat
      /\ c.size \in Nat
  BY <1>1, CurrentSum
<1>3. /\ Len(c.list) \in 1..Len(c.list) /\ Last(c.list) = c.list[Len(c.list)]
      /\ Last(c.list) \in c.map /\ Len(c.list) \in Nat
      /\ c.map = {c.list[i] : i \in 1..Len(c.list)}
  BY <1>1, ListOf
<1> SUFFICES ASSUME Last(c.list) \notin own PROVE FALSE
  OBVIOUS
<1>4. v \in up /\ Sized(up) /\ SizeSum(up) <= cap
  BY <1>3
<1>5. \A i \in 1..Len(c.list) : c.list[i] \notin own
  <2> SUFFICES ASSUME NEW i \in 1..Len(c.list) PROVE c.list[i] \notin own
    OBVIOUS
  <2>1. i < Len(c.list) \/ i = Len(c.list)
    BY <1>3
  <2> QED BY <1>1, <1>3, <2>1
<1>6. c.map \cup {v} \in SUBSET up
  BY <1>1, <1>3, <1>4, <1>5
<1>7. v.size \in Nat
  BY DEF Objects
<1>8. SizeSum(c.map \cup {v}) = SizeSum(c.map) + v.size
  BY <1>2, <1>7, SizeSumAdd
<1>9. SizeSum(c.map \cup {v}) <= SizeSum(up) /\ SizeSum(up) \in Nat
      /\ SizeSum(c.map \cup {v}) \in Nat
  BY <1>4, <1>6, SizeSumGrows, SizeSumNat
<1> QED BY <1>1, <1>2, <1>4, <1>7, <1>8, <1>9

\* Before the first eviction the cache is as it was.
LEMMA NoEviction ==
  ASSUME NEW c, NEW n \in Nat, n = Len(c.list)
  PROVE  Evictions(c)[0] = c
<1>1. Evictions(c) = [i \in 0..n |->
                   IF i = 0 THEN c ELSE EvictReturn(Evictions(c)[i-1])]
  BY EvictionsExists DEF Evictions
<1> QED BY <1>1

\* Nothing is evicted for an object there is room for.
LEMMA AdmitFits ==
  ASSUME NEW c, CacheInv(c), NEW o \in Objects, c.current + o.size <= c.size
  PROVE  Admit(c, o) = PushFront(c, o)
<1> DEFINE n0 == Len(c.list)
<1>1. /\ n0 \in Nat /\ o.size \in Nat /\ c.current \in Nat /\ c.size \in Nat
  BY ListOf, CurrentSum DEF Objects
<1>3. Evictions(c)[0] = c
  BY <1>1, NoEviction
<1> DEFINE Fits(k) == Evictions(c)[k].current + o.size <= c.size
           K == CHOOSE i \in 0..n0 : Fits(i) /\ \A j \in 0..(i-1) : ~Fits(j)
<1>4. Fits(0) /\ 0 \in 0..n0 /\ \A j \in 0..(0-1) : ~Fits(j)
  BY <1>1, <1>3
<1> HIDE DEF Fits, n0
<1>5. K \in 0..n0 /\ \A j \in 0..(K-1) : ~Fits(j)
  BY <1>4
<1>6. MakeRoom(c, o.size) = Evictions(c)[K]
  BY DEF MakeRoom, Fits, n0
<1> HIDE DEF K
<1>7. K = 0
  <2>1. K > 0 => 0 \in 0..(K-1)
    BY <1>1, <1>5
  <2> QED BY <1>1, <1>4, <1>5, <2>1
<1> QED BY <1>1, <1>3, <1>6, <1>7 DEF Admit

\* Pushing an object that fits on a cache.
LEMMA PushInv ==
  ASSUME NEW c, CacheInv(c), NEW o \in Objects, o \notin c.map,
         c.current + o.size <= c.size
  PROVE  /\ CacheInv(PushFront(c, o)) /\ PushFront(c, o).size = c.size
         /\ PushFront(c, o).map = c.map \cup {o}
         /\ PushFront(c, o).list = <<o>> \o c.list
         /\ PushFront(c, o).current = c.current + o.size
<1>1. Admit(c, o) = PushFront(c, o)
  BY AdmitFits
<1>2. CacheInv(Admit(c, o)) /\ Admit(c, o).size = c.size
  BY AdmitInv
<1>3. /\ PushFront(c, o).map = c.map \cup {o}
      /\ PushFront(c, o).list = <<o>> \o c.list
      /\ PushFront(c, o).current = c.current + o.size
  BY DEF PushFront, CacheInv, LRUCaches
<1> QED BY <1>1, <1>2, <1>3

\* d is a cache whose list is the beginning of that of c, and v goes on top.
LEMMA PushShifted ==
  ASSUME NEW c, NEW own, NEW up, NEW cap, Shifted(c, own, up, cap),
         NEW d, CacheInv(d), d.size = cap, Len(d.list) <= Len(c.list),
         \A i \in 1..Len(d.list) : d.list[i] = c.list[i],
         NEW v \in Objects, v \in up, v \notin own, v \notin d.map,
         d.current + v.size <= cap
  PROVE  Shifted(PushFront(d, v), own, up, cap)
<1> DEFINE e == PushFront(d, v)
<1>1. CacheInv(c) /\ c.map \subseteq own \cup up
  BY DEF Shifted
<1>2. /\ c.list \in Seq(Objects) /\ Len(c.list) \in Nat
      /\ c.map = {c.list[i] : i \in 1..Len(c.list)}
      /\ d.list \in Seq(Objects) /\ Len(d.list) \in Nat
      /\ d.map = {d.list[i] : i \in 1..Len(d.list)}
  BY <1>1, ListOf
<1>3. d.map \subseteq c.map
  BY <1>2
<1>4. /\ CacheInv(e) /\ e.size = cap /\ e.map = d.map \cup {v}
      /\ e.list = <<v>> \o d.list
  BY PushInv
<1>5. /\ Len(e.list) = Len(d.list) + 1 /\ e.list[1] = v
      /\ \A i \in 2..(Len(d.list) + 1) : e.list[i] = d.list[i-1]
  BY <1>2, <1>4, PushCells
<1> HIDE DEF e
<1>6. ASSUME NEW a \in 1..Len(e.list), NEW b \in 1..Len(e.list),
             a < b, e.list[b] \notin own
      PROVE  e.list[a] \notin own
  <2>1. CASE a = 1
    BY <1>5, <2>1
  <2>2. CASE a # 1
    <3>1. /\ a - 1 \in 1..Len(d.list) /\ b - 1 \in 1..Len(d.list)
          /\ a \in 2..(Len(d.list) + 1) /\ b \in 2..(Len(d.list) + 1)
          /\ a - 1 < b - 1
      BY <1>2, <1>5, <1>6, <2>2
    <3>2. e.list[a] = c.list[a-1] /\ e.list[b] = c.list[b-1]
      BY <1>5, <3>1
    <3>3. a - 1 \in 1..Len(c.list) /\ b - 1 \in 1..Len(c.list)
      BY <1>2, <3>1
    <3> QED BY <1>6, <3>1, <3>2, <3>3 DEF Shifted
  <2> QED BY <2>1, <2>2
<1>7. Shifted(e, own, up, cap)
  BY <1>1, <1>3, <1>4, <1>6 DEF Shifted
<1> QED BY <1>7 DEF e

\* Segment 0: what is admitted from above pushes out only what was here
\* before, the rest and it being a part of what fits the segment above.
LEMMA AdmitShifted ==
  ASSUME NEW c, NEW own, NEW up, NEW cap, Shifted(c, own, up, cap),
         Sized(up), SizeSum(up) <= cap, own \cap up = {},
         NEW v \in Objects, v \in up, v \notin c.map, v.size <= cap
  PROVE  /\ Shifted(Admit(c, v), own, up, cap)
         /\ Admit(c, v).map \subseteq c.map \cup {v} /\ v \in Admit(c, v).map
         /\ c.map \subseteq Admit(c, v).map \cup own
<1> DEFINE d == MakeRoom(c, v.size)
           n == Len(c.list)
           m == Len(d.list)
<1>1. /\ CacheInv(c) /\ c.size = cap /\ c.map \subseteq own \cup up
      /\ \A a, b \in 1..n : a < b /\ c.list[b] \notin own => c.list[a] \notin own
  BY DEF Shifted
<1>2. /\ c.list \in Seq(Objects) /\ n \in Nat /\ cap \in Nat /\ v.size \in Nat
      /\ c.map = {c.list[i] : i \in 1..n}
      /\ \A i, j \in 1..n : c.list[i] = c.list[j] => i = j
  BY <1>1, ListOf, CurrentSum DEF Objects
<1>3. /\ Consistent(d) /\ d.size = cap /\ d.map \subseteq c.map
      /\ d.current + v.size <= cap /\ CutFrom(c, d, v.size)
  <2>1. Consistent(c) /\ v.size <= c.size
    BY <1>1, CacheInvConsistent
  <2> QED BY <1>1, <1>2, <2>1, MakeRoomInv, MakeRoomCuts
<1>4. CacheInv(d)
  <2>1. d.current \in Nat
    BY <1>3 DEF Consistent, LRUCaches
  <2> QED BY <1>2, <1>3, <2>1, CacheInvConsistent
<1>5. Admit(c, v) = PushFront(d, v)
  BY <1>1, <1>2 DEF Admit
<1> HIDE DEF d
<1>6. /\ m \in Nat /\ m <= n /\ d.map = {d.list[i] : i \in 1..m}
      /\ \A i \in 1..m : d.list[i] = c.list[i]
      /\ m < n => d.current + c.list[m + 1].size + v.size > cap
  BY <1>1, <1>3, <1>4, ListOf DEF CutFrom
<1>7. v \notin d.map /\ v \notin own
  BY <1>3
<1>8. Shifted(PushFront(d, v), own, up, cap)
  BY <1>3, <1>4, <1>6, <1>7, PushShifted
<1>9. PushFront(d, v).map = d.map \cup {v}
  BY <1>3, <1>4, <1>7, PushInv
<1>10. ASSUME NEW b \in (m+1)..n, c.list[b] \notin own PROVE FALSE
  <2> DEFINE x == c.list[m+1]
  <2>1. ASSUME NEW i \in 1..(m+1) PROVE i \in 1..n /\ c.list[i] \notin own
    <3>1. i \in 1..n /\ b \in 1..n /\ (i < b \/ i = b)
      BY <1>2, <1>6
    <3> QED BY <1>1, <1>10, <3>1
  <2>2. m + 1 \in 1..n /\ m < n
    BY <1>2, <1>6
  <2>3. x \in c.map /\ x \in Objects /\ x.size \in Nat /\ x \notin own
    BY <1>2, <2>1, <2>2, SizesNat
  <2>4. x \notin d.map
    BY <1>2, <1>6, <2>1
  <2>5. (d.map \cup {x}) \cup {v} \in SUBSET up
    <3>1. \A y \in d.map : y \notin own
      BY <1>6, <2>1
    <3>2. d.map \subseteq c.map
      BY <1>3
    <3> QED BY <1>1, <2>3, <3>1, <3>2
  <2>6. /\ Sized(d.map) /\ d.current = SizeSum(d.map) /\ d.current \in Nat
    BY <1>4, CurrentSum
  <2> HIDE DEF x
  <2>7. Sized(d.map \cup {x}) /\ SizeSum(d.map \cup {x}) = d.current + x.size
    BY <2>3, <2>4, <2>6, SizeSumAdd
  <2>8. v \notin d.map \cup {x}
    BY <1>7, <2>3
  <2>9. SizeSum((d.map \cup {x}) \cup {v}) = d.current + x.size + v.size
    BY <1>2, <2>7, <2>8, SizeSumAdd
  <2>10. /\ SizeSum((d.map \cup {x}) \cup {v}) <= SizeSum(up)
         /\ SizeSum(up) \in Nat
    BY <2>5, SizeSumGrows, SizeSumNat
  <2>11. d.current + x.size + v.size > cap
    BY <1>6, <2>2 DEF x
  <2> QED BY <1>2, <2>3, <2>6, <2>9, <2>10, <2>11
<1>11. c.map \subseteq d.map \cup own
  <2> SUFFICES ASSUME NEW b \in 1..n, c.list[b] \notin own
               PROVE  c.list[b] \in d.map
    BY <1>2
  <2>1. b \in 1..m
    BY <1>2, <1>6, <1>10
  <2> QED BY <1>6, <2>1
<1> QED BY <1>3, <1>5, <1>8, <1>9, <1>11

(***************************************************************************)
(* A cascade: segment_admit() and the calls it makes.  O is what each      *)
(* segment held when it began, z their capacities.                         *)
(***************************************************************************)
Shares(O, z) ==
  /\ O \in [0..3 -> SUBSET Objects] /\ z \in [0..3 -> Nat]
  /\ \A i, j \in 0..3 : i # j => O[i] \cap O[j] = {}
  /\ \A i \in 0..3 : Sized(O[i]) /\ SizeSum(O[i]) <= z[i]
  /\ \A i \in 0..2 : z[i+1] <= z[i]

Upper(O, i) == IF i < 3 THEN O[i+1] ELSE {}

Arranged(O, z, st) ==
  /\ st \in State
  /\ \A i \in 0..3 : Shifted(st.seg[i], O[i], Upper(O, i), z[i])
  /\ \A i, j \in 0..3 : i # j => st.seg[i].map \cap st.seg[j].map = {}

Held(st, x) == \E i \in 0..3 : x \in st.seg[i].map

\* r is s with objects of segment i, and of those below, moved down.
Lowered(O, i, s, r) ==
  /\ \A m \in 0..3 : m > i => r.seg[m] = s.seg[m]
  /\ r.seg[i].map \subseteq s.seg[i].map
  /\ \A x : Held(r, x) => Held(s, x)
  /\ \A x : Held(s, x) => Held(r, x) \/ x \in O[0]

\* r is s with v admitted to segment i.
Received(O, i, s, v, r) ==
  /\ \A m \in 0..3 : m > i => r.seg[m] = s.seg[m]
  /\ \A x : Held(r, x) => Held(s, x) \/ x = v
  /\ Held(r, v) /\ \A x : Held(s, x) => Held(r, x) \/ x \in O[0]

Demote(i, st) ==
  CASE i = 1 -> Demote1(st) [] i = 2 -> Demote2(st) [] i = 3 -> Demote3(st)

AdmitTo(i, st, o) ==
  CASE i = 0 -> AdmitTo0(st, o) [] i = 1 -> AdmitTo1(st, o)
    [] i = 2 -> AdmitTo2(st, o) [] i = 3 -> AdmitTo3(st, o)

\* The turns of the loop of segment_admit(i).
IsTurns(turn, i, st) ==
  /\ DOMAIN turn = Turns(st, i) /\ turn[0] = st
  /\ \A k \in 1..(Len(st.seg[i].list) + 1) : turn[k] = Demote(i, turn[k-1])

TurnsUpTo(f, i, st, n) ==
  f = [k \in 0..n |-> IF k = 0 THEN st ELSE Demote(i, f[k-1])]

\* There are such turns.
LEMMA TurnsExist ==
  ASSUME NEW i, NEW st, NEW n0 \in Nat
  PROVE  \E f : TurnsUpTo(f, i, st, n0)
<1> DEFINE Good(n) == \E f : f = [k \in 0..n |->
                                    IF k = 0 THEN st ELSE Demote(i, f[k-1])]
           P == {n \in 0..n0 : Good(n)}
<1> HIDE DEF Good
<1>1. Good(0)
  <2> DEFINE g == [k \in 0..0 |-> st]
  <2>1. g = [k \in 0..0 |-> IF k = 0 THEN st ELSE Demote(i, g[k-1])]
    OBVIOUS
  <2> QED BY <2>1 DEF Good
<1>2. ASSUME NEW n \in 1..n0, Good(n-1)
      PROVE  Good(n)
  <2>1. PICK f : f = [k \in 0..(n-1) |->
                        IF k = 0 THEN st ELSE Demote(i, f[k-1])]
    BY <1>2 DEF Good
  <2> DEFINE g == [k \in 0..n |-> IF k = n THEN Demote(i, f[n-1]) ELSE f[k]]
  <2>2. g = [k \in 0..n |-> IF k = 0 THEN st ELSE Demote(i, g[k-1])]
    BY <2>1, <1>2
  <2> QED BY <2>2 DEF Good
<1>3. P = 0..n0
  <2>1. P \in SUBSET (0..n0) /\ 0 \in P
    BY <1>1
  <2>2. \A k \in 1..n0 : k - 1 \in P => k \in P
    BY <1>2
  <2> HIDE DEF P
  <2> QED BY <2>1, <2>2, UptoInduction
<1>4. n0 \in P
  <2> HIDE DEF P
  <2> QED BY <1>3
<1> QED BY <1>4 DEF Good, P, TurnsUpTo

\* segment_admit() takes them.
LEMMA TurnsTaken ==
  ASSUME NEW i \in 1..3, NEW st, Len(st.seg[i].list) \in Nat, NEW o
  PROVE  \E turn : /\ IsTurns(turn, i, st)
                   /\ AdmitTo(i, st, o) = AdmitAfter(turn, i, o)
<1> DEFINE n0 == Len(st.seg[i].list) + 1
           T == Turns(st, i)
<1>1. n0 \in Nat /\ T = 0..n0 /\ 0 \in T /\ \A k \in 1..n0 : k \in T /\ k # 0
  BY DEF Turns
<1> HIDE DEF n0, T
<1>2. \E f : f = [k \in T |-> IF k = 0 THEN st ELSE Demote(i, f[k-1])]
  <2>1. PICK f : TurnsUpTo(f, i, st, n0)
    BY <1>1, TurnsExist
  <2>2. f = [k \in T |-> IF k = 0 THEN st ELSE Demote(i, f[k-1])]
    BY <1>1, <2>1 DEF TurnsUpTo
  <2> QED BY <2>2
<1>3. ASSUME NEW f,
             f = [k \in T |-> IF k = 0 THEN st ELSE Demote(i, f[k-1])]
      PROVE  IsTurns(f, i, st)
  <2>1. DOMAIN f = T /\ f[0] = st
    BY <1>1, <1>3
  <2>2. \A k \in 1..n0 : f[k] = Demote(i, f[k-1])
    BY <1>1, <1>3
  <2> QED BY <2>1, <2>2 DEF IsTurns, T, n0
<1>4. CASE i = 1
  <2> DEFINE turn == CHOOSE f :
        f = [k \in Turns(st, 1) |-> IF k = 0 THEN st ELSE Demote1(f[k-1])]
  <2>1. \A f, k : Demote(i, f[k-1]) = Demote1(f[k-1])
    BY <1>4 DEF Demote
  <2>2. \E f : f = [k \in Turns(st, 1) |-> IF k = 0 THEN st ELSE Demote1(f[k-1])]
    BY <1>2, <1>4, <2>1 DEF T
  <2>3. turn = [k \in Turns(st, 1) |-> IF k = 0 THEN st ELSE Demote1(turn[k-1])]
    BY <2>2
  <2>4. AdmitTo(i, st, o) = AdmitAfter(turn, i, o)
    BY <1>4 DEF AdmitTo, AdmitTo1
  <2> HIDE DEF turn
  <2>5. IsTurns(turn, i, st)
    BY <1>3, <1>4, <2>1, <2>3 DEF T
  <2> QED BY <2>4, <2>5
<1>5. CASE i = 2
  <2> DEFINE turn == CHOOSE f :
        f = [k \in Turns(st, 2) |-> IF k = 0 THEN st ELSE Demote2(f[k-1])]
  <2>1. \A f, k : Demote(i, f[k-1]) = Demote2(f[k-1])
    BY <1>5 DEF Demote
  <2>2. \E f : f = [k \in Turns(st, 2) |-> IF k = 0 THEN st ELSE Demote2(f[k-1])]
    BY <1>2, <1>5, <2>1 DEF T
  <2>3. turn = [k \in Turns(st, 2) |-> IF k = 0 THEN st ELSE Demote2(turn[k-1])]
    BY <2>2
  <2>4. AdmitTo(i, st, o) = AdmitAfter(turn, i, o)
    BY <1>5 DEF AdmitTo, AdmitTo2
  <2> HIDE DEF turn
  <2>5. IsTurns(turn, i, st)
    BY <1>3, <1>5, <2>1, <2>3 DEF T
  <2> QED BY <2>4, <2>5
<1>6. CASE i = 3
  <2> DEFINE turn == CHOOSE f :
        f = [k \in Turns(st, 3) |-> IF k = 0 THEN st ELSE Demote3(f[k-1])]
  <2>1. \A f, k : Demote(i, f[k-1]) = Demote3(f[k-1])
    BY <1>6 DEF Demote
  <2>2. \E f : f = [k \in Turns(st, 3) |-> IF k = 0 THEN st ELSE Demote3(f[k-1])]
    BY <1>2, <1>6, <2>1 DEF T
  <2>3. turn = [k \in Turns(st, 3) |-> IF k = 0 THEN st ELSE Demote3(turn[k-1])]
    BY <2>2
  <2>4. AdmitTo(i, st, o) = AdmitAfter(turn, i, o)
    BY <1>6 DEF AdmitTo, AdmitTo3
  <2> HIDE DEF turn
  <2>5. IsTurns(turn, i, st)
    BY <1>3, <1>6, <2>1, <2>3 DEF T
  <2> QED BY <2>4, <2>5
<1> QED BY <1>4, <1>5, <1>6

\* One segment is replaced by another cache.
LEMMA WithSegment ==
  ASSUME NEW st \in State, NEW i \in 0..3, NEW c \in LRUCaches
  PROVE  /\ [st EXCEPT !.seg[i] = c] \in State
         /\ [st EXCEPT !.seg[i] = c].crashed = st.crashed
         /\ [st EXCEPT !.seg[i] = c].seg[i] = c
         /\ \A m \in 0..3 : m # i => [st EXCEPT !.seg[i] = c].seg[m] = st.seg[m]
BY DEF State

\* ... and the whole is arranged as the new cache fits in.
LEMMA ArrangedWith ==
  ASSUME NEW O, NEW z, NEW st, Arranged(O, z, st), NEW i \in 0..3,
         NEW c, Shifted(c, O[i], Upper(O, i), z[i]),
         \A m \in 0..3 : m # i => st.seg[m].map \cap c.map = {}
  PROVE  Arranged(O, z, [st EXCEPT !.seg[i] = c])
<1> DEFINE r == [st EXCEPT !.seg[i] = c]
<1>1. st \in State /\ c \in LRUCaches
  BY DEF Arranged, Shifted, CacheInv
<1>2. /\ r \in State /\ r.seg[i] = c
      /\ \A m \in 0..3 : m # i => r.seg[m] = st.seg[m]
  BY <1>1, WithSegment
<1> HIDE DEF r
<1>3. \A m \in 0..3 : Shifted(r.seg[m], O[m], Upper(O, m), z[m])
  <2> SUFFICES ASSUME NEW m \in 0..3
               PROVE  Shifted(r.seg[m], O[m], Upper(O, m), z[m])
    OBVIOUS
  <2> QED BY <1>2 DEF Arranged
<1>4. \A j, k \in 0..3 : j # k => r.seg[j].map \cap r.seg[k].map = {}
  <2> SUFFICES ASSUME NEW j \in 0..3, NEW k \in 0..3, j # k
               PROVE  r.seg[j].map \cap r.seg[k].map = {}
    OBVIOUS
  <2>1. st.seg[j].map \cap st.seg[k].map = {}
    BY DEF Arranged
  <2>2. CASE j = i
    BY <1>2, <2>2
  <2>3. CASE k = i
    BY <1>2, <2>3
  <2>4. CASE j # i /\ k # i
    BY <1>2, <2>1, <2>4
  <2> QED BY <2>2, <2>3, <2>4
<1>5. Arranged(O, z, r)
  BY <1>2, <1>3, <1>4 DEF Arranged
<1> QED BY <1>5 DEF r

\* What segment i can get from above fits it as a whole.
LEMMA AboveFits ==
  ASSUME NEW O, NEW z, Shares(O, z), NEW i \in 0..3
  PROVE  /\ Sized(Upper(O, i)) /\ SizeSum(Upper(O, i)) <= z[i]
         /\ O[i] \cap Upper(O, i) = {} /\ Upper(O, i) \subseteq Objects
         /\ z[i] \in Nat
<1>1. z[i] \in Nat
  BY DEF Shares
<1>2. CASE i < 3
  <2>1. /\ i \in 0..2 /\ i + 1 \in 0..3 /\ i # i + 1 /\ z[i+1] \in Nat
        /\ Upper(O, i) = O[i+1]
    BY <1>2 DEF Shares, Upper
  <2>2. Sized(O[i+1]) /\ SizeSum(O[i+1]) <= z[i+1] /\ z[i+1] <= z[i]
    BY <2>1 DEF Shares
  <2>3. SizeSum(O[i+1]) \in Nat
    BY <2>2, SizeSumNat
  <2>4. O[i] \cap O[i+1] = {} /\ O[i+1] \subseteq Objects
    BY <2>1 DEF Shares
  <2>5. SizeSum(O[i+1]) <= z[i]
    BY <1>1, <2>1, <2>2, <2>3
  <2> QED BY <1>1, <2>1, <2>2, <2>4, <2>5
<1>3. CASE ~(i < 3)
  <2>1. Upper(O, i) = {}
    BY <1>3 DEF Upper
  <2>2. Sized({}) /\ SizeSum({}) = 0
    BY FS_EmptySet, SizeSumNat DEF Sized
  <2> QED BY <1>1, <2>1, <2>2
<1> QED BY <1>2, <1>3

\* Each of it fits by itself.
LEMMA AboveFit ==
  ASSUME NEW O, NEW z, Shares(O, z), NEW i \in 0..3, NEW v \in Upper(O, i)
  PROVE  v \in Objects /\ v.size \in Nat /\ v.size <= z[i]
<1>1. /\ Sized(Upper(O, i)) /\ SizeSum(Upper(O, i)) <= z[i]
      /\ Upper(O, i) \subseteq Objects /\ z[i] \in Nat
  BY AboveFits
<1>2. /\ SizeSum(Upper(O, i)) = v.size + SizeSum(Upper(O, i) \ {v})
      /\ SizeSum(Upper(O, i) \ {v}) \in Nat
  BY <1>1, SizeSumRemove
<1>3. v \in Objects /\ v.size \in Nat
  BY <1>1 DEF Objects
<1> QED BY <1>1, <1>2, <1>3

\* segment_admit(i) puts what comes from above in its place.
Admits(O, z, i) ==
  \A s, v : Arranged(O, z, s) /\ ~s.crashed /\ v \in Upper(O, i) /\ ~Held(s, v) =>
    /\ Arranged(O, z, AdmitTo(i, s, v)) /\ ~AdmitTo(i, s, v).crashed
    /\ Received(O, i, s, v, AdmitTo(i, s, v))

\* A turn of its loop takes out one object that was in segment i.
Demotes(O, z, i) ==
  \A s : Arranged(O, z, s) /\ ~s.crashed /\ s.seg[i].list # <<>>
           /\ Last(s.seg[i].list) \in O[i] =>
    /\ Arranged(O, z, Demote(i, s)) /\ ~Demote(i, s).crashed
    /\ Lowered(O, i, s, Demote(i, s))
    /\ Len(Demote(i, s).seg[i].list) = Len(s.seg[i].list) - 1

\* Segment 0 has nothing below.
LEMMA AdmitsBottom ==
  ASSUME NEW O, NEW z, Shares(O, z)
  PROVE  Admits(O, z, 0)
<1> SUFFICES ASSUME NEW s, NEW v, Arranged(O, z, s), ~s.crashed,
                    v \in Upper(O, 0), ~Held(s, v)
             PROVE  /\ Arranged(O, z, AdmitTo(0, s, v)) /\ ~AdmitTo(0, s, v).crashed
                    /\ Received(O, 0, s, v, AdmitTo(0, s, v))
  BY DEF Admits
<1> DEFINE c == s.seg[0]
           e == Admit(c, v)
           r == AdmitTo(0, s, v)
<1>1. /\ Sized(Upper(O, 0)) /\ SizeSum(Upper(O, 0)) <= z[0]
      /\ O[0] \cap Upper(O, 0) = {} /\ v \in Objects /\ v.size <= z[0]
  BY AboveFits, AboveFit
<1>2. v \notin c.map /\ Shifted(c, O[0], Upper(O, 0), z[0]) /\ s \in State
  BY DEF Held, Arranged
<1>3. /\ Shifted(e, O[0], Upper(O, 0), z[0])
      /\ e.map \subseteq c.map \cup {v} /\ v \in e.map
      /\ c.map \subseteq e.map \cup O[0]
  BY <1>1, <1>2, AdmitShifted
<1>4. r = [s EXCEPT !.seg[0] = e]
  BY DEF AdmitTo, AdmitTo0
<1>5. e \in LRUCaches
  BY <1>3 DEF Shifted, CacheInv
<1> HIDE DEF e, r
<1>6. /\ r \in State /\ r.crashed = s.crashed /\ r.seg[0] = e
      /\ \A m \in 0..3 : m # 0 => r.seg[m] = s.seg[m]
  BY <1>2, <1>4, <1>5, WithSegment
<1>7. \A m \in 0..3 : m # 0 => s.seg[m].map \cap e.map = {}
  BY <1>3 DEF Held, Arranged
<1>8. Arranged(O, z, r)
  BY <1>3, <1>4, <1>7, ArrangedWith
<1>9. Received(O, 0, s, v, r)
  <2>1. \A m \in 0..3 : m > 0 => r.seg[m] = s.seg[m]
    BY <1>6
  <2>2. \A x : Held(r, x) => Held(s, x) \/ x = v
    <3> SUFFICES ASSUME NEW x, NEW m \in 0..3, x \in r.seg[m].map, x # v
                 PROVE  x \in s.seg[m].map
      BY DEF Held
    <3> QED BY <1>3, <1>6
  <2>3. Held(r, v)
    BY <1>3, <1>6 DEF Held
  <2>4. \A x : Held(s, x) => Held(r, x) \/ x \in O[0]
    <3> SUFFICES ASSUME NEW x, NEW m \in 0..3, x \in s.seg[m].map, x \notin O[0]
                 PROVE  x \in r.seg[m].map
      BY DEF Held
    <3> QED BY <1>3, <1>6
  <2> QED BY <2>1, <2>2, <2>3, <2>4 DEF Received
<1> QED BY <1>6, <1>8, <1>9 DEF r

\* A turn that finds an object gives it to the segment below; one that finds
\* none dereferences what is not there.
LEMMA DemoteIs ==
  ASSUME NEW i \in 1..3, NEW s
  PROVE  /\ s.seg[i].list # <<>> =>
              Demote(i, s) = AdmitTo(i - 1, WithoutVictim(s, i), Victim(s, i))
         /\ s.seg[i].list = <<>> => Demote(i, s) = [s EXCEPT !.crashed = TRUE]
<1>1. CASE i = 1
  BY <1>1 DEF Demote, Demote1, AdmitTo
<1>2. CASE i = 2
  BY <1>2 DEF Demote, Demote2, AdmitTo
<1>3. CASE i = 3
  BY <1>3 DEF Demote, Demote3, AdmitTo
<1> QED BY <1>1, <1>2, <1>3

LEMMA AdmitsDemotes ==
  ASSUME NEW O, NEW z, Shares(O, z), NEW i \in 1..3, Admits(O, z, i - 1)
  PROVE  Demotes(O, z, i)
<1> SUFFICES ASSUME NEW s, Arranged(O, z, s), ~s.crashed, s.seg[i].list # <<>>,
                    Last(s.seg[i].list) \in O[i]
             PROVE  /\ Arranged(O, z, Demote(i, s)) /\ ~Demote(i, s).crashed
                    /\ Lowered(O, i, s, Demote(i, s))
                    /\ Len(Demote(i, s).seg[i].list) = Len(s.seg[i].list) - 1
  BY DEF Demotes
<1> DEFINE c == s.seg[i]
           e == EvictReturn(c)
           v == Last(c.list)
           w == WithoutVictim(s, i)
           r == Demote(i, s)
<1>1. /\ s \in State /\ Shifted(c, O[i], Upper(O, i), z[i]) /\ CacheInv(c)
      /\ i \in 0..3 /\ i - 1 \in 0..3
  <2>1. i \in 0..3 /\ i - 1 \in 0..3
    OBVIOUS
  <2>2. s \in State /\ Shifted(c, O[i], Upper(O, i), z[i])
    BY <2>1 DEF Arranged
  <2>3. CacheInv(c)
    BY <2>2 DEF Shifted
  <2> QED BY <2>1, <2>2, <2>3
<1>2. /\ CacheInv(e) /\ e.map = c.map \ {v} /\ Len(e.list) = Len(c.list) - 1
      /\ v \in c.map
  BY <1>1, EvictReturnTakes, ListOf
<1>3. Shifted(e, O[i], Upper(O, i), z[i])
  BY <1>1, EvictReturnShifted
<1>4. w = [s EXCEPT !.seg[i] = e]
  BY DEF WithoutVictim
<1>5. r = AdmitTo(i - 1, w, v)
  BY DemoteIs DEF Victim
<1>6. v \in Upper(O, i - 1)
  BY DEF Upper
<1>7. e \in LRUCaches
  BY <1>2 DEF CacheInv
<1> HIDE DEF e, w, r
<1>8. /\ w \in State /\ w.crashed = s.crashed /\ w.seg[i] = e
      /\ \A m \in 0..3 : m # i => w.seg[m] = s.seg[m]
  BY <1>1, <1>4, <1>7, WithSegment
<1>9. Arranged(O, z, w)
  <2>1. \A m \in 0..3 : m # i => s.seg[m].map \cap e.map = {}
    BY <1>1, <1>2 DEF Arranged
  <2> QED BY <1>1, <1>3, <1>4, <2>1, ArrangedWith
<1>10. \A m \in 0..3 : v \notin w.seg[m].map
  <2> SUFFICES ASSUME NEW m \in 0..3 PROVE v \notin w.seg[m].map
    OBVIOUS
  <2>1. CASE m = i
    BY <1>2, <1>8, <2>1
  <2>2. CASE m # i
    BY <1>1, <1>2, <1>8, <2>2 DEF Arranged
  <2> QED BY <2>1, <2>2
<1>11. /\ Arranged(O, z, r) /\ ~r.crashed /\ Received(O, i - 1, w, v, r)
  BY <1>5, <1>6, <1>8, <1>9, <1>10 DEF Admits, Held
<1>12. r.seg[i] = e /\ \A m \in 0..3 : m > i => r.seg[m] = s.seg[m]
  BY <1>8, <1>11 DEF Received
<1>13. \A x : Held(w, x) => Held(s, x)
  <2> SUFFICES ASSUME NEW x, NEW m \in 0..3, x \in w.seg[m].map
               PROVE  x \in s.seg[m].map
    BY DEF Held
  <2> QED BY <1>2, <1>8
<1>14. \A x : Held(s, x) => Held(w, x) \/ x = v
  <2> SUFFICES ASSUME NEW x, NEW m \in 0..3, x \in s.seg[m].map, x # v
               PROVE  x \in w.seg[m].map
    BY DEF Held
  <2> QED BY <1>2, <1>8
<1>15. Held(s, v)
  BY <1>1, <1>2 DEF Held
<1>16. Lowered(O, i, s, r)
  <2>1. r.seg[i].map \subseteq s.seg[i].map
    BY <1>2, <1>12
  <2>2. \A x : Held(r, x) => Held(s, x)
    BY <1>11, <1>13, <1>15 DEF Received
  <2>3. \A x : Held(s, x) => Held(r, x) \/ x \in O[0]
    BY <1>11, <1>14 DEF Received
  <2> QED BY <1>12, <2>1, <2>2, <2>3 DEF Lowered
<1> QED BY <1>2, <1>11, <1>12, <1>16 DEF r

LEMMA LoweredTwice ==
  ASSUME NEW O, NEW i \in 0..3, NEW s, NEW t, NEW r,
         Lowered(O, i, s, t), Lowered(O, i, t, r)
  PROVE  Lowered(O, i, s, r)
<1>1. \A m \in 0..3 : m > i => r.seg[m] = s.seg[m]
  BY DEF Lowered
<1>2. r.seg[i].map \subseteq s.seg[i].map
  BY DEF Lowered
<1>3. \A x : Held(r, x) => Held(s, x)
  BY DEF Lowered
<1>4. \A x : Held(s, x) => Held(r, x) \/ x \in O[0]
  BY DEF Lowered
<1> QED BY <1>1, <1>2, <1>3, <1>4 DEF Lowered

\* The loop of segment_admit(i) ends with room for v, or, if v is larger than
\* the segment, by crashing when it has moved everything down.
EndsIn(O, z, i, s, v, end) ==
  /\ Arranged(O, z, end) /\ ~end.crashed /\ Lowered(O, i, s, end)
  /\ \/ /\ end.seg[i].current + v.size <= z[i]
        /\ AdmitTo(i, s, v) = [end EXCEPT !.seg[i] = Admit(@, v)]
     \/ /\ v.size > z[i]
        /\ AdmitTo(i, s, v) = [end EXCEPT !.crashed = TRUE]

LEMMA LoopEnds ==
  ASSUME NEW O, NEW z, Shares(O, z), NEW i \in 1..3, Demotes(O, z, i),
         NEW s, Arranged(O, z, s), ~s.crashed, NEW v \in Objects, ~Held(s, v),
         v \in Upper(O, i) \/ s.seg[i].map \subseteq O[i]
  PROVE  \E end : EndsIn(O, z, i, s, v, end)
<1> DEFINE n == Len(s.seg[i].list)
<1>1. n \in Nat /\ i \in 0..3 /\ z[i] \in Nat /\ v.size \in Nat
  <2>1. i \in 0..3
    OBVIOUS
  <2>2. CacheInv(s.seg[i])
    BY <2>1 DEF Arranged, Shifted
  <2> QED BY <2>1, <2>2, ListOf, AboveFits DEF Objects
<1>2. PICK turn : IsTurns(turn, i, s) /\ AdmitTo(i, s, v) = AdmitAfter(turn, i, v)
  BY <1>1, TurnsTaken
<1>3. /\ DOMAIN turn = 0..(n+1) /\ turn[0] = s
      /\ \A k \in 1..(n+1) : turn[k] = Demote(i, turn[k-1])
  BY <1>2 DEF IsTurns, Turns
<1> DEFINE Stops(k) == \/ turn[k].crashed
                       \/ turn[k].seg[i].current + v.size <= turn[k].seg[i].size
           Good(k) == /\ Arranged(O, z, turn[k]) /\ ~turn[k].crashed
                      /\ Lowered(O, i, s, turn[k])
                      /\ Len(turn[k].seg[i].list) = n - k
           P == {k \in 0..n : (\A j \in 0..(k-1) : ~Stops(j)) => Good(k)}
<1> HIDE DEF n
<1>4. ASSUME NEW k \in 0..n, Good(k)
      PROVE  /\ CacheInv(turn[k].seg[i]) /\ turn[k].seg[i].size = z[i]
             /\ Shifted(turn[k].seg[i], O[i], Upper(O, i), z[i])
             /\ turn[k].seg[i].current \in Nat
             /\ turn[k].seg[i].list = <<>> <=> k = n
             /\ k = n => turn[k].seg[i].current = 0
  <2> DEFINE c == turn[k].seg[i]
  <2>1. Shifted(c, O[i], Upper(O, i), z[i]) /\ CacheInv(c) /\ c.size = z[i]
    BY <1>1, <1>4 DEF Arranged, Shifted
  <2>2. /\ c.list \in Seq(Objects) /\ Len(c.list) = n - k
        /\ c.current \in Nat /\ c.current = Bytes(c.list)
    BY <1>4, <2>1, ListOf, CurrentSum DEF CacheInv, SizeExact
  <2> HIDE DEF c
  <2>3. c.list = <<>> <=> k = n
    BY <1>1, <2>2, EmptySeq
  <2>4. k = n => c.current = 0
    BY <2>2, <2>3, BytesNat
  <2> QED BY <2>1, <2>2, <2>3, <2>4 DEF c
<1>5. Good(0)
  <2>1. Lowered(O, i, s, s)
    BY DEF Lowered
  <2> QED BY <1>1, <1>3, <2>1 DEF n
<1>6. ASSUME NEW k \in 1..n, Good(k-1), ~Stops(k-1) PROVE Good(k)
  <2> DEFINE t == turn[k-1]
             c == t.seg[i]
  <2>1. k - 1 \in 0..n /\ k - 1 # n /\ k \in 1..(n+1)
    BY <1>1
  <2>2. /\ CacheInv(c) /\ c.size = z[i] /\ c.list # <<>>
        /\ Shifted(c, O[i], Upper(O, i), z[i]) /\ c.current \in Nat
    BY <1>4, <1>6, <2>1
  <2>3. c.current + v.size > z[i]
    BY <1>1, <1>6, <2>2
  <2>4. Lowered(O, i, s, t) /\ Arranged(O, z, t) /\ ~t.crashed /\ Len(c.list) = n - (k-1)
    BY <1>6
  <2>5. v \notin c.map
    BY <1>1, <2>4 DEF Lowered, Held
  <2>6. \/ v \in Upper(O, i) /\ Sized(Upper(O, i)) /\ SizeSum(Upper(O, i)) <= z[i]
        \/ c.map \subseteq O[i]
    BY <1>1, <2>4, AboveFits DEF Lowered
  <2> HIDE DEF c
  <2>7. Last(c.list) \in O[i]
    BY <2>2, <2>3, <2>5, <2>6, LastIsOwn
  <2>8. turn[k] = Demote(i, t)
    BY <1>3, <2>1
  <2> HIDE DEF t
  <2>9. /\ Arranged(O, z, turn[k]) /\ ~turn[k].crashed /\ Lowered(O, i, t, turn[k])
        /\ Len(turn[k].seg[i].list) = Len(c.list) - 1
    BY <2>2, <2>4, <2>7, <2>8 DEF Demotes, c
  <2>10. Lowered(O, i, s, turn[k])
    BY <1>1, <2>4, <2>9, LoweredTwice
  <2> QED BY <1>1, <2>4, <2>9, <2>10
<1> HIDE DEF Good, Stops
<1>7. P = 0..n
  <2>1. P \in SUBSET (0..n) /\ 0 \in P
    BY <1>1, <1>5
  <2>2. ASSUME NEW k \in 1..n, k - 1 \in P PROVE k \in P
    <3> SUFFICES ASSUME \A j \in 0..(k-1) : ~Stops(j) PROVE Good(k)
      BY <1>1
    <3>1. ~Stops(k-1) /\ \A j \in 0..((k-1)-1) : ~Stops(j)
      BY <1>1
    <3> QED BY <1>6, <2>2, <3>1
  <2> HIDE DEF P
  <2> QED BY <1>1, <2>1, <2>2, UptoInduction
<1>8. ASSUME \A j \in 0..n : ~Stops(j)
      PROVE  /\ Good(n) /\ v.size > z[i]
             /\ turn[n+1] = [turn[n] EXCEPT !.crashed = TRUE] /\ turn[n+1].crashed
  <2>1. n \in 0..n /\ n + 1 \in 1..(n+1) /\ (n + 1) - 1 = n
    BY <1>1
  <2>2. Good(n)
    <3>1. \A j \in 0..(n-1) : ~Stops(j)
      BY <1>1, <1>8
    <3> QED BY <1>7, <2>1, <3>1
  <2>3. turn[n].seg[i].list = <<>> /\ turn[n].seg[i].current = 0
        /\ turn[n].seg[i].size = z[i]
    BY <1>4, <2>1, <2>2
  <2>4. turn[n+1] = [turn[n] EXCEPT !.crashed = TRUE]
    <3>1. turn[n+1] = Demote(i, turn[n])
      BY <1>3, <2>1
    <3>2. Demote(i, turn[n]) = [turn[n] EXCEPT !.crashed = TRUE]
      BY <2>3, DemoteIs
    <3> QED BY <3>1, <3>2
  <2>5. turn[n] \in State
    BY <2>2 DEF Good, Arranged
  <2>6. turn[n+1].crashed
    BY <2>4, <2>5 DEF State
  <2>7. v.size > z[i]
    BY <1>1, <1>8, <2>1, <2>3 DEF Stops
  <2> QED BY <2>2, <2>4, <2>6, <2>7
<1> DEFINE K == CHOOSE k \in 0..(n+1) : Stops(k) /\ \A j \in 0..(k-1) : ~Stops(j)
<1>9. K \in 0..(n+1) /\ Stops(K) /\ \A j \in 0..(K-1) : ~Stops(j)
  <2> DEFINE T == {k \in 0..(n+1) : Stops(k)}
  <2>1. T # {} /\ T \in SUBSET Nat
    <3>1. Stops(n+1) \/ \E j \in 0..n : Stops(j)
      BY <1>8 DEF Stops
    <3> QED BY <1>1, <3>1
  <2>2. PICK k \in T : \A j \in T : k <= j
    <3> HIDE DEF T
    <3> QED BY <2>1, LeastNat
  <2>3. k \in 0..(n+1) /\ Stops(k)
    BY <2>2
  <2>4. \A j \in 0..(k-1) : ~Stops(j)
    <3> SUFFICES ASSUME NEW j \in 0..(k-1), Stops(j) PROVE FALSE
      OBVIOUS
    <3>1. j \in 0..(n+1) /\ ~(k <= j)
      BY <1>1, <2>3
    <3> QED BY <2>2, <3>1
  <2> QED BY <2>3, <2>4
<1>10. AdmitTo(i, s, v) = IF turn[K].crashed THEN turn[K]
                          ELSE [turn[K] EXCEPT !.seg[i] = Admit(@, v)]
  BY <1>2, <1>3 DEF AdmitAfter, Stops
<1> HIDE DEF K
<1>11. CASE K \in 0..n
  <2>1. Good(K)
    BY <1>7, <1>9, <1>11
  <2>2. turn[K].seg[i].size = z[i] /\ ~turn[K].crashed
    BY <1>4, <1>11, <2>1 DEF Good
  <2>3. turn[K].seg[i].current + v.size <= z[i]
    BY <1>9, <2>2 DEF Stops
  <2>4. EndsIn(O, z, i, s, v, turn[K])
    BY <1>10, <2>1, <2>2, <2>3 DEF EndsIn, Good
  <2> QED BY <2>4
<1>12. CASE K \notin 0..n
  <2>1. K = n + 1 /\ \A j \in 0..n : ~Stops(j)
    BY <1>1, <1>9, <1>12
  <2>2. EndsIn(O, z, i, s, v, turn[n])
    BY <1>8, <1>10, <2>1 DEF EndsIn, Good
  <2> QED BY <2>2
<1> QED BY <1>11, <1>12

LEMMA DemotesAdmits ==
  ASSUME NEW O, NEW z, Shares(O, z), NEW i \in 1..3, Demotes(O, z, i)
  PROVE  Admits(O, z, i)
<1> SUFFICES ASSUME NEW s, NEW v, Arranged(O, z, s), ~s.crashed,
                    v \in Upper(O, i), ~Held(s, v)
             PROVE  /\ Arranged(O, z, AdmitTo(i, s, v)) /\ ~AdmitTo(i, s, v).crashed
                    /\ Received(O, i, s, v, AdmitTo(i, s, v))
  BY DEF Admits
<1>1. i \in 0..3
  OBVIOUS
<1>2. /\ v \in Objects /\ v.size \in Nat /\ v.size <= z[i] /\ z[i] \in Nat
      /\ v \notin O[i]
  BY <1>1, AboveFit, AboveFits
<1>3. PICK t : EndsIn(O, z, i, s, v, t)
  BY <1>2, LoopEnds
<1> DEFINE d == t.seg[i]
           e == PushFront(d, v)
           r == AdmitTo(i, s, v)
<1>4. /\ Arranged(O, z, t) /\ ~t.crashed /\ Lowered(O, i, s, t)
      /\ d.current + v.size <= z[i] /\ r = [t EXCEPT !.seg[i] = Admit(d, v)]
  BY <1>2, <1>3 DEF EndsIn
<1>5. t \in State /\ Shifted(d, O[i], Upper(O, i), z[i])
  BY <1>1, <1>4 DEF Arranged
<1>6. CacheInv(d) /\ d.size = z[i]
  BY <1>5 DEF Shifted
<1>7. ~Held(t, v) /\ v \notin d.map
  BY <1>1, <1>4 DEF Lowered, Held
<1>8. r = [t EXCEPT !.seg[i] = e]
  BY <1>2, <1>4, <1>6, AdmitFits
<1>9. CacheInv(e) /\ e.map = d.map \cup {v}
  BY <1>2, <1>4, <1>6, <1>7, PushInv
<1>10. Shifted(e, O[i], Upper(O, i), z[i])
  <2>1. Len(d.list) \in Nat
    BY <1>6, ListOf
  <2> HIDE DEF d
  <2>2. Len(d.list) <= Len(d.list)
    BY <2>1
  <2> QED BY <1>2, <1>4, <1>5, <1>6, <1>7, <2>2, PushShifted
<1> HIDE DEF e, r
<1>11. e \in LRUCaches
  BY <1>9 DEF CacheInv
<1>12. /\ r.crashed = t.crashed /\ r.seg[i] = e
       /\ \A m \in 0..3 : m # i => r.seg[m] = t.seg[m]
  BY <1>1, <1>5, <1>8, <1>11, WithSegment
<1>13. Arranged(O, z, r)
  <2>1. \A m \in 0..3 : m # i => t.seg[m].map \cap e.map = {}
    BY <1>1, <1>4, <1>7, <1>9 DEF Arranged, Held
  <2> QED BY <1>1, <1>4, <1>8, <1>10, <2>1, ArrangedWith
<1>14. Received(O, i, s, v, r)
  <2>1. \A m \in 0..3 : m > i => r.seg[m] = s.seg[m]
    BY <1>4, <1>12 DEF Lowered
  <2>2. \A x : Held(r, x) => Held(t, x) \/ x = v
    BY <1>9, <1>12 DEF Held
  <2>3. Held(r, v)
    BY <1>1, <1>9, <1>12 DEF Held
  <2>4. \A x : Held(t, x) => Held(r, x)
    <3> SUFFICES ASSUME NEW x, NEW m \in 0..3, x \in t.seg[m].map
                 PROVE  x \in r.seg[m].map
      BY DEF Held
    <3> QED BY <1>9, <1>12
  <2>5. \A x : Held(r, x) => Held(s, x) \/ x = v
    BY <1>4, <2>2 DEF Lowered
  <2>6. \A x : Held(s, x) => Held(r, x) \/ x \in O[0]
    BY <1>4, <2>4 DEF Lowered
  <2> QED BY <2>1, <2>3, <2>5, <2>6 DEF Received
<1> QED BY <1>4, <1>12, <1>13, <1>14 DEF r

\* So every level works, from the bottom up.
LEMMA AllDemote ==
  ASSUME NEW O, NEW z, Shares(O, z)
  PROVE  \A i \in 1..3 : Demotes(O, z, i)
<1>1. Admits(O, z, 0)
  BY AdmitsBottom
<1>2. Demotes(O, z, 1) /\ Admits(O, z, 1)
  <2>1. 1 \in 1..3 /\ 1 - 1 = 0
    OBVIOUS
  <2>2. Demotes(O, z, 1)
    BY <1>1, <2>1, AdmitsDemotes
  <2> QED BY <2>1, <2>2, DemotesAdmits
<1>3. Demotes(O, z, 2) /\ Admits(O, z, 2)
  <2>1. 2 \in 1..3 /\ 2 - 1 = 1
    OBVIOUS
  <2>2. Demotes(O, z, 2)
    BY <1>2, <2>1, AdmitsDemotes
  <2> QED BY <2>1, <2>2, DemotesAdmits
<1>4. Demotes(O, z, 3)
  <2>1. 3 \in 1..3 /\ 3 - 1 = 2
    OBVIOUS
  <2> QED BY <1>3, <2>1, AdmitsDemotes
<1> QED BY <1>2, <1>3, <1>4

(***************************************************************************)
(* A hit.                                                                  *)
(***************************************************************************)

\* The capacities setSize() gives.
Quarters(z) ==
  /\ z \in [0..3 -> Nat] /\ z[1] = z[2] /\ z[2] = z[3] /\ z[1] <= z[0]

\* What holds of the segments between requests.
SegmentsInv(seg, z) ==
  /\ seg \in [0..3 -> LRUCaches]
  /\ \A i \in 0..3 : CacheInv(seg[i]) /\ seg[i].size = z[i]
  /\ \A i, j \in 0..3 : i # j => seg[i].map \cap seg[j].map = {}

Kept(seg) == [i \in 0..3 |-> seg[i].map]

\* Where a hit finds the segments, nothing has moved down yet.
LEMMA NothingMoved ==
  ASSUME NEW z, Quarters(z), NEW st \in State, SegmentsInv(st.seg, z)
  PROVE  Shares(Kept(st.seg), z) /\ Arranged(Kept(st.seg), z, st)
<1> DEFINE O == Kept(st.seg)
<1>1. \A i \in 0..3 : O[i] = st.seg[i].map
  BY DEF Kept
<1>2. ASSUME NEW i \in 0..3
      PROVE  /\ Sized(O[i]) /\ SizeSum(O[i]) <= z[i] /\ O[i] \subseteq Objects
             /\ Shifted(st.seg[i], O[i], Upper(O, i), z[i])
  <2>1. CacheInv(st.seg[i]) /\ st.seg[i].size = z[i]
    BY DEF SegmentsInv
  <2>2. /\ Sized(st.seg[i].map) /\ SizeSum(st.seg[i].map) <= z[i]
        /\ st.seg[i].map \subseteq Objects
    BY <2>1, CurrentSum
  <2>3. \A b \in 1..Len(st.seg[i].list) : st.seg[i].list[b] \in st.seg[i].map
    BY <2>1, ListOf
  <2> HIDE DEF O
  <2>4. Shifted(st.seg[i], O[i], Upper(O, i), z[i])
    BY <1>1, <2>1, <2>3 DEF Shifted
  <2> QED BY <1>1, <2>2, <2>4
<1>3. O \in [0..3 -> SUBSET Objects]
  BY <1>2 DEF Kept
<1>4. \A i, j \in 0..3 : i # j => O[i] \cap O[j] = {}
  BY <1>1 DEF SegmentsInv
<1>5. \A i \in 0..2 : z[i+1] <= z[i]
  <2> SUFFICES ASSUME NEW i \in 0..2 PROVE z[i+1] <= z[i]
    OBVIOUS
  <2>1. i = 0 \/ i = 1 \/ i = 2
    OBVIOUS
  <2>2. z[1] \in Nat /\ z[2] \in Nat /\ z[3] \in Nat
    BY DEF Quarters
  <2> QED BY <2>1, <2>2 DEF Quarters
<1>6. z \in [0..3 -> Nat]
  BY DEF Quarters
<1> HIDE DEF O
<1>7. Shares(O, z)
  BY <1>2, <1>3, <1>4, <1>5, <1>6 DEF Shares
<1>8. Arranged(O, z, st)
  BY <1>2 DEF Arranged, SegmentsInv
<1> QED BY <1>7, <1>8 DEF O

\* st with another cache as segment i, with o on top of it, without o in it.
With(st, i, c)    == [st EXCEPT !.seg[i] = c]
PutOn(st, i, o)   == With(st, i, Admit(st.seg[i], o))
Removed(st, i, o) == With(st, i, Evict(st.seg[i], o))

\* One segment is replaced between requests.
LEMMA SegmentsWith ==
  ASSUME NEW z, NEW st \in State, SegmentsInv(st.seg, z), NEW i \in 0..3,
         NEW c, CacheInv(c), c.size = z[i],
         \A m \in 0..3 : m # i => st.seg[m].map \cap c.map = {}
  PROVE  /\ With(st, i, c) \in State /\ SegmentsInv(With(st, i, c).seg, z)
         /\ With(st, i, c).crashed = st.crashed
         /\ With(st, i, c).seg[i] = c
         /\ \A m \in 0..3 : m # i => With(st, i, c).seg[m] = st.seg[m]
<1> DEFINE r == With(st, i, c)
<1>1. c \in LRUCaches
  BY DEF CacheInv
<1>2. /\ r \in State /\ r.seg[i] = c /\ r.crashed = st.crashed
      /\ \A m \in 0..3 : m # i => r.seg[m] = st.seg[m]
  BY <1>1, WithSegment DEF With
<1> HIDE DEF r
<1>3. r.seg \in [0..3 -> LRUCaches]
  BY <1>2 DEF State
<1>4. \A m \in 0..3 : CacheInv(r.seg[m]) /\ r.seg[m].size = z[m]
  BY <1>2 DEF SegmentsInv
<1>5. \A j, k \in 0..3 : j # k => r.seg[j].map \cap r.seg[k].map = {}
  <2> SUFFICES ASSUME NEW j \in 0..3, NEW k \in 0..3, j # k
               PROVE  r.seg[j].map \cap r.seg[k].map = {}
    OBVIOUS
  <2>1. st.seg[j].map \cap st.seg[k].map = {}
    BY DEF SegmentsInv
  <2>2. CASE j = i
    BY <1>2, <2>2
  <2>3. CASE k = i
    BY <1>2, <2>3
  <2>4. CASE j # i /\ k # i
    BY <1>2, <2>1, <2>4
  <2> QED BY <2>2, <2>3, <2>4
<1>6. SegmentsInv(r.seg, z)
  BY <1>3, <1>4, <1>5 DEF SegmentsInv
<1> QED BY <1>2, <1>6 DEF r

OnTopOf(c, o) == c.list # <<>> /\ Head(c.list) = o

\* An object is put on top of a segment that has room for it.
LEMMA PutIn ==
  ASSUME NEW z, NEW st \in State, SegmentsInv(st.seg, z), NEW i \in 0..3,
         NEW o \in Objects, ~Held(st, o), st.seg[i].current + o.size <= z[i],
         NEW r, r = PutOn(st, i, o)
  PROVE  /\ r \in State /\ SegmentsInv(r.seg, z) /\ r.crashed = st.crashed
         /\ OnTopOf(r.seg[i], o)
         /\ \A m \in 0..3 : m # i => r.seg[m] = st.seg[m]
         /\ \A x : Held(r, x) <=> Held(st, x) \/ x = o
<1> DEFINE d == st.seg[i]
           e == PushFront(d, o)
<1>1. CacheInv(d) /\ d.size = z[i] /\ o \notin d.map
  BY DEF SegmentsInv, Held
<1>2. /\ CacheInv(e) /\ e.size = z[i] /\ e.map = d.map \cup {o}
      /\ e.list = <<o>> \o d.list /\ d.list \in Seq(Objects)
  BY <1>1, PushInv, ListOf
<1>3. r = With(st, i, e)
  BY <1>1, AdmitFits DEF PutOn
<1> HIDE DEF e
<1>4. \A m \in 0..3 : m # i => st.seg[m].map \cap e.map = {}
  BY <1>2 DEF SegmentsInv, Held
<1>5. /\ r \in State /\ SegmentsInv(r.seg, z) /\ r.crashed = st.crashed
      /\ r.seg[i] = e /\ \A m \in 0..3 : m # i => r.seg[m] = st.seg[m]
  BY <1>2, <1>3, <1>4, SegmentsWith
<1>6. OnTopOf(e, o)
  BY <1>2 DEF OnTopOf
<1>7. \A x : Held(r, x) => Held(st, x) \/ x = o
  BY <1>2, <1>5 DEF Held
<1>8. ASSUME NEW x, Held(st, x) PROVE Held(r, x)
  BY <1>2, <1>5, <1>8 DEF Held
<1>9. Held(r, o)
  BY <1>2, <1>5 DEF Held
<1> QED BY <1>5, <1>6, <1>7, <1>8, <1>9

\* An object is taken out of its segment, which leaves room for it.
LEMMA TakenOut ==
  ASSUME NEW z, NEW st \in State, SegmentsInv(st.seg, z), NEW i \in 0..3,
         NEW o \in st.seg[i].map, NEW c, CacheInv(c), c.size = z[i],
         c.map = st.seg[i].map \ {o}, NEW r, r = With(st, i, c)
  PROVE  /\ r \in State /\ SegmentsInv(r.seg, z) /\ r.crashed = st.crashed
         /\ r.seg[i] = c /\ \A m \in 0..3 : m # i => r.seg[m] = st.seg[m]
         /\ \A x : Held(r, x) <=> Held(st, x) /\ x # o
         /\ o \in Objects /\ c.current + o.size = st.seg[i].current
         /\ c.current + o.size <= z[i]
<1> DEFINE d == st.seg[i]
<1>1. CacheInv(d) /\ d.size = z[i]
  BY DEF SegmentsInv
<1>2. \A m \in 0..3 : m # i => st.seg[m].map \cap d.map = {}
  BY DEF SegmentsInv
<1>3. \A m \in 0..3 : m # i => st.seg[m].map \cap c.map = {}
  BY <1>2
<1>4. /\ r \in State /\ SegmentsInv(r.seg, z) /\ r.crashed = st.crashed
      /\ r.seg[i] = c /\ \A m \in 0..3 : m # i => r.seg[m] = st.seg[m]
  BY <1>1, <1>3, SegmentsWith
<1>5. ASSUME NEW x, Held(r, x) PROVE Held(st, x) /\ x # o
  BY <1>2, <1>4, <1>5 DEF Held
<1>6. ASSUME NEW x, Held(st, x), x # o PROVE Held(r, x)
  BY <1>4, <1>6 DEF Held
<1>7. /\ Sized(d.map) /\ d.current = SizeSum(d.map) /\ d.current <= d.size
      /\ d.map \subseteq Objects /\ c.current = SizeSum(c.map)
  BY <1>1, CurrentSum
<1>8. SizeSum(d.map) = o.size + SizeSum(c.map) /\ SizeSum(c.map) \in Nat
  BY <1>7, SizeSumRemove
<1>9. o \in Objects /\ o.size \in Nat
  BY <1>7 DEF Objects
<1>10. c.current + o.size = d.current /\ d.current <= z[i]
  BY <1>1, <1>7, <1>8, <1>9
<1> QED BY <1>4, <1>5, <1>6, <1>9, <1>10

\* w is st when o has been taken out of segment i.
LeftBy(z, st, i, o, w) ==
  /\ w \in State /\ SegmentsInv(w.seg, z) /\ w.crashed = st.crashed
  /\ \A m \in 0..3 : m # i => w.seg[m] = st.seg[m]
  /\ w.seg[i].map = st.seg[i].map \ {o}
  /\ \A x : Held(w, x) <=> Held(st, x) /\ x # o
  /\ o \in Objects /\ w.seg[i].current + o.size <= z[i]

\* lookup() moves an object up by taking it out and admitting it above.
LEMMA MoveUpIs ==
  ASSUME NEW z, NEW st \in State, SegmentsInv(st.seg, z), NEW i \in 0..2,
         NEW o \in st.seg[i].map
  PROVE  /\ LeftBy(z, st, i, o, Removed(st, i, o))
         /\ MoveUp(st, i, o) = AdmitTo(i + 1, Removed(st, i, o), o)
<1> DEFINE c == Evict(st.seg[i], o)
           w == Removed(st, i, o)
<1>1. i \in 0..3 /\ (i = 0 \/ i = 1 \/ i = 2)
  OBVIOUS
<1>2. CacheInv(c) /\ c.map = st.seg[i].map \ {o} /\ c.size = z[i]
  BY <1>1, EvictInv DEF SegmentsInv
<1>3. MoveUp(st, i, o) = AdmitTo(i + 1, w, o)
  <2>1. CASE i = 0
    BY <2>1 DEF MoveUp, AdmitTo, Removed, With
  <2>2. CASE i = 1
    BY <2>2 DEF MoveUp, AdmitTo, Removed, With
  <2>3. CASE i = 2
    BY <2>3 DEF MoveUp, AdmitTo, Removed, With
  <2> QED BY <1>1, <2>1, <2>2, <2>3
<1>4. w = With(st, i, c)
  BY DEF Removed
<1> HIDE DEF c, w
<1>5. /\ w \in State /\ SegmentsInv(w.seg, z) /\ w.crashed = st.crashed
      /\ w.seg[i] = c /\ \A m \in 0..3 : m # i => w.seg[m] = st.seg[m]
      /\ \A x : Held(w, x) <=> Held(st, x) /\ x # o
      /\ o \in Objects /\ c.current + o.size <= z[i]
  BY <1>1, <1>2, <1>4, TakenOut
<1>6. LeftBy(z, st, i, o, w)
  BY <1>2, <1>5 DEF LeftBy
<1> QED BY <1>3, <1>6 DEF w

\* A hit moves the object to the top of the segment above, if it fits there:
\* an object that does not is in segment 0, whose share may be larger.  What
\* is lost was in segment 0.
LEMMA MoveUpInv ==
  ASSUME NEW z, Quarters(z), NEW st \in State, ~st.crashed,
         SegmentsInv(st.seg, z), NEW i \in 0..2, NEW o \in st.seg[i].map,
         NEW r, r = MoveUp(st, i, o)
  PROVE  /\ r \in State /\ SegmentsInv(r.seg, z)
         /\ r.crashed => o.size > z[1]
         /\ ~r.crashed => OnTopOf(r.seg[i+1], o)
         /\ \A x : Held(st, x) => Held(r, x) \/ x \in st.seg[0].map
         /\ \A x : Held(r, x) => Held(st, x)
<1> DEFINE t == i + 1
<1>1. /\ i \in 0..3 /\ t \in 1..3 /\ t \in 0..3 /\ i # t /\ z[t] = z[1]
      /\ i # 0 => z[i] = z[1]
  <2>1. (i = 0 \/ i = 1 \/ i = 2) /\ i \in 0..3 /\ t \in 1..3 /\ t \in 0..3 /\ i # t
    OBVIOUS
  <2> QED BY <2>1 DEF Quarters
<1>2. CacheInv(st.seg[i]) /\ st.seg[i].size = z[i]
  BY <1>1 DEF SegmentsInv
<1> DEFINE w == Removed(st, i, o)
<1>3. LeftBy(z, st, i, o, w) /\ MoveUp(st, i, o) = AdmitTo(t, w, o)
  BY MoveUpIs
<1> HIDE DEF w
<1> DEFINE O == Kept(w.seg)
<1>4. o \in Objects /\ o.size \in Nat
  BY <1>3 DEF Objects, LeftBy
<1>7. w \in State /\ SegmentsInv(w.seg, z) /\ ~w.crashed
  BY <1>3 DEF LeftBy
<1>8. r = AdmitTo(t, w, o)
  BY <1>3
<1>9. ~Held(w, o)
  BY <1>3 DEF LeftBy
<1>10. Shares(O, z) /\ Arranged(O, z, w)
  BY <1>7, NothingMoved
<1>11. w.seg[t].map \subseteq O[t] /\ O[0] = w.seg[0].map
  BY <1>1 DEF Kept
<1> HIDE DEF O, t
<1>12. PICK end : EndsIn(O, z, t, w, o, end)
  <2>1. Demotes(O, z, t)
    BY <1>1, <1>10, AllDemote
  <2> QED BY <1>1, <1>4, <1>7, <1>9, <1>10, <1>11, <2>1, LoopEnds
<1>13. /\ Arranged(O, z, end) /\ ~end.crashed /\ Lowered(O, t, w, end)
  BY <1>12 DEF EndsIn
<1>14. end \in State /\ SegmentsInv(end.seg, z)
  BY <1>13 DEF Arranged, Shifted, SegmentsInv, State
<1>15. ~Held(end, o)
  BY <1>9, <1>13 DEF Lowered
<1>16. \A x : Held(st, x) => Held(w, x) \/ x = o
  BY <1>3 DEF LeftBy
<1>17. \A x : x \in O[0] => x \in st.seg[0].map
  <2>1. CASE i = 0
    BY <1>3, <1>11, <2>1 DEF LeftBy
  <2>2. CASE i # 0
    BY <1>3, <1>11, <2>2 DEF LeftBy
  <2> QED BY <2>1, <2>2
<1>18. \A x : Held(st, x) => Held(end, x) \/ x \in st.seg[0].map \/ x = o
  BY <1>13, <1>16, <1>17 DEF Lowered
<1>19. \A x : Held(end, x) \/ x = o => Held(st, x)
  <2>1. Held(st, o)
    BY <1>1 DEF Held
  <2>2. \A x : Held(w, x) => Held(st, x)
    BY <1>3 DEF LeftBy
  <2> QED BY <1>13, <2>1, <2>2 DEF Lowered
<1>20. CASE /\ end.seg[t].current + o.size <= z[t]
            /\ r = [end EXCEPT !.seg[t] = Admit(@, o)]
  <2>1. /\ r \in State /\ SegmentsInv(r.seg, z) /\ r.crashed = end.crashed
        /\ OnTopOf(r.seg[t], o)
        /\ \A x : Held(r, x) <=> Held(end, x) \/ x = o
    <3>1. r = PutOn(end, t, o) /\ end.seg[t].current + o.size <= z[t]
      BY <1>20 DEF PutOn, With
    <3> QED BY <1>1, <1>4, <1>14, <1>15, <3>1, PutIn
  <2> QED BY <1>13, <1>18, <1>19, <2>1 DEF t
<1>21. CASE o.size > z[t] /\ r = [end EXCEPT !.crashed = TRUE]
  <2>1. /\ r \in State /\ r.crashed /\ r.seg = end.seg
    BY <1>14, <1>21 DEF State
  <2>2. i = 0
    <3> SUFFICES ASSUME i # 0 PROVE FALSE
      OBVIOUS
    <3>1. Sized(st.seg[i].map) /\ SizeSum(st.seg[i].map) <= z[i]
          /\ st.seg[i].map \subseteq Objects
      BY <1>2, CurrentSum
    <3>2. /\ SizeSum(st.seg[i].map) = o.size + SizeSum(st.seg[i].map \ {o})
          /\ SizeSum(st.seg[i].map \ {o}) \in Nat
      BY <3>1, SizeSumRemove
    <3>3. z[i] = z[t] /\ z[t] \in Nat
      BY <1>1 DEF Quarters
    <3> QED BY <1>4, <1>21, <3>1, <3>2, <3>3
  <2>3. \A x : Held(st, x) => Held(r, x) \/ x \in st.seg[0].map
    BY <1>18, <2>1, <2>2 DEF Held
  <2>4. \A x : Held(r, x) => Held(end, x)
    BY <2>1 DEF Held
  <2> QED BY <1>1, <1>14, <1>21, <1>19, <2>1, <2>3, <2>4
<1>22. \/ /\ end.seg[t].current + o.size <= z[t]
          /\ r = [end EXCEPT !.seg[t] = Admit(@, o)]
       \/ o.size > z[t] /\ r = [end EXCEPT !.crashed = TRUE]
  BY <1>8, <1>12 DEF EndsIn
<1> QED BY <1>20, <1>21, <1>22

\* The state the methods of the cache find, with what lookup() has counted.
Counted(o, i) == [seg |-> LookedUp(o, i), crashed |-> FALSE]

\* lookup() counts, and puts the object on top of the last segment it asks,
\* but moves nothing between segments.
LEMMA LookedUpInv ==
  ASSUME NEW z, SegmentsInv(segments, z), NEW o \in Objects, NEW i \in 0..3
  PROVE  /\ Counted(o, i) \in State /\ ~Counted(o, i).crashed
         /\ SegmentsInv(Counted(o, i).seg, z)
         /\ \A j \in 0..3 : Counted(o, i).seg[j].map = segments[j].map
         /\ o \in segments[i].map => OnTopOf(Counted(o, i).seg[i], o)
<1> DEFINE st == Counted(o, i)
<1>1. \A j \in 0..3 : /\ CacheInv(segments[j]) /\ segments[j].size = z[j]
                      /\ segments[j] \in LRUCaches
  BY DEF SegmentsInv
<1>2. \A j \in 0..3 : /\ CacheInv(Lookup(segments[j], o))
                      /\ Lookup(segments[j], o).map = segments[j].map
                      /\ Lookup(segments[j], o).size = segments[j].size
                      /\ Lookup(segments[j], o) \in LRUCaches
  <2> SUFFICES ASSUME NEW j \in 0..3
               PROVE  /\ CacheInv(Lookup(segments[j], o))
                      /\ Lookup(segments[j], o).map = segments[j].map
                      /\ Lookup(segments[j], o).size = segments[j].size
                      /\ Lookup(segments[j], o) \in LRUCaches
    OBVIOUS
  <2>1. CacheInv(segments[j])
    BY <1>1
  <2>2. /\ CacheInv(Lookup(segments[j], o))
        /\ Lookup(segments[j], o).map = segments[j].map
        /\ Lookup(segments[j], o).size = segments[j].size
    BY <2>1, LookupInv
  <2> QED BY <2>2 DEF CacheInv
<1>3. \A j \in 0..3 : st.seg[j] = IF j <= i THEN Lookup(segments[j], o)
                                  ELSE segments[j]
  BY DEF Counted, LookedUp
<1>4. st \in State /\ ~st.crashed
  BY <1>1, <1>2 DEF Counted, LookedUp, State
<1> HIDE DEF st
<1>5. \A j \in 0..3 : /\ CacheInv(st.seg[j]) /\ st.seg[j].size = z[j]
                      /\ st.seg[j].map = segments[j].map
  BY <1>1, <1>2, <1>3
<1>6. SegmentsInv(st.seg, z)
  BY <1>4, <1>5 DEF SegmentsInv, State
<1>7. ASSUME o \in segments[i].map PROVE OnTopOf(st.seg[i], o)
  <2> DEFINE c == segments[i]
             n == Cell(c.list, o)
  <2>1. c.list \in Seq(Objects) /\ o \in ToSet(c.list) /\ c \in LRUCaches
    BY <1>1, <1>7 DEF CacheInv, LRUCaches, IndexExact
  <2>2. n \in 1..Len(c.list)
    BY <2>1, CellOf
  <2>3. RemoveAt(c.list, n) \in Seq(Objects)
    BY <2>1, <2>2, RemoveAtCells
  <2>4. Count(c, o).list = c.list /\ Count(c, o).map = c.map
    BY <2>1 DEF Count, LRUCaches
  <2>5. Lookup(c, o).list = <<o>> \o RemoveAt(c.list, n)
    BY <1>7, <2>1, <2>4 DEF Lookup, Hit, IsHit, Count, LRUCaches
  <2> HIDE DEF n, c
  <2>6. OnTopOf(Lookup(c, o), o)
    BY <2>3, <2>5 DEF OnTopOf
  <2> QED BY <1>3, <2>6 DEF c
<1> QED BY <1>4, <1>5, <1>6, <1>7 DEF st

\* A miss puts the object in segment 0, or nowhere, and takes nothing out of
\* the others.
LEMMA MissInv ==
  ASSUME NEW z, SegmentsInv(segments, z), NEW o \in Objects,
         \A i \in 0..3 : o \notin segments[i].map,
         NEW seg, seg = AdmitTo0(Counted(o, 3), o).seg
  PROVE  /\ SegmentsInv(seg, z)
         /\ \A j \in 1..3 : seg[j].map = segments[j].map
         /\ seg[0].map \subseteq segments[0].map \cup {o}
<1> DEFINE st == Counted(o, 3)
           c == Admit(st.seg[0], o)
           r == AdmitTo0(st, o)
<1>1. /\ st \in State /\ SegmentsInv(st.seg, z)
      /\ \A j \in 0..3 : st.seg[j].map = segments[j].map
  <2>1. 3 \in 0..3
    OBVIOUS
  <2> QED BY <2>1, LookedUpInv
<1>2. 0 \in 0..3 /\ CacheInv(st.seg[0]) /\ st.seg[0].size = z[0] /\ o \notin st.seg[0].map
  BY <1>1 DEF SegmentsInv
<1>3. CacheInv(c) /\ c.size = z[0] /\ c.map \subseteq st.seg[0].map \cup {o}
  BY <1>2, AdmitInv
<1>4. r = With(st, 0, c)
  BY DEF AdmitTo0, With
<1> HIDE DEF c, r, st
<1>5. \A m \in 0..3 : m # 0 => st.seg[m].map \cap c.map = {}
  <2> SUFFICES ASSUME NEW m \in 0..3, m # 0 PROVE st.seg[m].map \cap c.map = {}
    OBVIOUS
  <2>1. st.seg[m].map \cap st.seg[0].map = {} /\ o \notin st.seg[m].map
    BY <1>1, <1>2 DEF SegmentsInv
  <2> QED BY <1>3, <2>1
<1>6. /\ SegmentsInv(r.seg, z) /\ r.seg[0] = c
      /\ \A m \in 0..3 : m # 0 => r.seg[m] = st.seg[m]
  BY <1>1, <1>2, <1>3, <1>4, <1>5, SegmentsWith
<1>7. seg = r.seg
  BY DEF r, st
<1> QED BY <1>1, <1>3, <1>6, <1>7

\* A request that finds its object in segment i.
HitIn(o, i) ==
  /\ o \in segments[i].map /\ found' = i
  /\ segments' = MoveUp(Counted(o, i), i, o).seg
  /\ crashed' = MoveUp(Counted(o, i), i, o).crashed

HitSegment(i) == IF i = 3 THEN 3 ELSE i + 1

Within(segs, x) == \E j \in 0..3 : x \in segs[j].map

LEMMA HitInInv ==
  ASSUME NEW z, Quarters(z), SegmentsInv(segments, z), NEW o \in Objects,
         NEW i \in 0..3, HitIn(o, i)
  PROVE  /\ SegmentsInv(segments', z) /\ crashed' \in BOOLEAN
         /\ crashed' => o.size > z[1]
         /\ ~crashed' => OnTopOf(segments'[HitSegment(i)], o)
         /\ \A x : Within(segments, x) => Within(segments', x) \/ x \in segments[0].map
         /\ \A x : Within(segments', x) => Within(segments, x)
<1> DEFINE st == Counted(o, i)
           r == MoveUp(st, i, o)
<1>1. /\ st \in State /\ ~st.crashed /\ SegmentsInv(st.seg, z)
      /\ \A j \in 0..3 : st.seg[j].map = segments[j].map
      /\ OnTopOf(st.seg[i], o)
  BY LookedUpInv DEF HitIn
<1>2. segments' = r.seg /\ crashed' = r.crashed /\ o \in st.seg[i].map
  BY <1>1 DEF HitIn
<1> HIDE DEF st
<1>3. \A x : Held(st, x) <=> Within(segments, x)
  BY <1>1 DEF Held, Within
<1>4. CASE i = 3
  <2>1. r = st
    BY <1>4 DEF MoveUp
  <2>2. \A x : Within(segments', x) <=> Within(segments, x)
    BY <1>1, <1>2, <2>1 DEF Within
  <2>3. segments' = st.seg /\ crashed' = st.crashed /\ HitSegment(i) = i
    BY <1>2, <1>4, <2>1 DEF HitSegment
  <2>4. crashed' \in BOOLEAN /\ ~crashed'
    BY <1>1, <2>3 DEF State
  <2> QED BY <1>1, <2>2, <2>3, <2>4
<1>5. CASE i # 3
  <2>1. i \in 0..2 /\ HitSegment(i) = i + 1
    BY <1>5 DEF HitSegment
  <2> DEFINE q == MoveUp(st, i, o)
  <2>2. /\ q \in State /\ SegmentsInv(q.seg, z)
        /\ q.crashed => o.size > z[1]
        /\ ~q.crashed => OnTopOf(q.seg[i+1], o)
        /\ \A x : Held(st, x) => Held(q, x) \/ x \in st.seg[0].map
        /\ \A x : Held(q, x) => Held(st, x)
    BY <1>1, <1>2, <2>1, MoveUpInv
  <2> HIDE DEF q
  <2>3. segments' = q.seg /\ crashed' = q.crashed
    BY <1>2 DEF q
  <2>4. \A x : Held(q, x) <=> Within(segments', x)
    BY <2>3 DEF Held, Within
  <2>5. q.crashed \in BOOLEAN
    BY <2>2 DEF State
  <2>6. st.seg[0].map = segments[0].map
    BY <1>1
  <2> QED BY <1>3, <2>1, <2>2, <2>3, <2>4, <2>5, <2>6
<1> QED BY <1>4, <1>5

(***************************************************************************)
(* The specification.                                                      *)
(***************************************************************************)
Capacities(cs) == [i \in 0..3 |-> SegmentSize(cs, i)]

\* The command line of this run.
Started(run) ==
  /\ file_size = run[2] /\ SegmentsInv(segments, Capacities(run[1]))
  /\ crashed => \E line \in Lines : ObjectOf(line).size > run[1] \div 4

Inv ==
  /\ \E run \in Runs : Started(run)
  /\ crashed \in BOOLEAN /\ reqs \in 0..MaxReqs /\ hits \in 0..reqs
  /\ asked \in Objects \cup {NoRequest} /\ found \in 0..4
  /\ ~file_size => \A x : Within(segments, x) => x.size = 1
  /\ found # 4 /\ ~crashed => OnTopOf(segments[HitSegment(found)], asked)

LEMMA CapacitiesQuarters ==
  ASSUME NEW run \in Runs
  PROVE  /\ Quarters(Capacities(run[1])) /\ Capacities(run[1])[1] = run[1] \div 4
         /\ run[1] \in Nat /\ run[2] \in BOOLEAN
<1>1. run[1] \in Nat /\ run[2] \in BOOLEAN
  BY RunsAssumption
<1> DEFINE cs == run[1]
<1>2. cs \div 4 \in Nat /\ cs % 4 \in Nat
  BY <1>1
<1> HIDE DEF cs
<1>3. /\ SegmentSize(cs, 0) = (cs \div 4) + (cs % 4)
      /\ \A i \in 1..3 : SegmentSize(cs, i) = cs \div 4
  BY DEF SegmentSize
<1>4. \A i \in 0..3 : SegmentSize(cs, i) \in Nat
  BY <1>2, <1>3
<1>5. Quarters(Capacities(cs)) /\ Capacities(cs)[1] = cs \div 4
  BY <1>2, <1>3, <1>4 DEF Capacities, Quarters
<1> QED BY <1>1, <1>5 DEF cs

LEMMA LineObjects ==
  ASSUME NEW line \in Lines
  PROVE  ObjectOf(line) \in Objects /\ (~file_size => ObjectOf(line).size = 1)
BY LinesAssumption DEF ObjectOf, Objects

LEMMA InitInv == Init => Inv
<1> SUFFICES ASSUME Init PROVE Inv
  OBVIOUS
<1>1. PICK run \in Runs :
        /\ file_size = run[2]
        /\ segments = [i \in 0..3 |-> SetSize(NewCache, SegmentSize(run[1], i))]
  BY DEF Init
<1> DEFINE z == Capacities(run[1])
<1>2. z \in [0..3 -> Nat] /\ \A i \in 0..3 : SegmentSize(run[1], i) = z[i]
  BY CapacitiesQuarters DEF Quarters, Capacities
<1> HIDE DEF z
<1>3. ASSUME NEW i \in 0..3
      PROVE  /\ CacheInv(segments[i]) /\ segments[i].size = z[i]
             /\ segments[i].map = {} /\ segments[i] \in LRUCaches
  <2>1. segments[i] = SetSize(NewCache, z[i]) /\ z[i] \in Nat
    BY <1>1, <1>2
  <2>2. Consistent(NewCache) /\ NewCache.map = {}
    BY NewCacheInv, CacheInvConsistent DEF NewCache
  <2>3. CacheInv(segments[i]) /\ segments[i].size = z[i] /\ segments[i].map \subseteq {}
    BY <2>1, <2>2, SetSizeInv
  <2> QED BY <2>3 DEF CacheInv
<1>4. SegmentsInv(segments, z)
  BY <1>1, <1>3 DEF SegmentsInv
<1>5. Started(run)
  BY <1>1, <1>4 DEF Started, Init, z
<1>6. \A x : ~Within(segments, x)
  BY <1>3 DEF Within
<1>7. /\ crashed \in BOOLEAN /\ reqs \in 0..MaxReqs /\ hits \in 0..reqs
      /\ asked \in Objects \cup {NoRequest} /\ found = 4
  <2>1. reqs = 0 /\ hits = 0 /\ crashed = FALSE /\ asked = NoRequest /\ found = 4
    BY DEF Init
  <2>2. MaxReqs \in Nat
    BY RunsAssumption
  <2>3. reqs \in 0..MaxReqs /\ hits \in 0..reqs
    BY <2>1, <2>2
  <2>4. crashed \in BOOLEAN /\ asked \in Objects \cup {NoRequest}
    BY <2>1
  <2> QED BY <2>1, <2>3, <2>4
<1> QED BY <1>5, <1>6, <1>7 DEF Inv

\* One request: where it leaves the segments, and what it loses.
LEMMA NextInv ==
  /\ Inv /\ [Next]_vars => Inv'
  /\ Inv /\ Next => \A x : Within(segments, x) =>
                      Within(segments', x) \/ x \in segments[0].map
<1>1. ASSUME Inv, UNCHANGED vars PROVE Inv'
  BY <1>1 DEF Inv, Started, ObjectOf, Within, vars
<1>2. ASSUME Inv, NEW line \in Lines,
             RequestHit(ObjectOf(line)) \/ RequestMiss(ObjectOf(line))
      PROVE  /\ Inv'
             /\ \A x : Within(segments, x) =>
                  Within(segments', x) \/ x \in segments[0].map
  <2> DEFINE o == ObjectOf(line)
  <2>1. PICK run \in Runs : Started(run)
    BY <1>2 DEF Inv
  <2> DEFINE z == Capacities(run[1])
  <2>2. /\ Quarters(z) /\ SegmentsInv(segments, z) /\ file_size = run[2]
        /\ z[1] = run[1] \div 4
    BY <2>1, CapacitiesQuarters DEF Started
  <2>3. o \in Objects /\ (~file_size => o.size = 1)
    BY LineObjects
  <2>4. Read(o)
    BY <1>2 DEF RequestHit, RequestMiss
  <2> HIDE DEF o, z
  <2>5. /\ ~crashed /\ reqs' = reqs + 1 /\ reqs' \in 0..MaxReqs /\ asked' = o
        /\ file_size' = file_size
    BY <1>2, <2>4, RunsAssumption DEF Read, Inv
  <2>6. ObjectOf(line)' = ObjectOf(line)
    BY <2>5 DEF ObjectOf
  <2>7. CASE RequestHit(o)
    <3>1. PICK i \in 0..3 : HitIn(o, i)
      BY <2>7 DEF RequestHit, In, HitIn, Counted
    <3>2. /\ SegmentsInv(segments', z) /\ crashed' \in BOOLEAN
          /\ crashed' => o.size > z[1]
          /\ ~crashed' => OnTopOf(segments'[HitSegment(i)], o)
          /\ \A x : Within(segments, x) => Within(segments', x) \/ x \in segments[0].map
          /\ \A x : Within(segments', x) => Within(segments, x)
      BY <2>2, <2>3, <3>1, HitInInv
    <3>3. hits' \in 0..reqs' /\ found' = i /\ found' \in 0..4
      BY <1>2, <2>5, <2>7, <3>1 DEF RequestHit, HitIn, Inv
    <3>4. crashed' => \E l \in Lines : ObjectOf(l)'.size > run[1] \div 4
      BY <2>2, <2>6, <3>2 DEF o
    <3>5. Started(run)'
      BY <2>2, <2>5, <3>2, <3>4 DEF Started, z
    <3>6. ~file_size' => \A x : Within(segments', x) => x.size = 1
      BY <1>2, <2>5, <3>2 DEF Inv
    <3>7. found' # 4 /\ ~crashed' => OnTopOf(segments'[HitSegment(found')], asked')
      BY <2>5, <3>2, <3>3
    <3>8. Inv'
      BY <2>3, <2>5, <3>2, <3>3, <3>5, <3>6, <3>7 DEF Inv, Within
    <3> QED BY <3>2, <3>8
  <2>8. CASE RequestMiss(o)
    <3>1. /\ \A i \in 0..3 : o \notin segments[i].map
          /\ segments' = AdmitTo0(Counted(o, 3), o).seg /\ found' = 4
          /\ crashed' = crashed /\ hits' = hits
      BY <2>8 DEF RequestMiss, In, Counted
    <3>2. /\ SegmentsInv(segments', z)
          /\ \A j \in 1..3 : segments'[j].map = segments[j].map
          /\ segments'[0].map \subseteq segments[0].map \cup {o}
      BY <2>2, <2>3, <3>1, MissInv
    <3>3. hits' \in 0..reqs'
      BY <1>2, <2>5, <3>1 DEF Inv
    <3>4. Started(run)'
      BY <2>2, <2>5, <3>1, <3>2 DEF Started, z
    <3>5. ASSUME NEW x, Within(segments', x) PROVE Within(segments, x) \/ x = o
      <4>1. PICK j \in 0..3 : x \in segments'[j].map
        BY <3>5 DEF Within
      <4>2. j = 0 \/ j \in 1..3
        OBVIOUS
      <4> QED BY <3>2, <4>1, <4>2 DEF Within
    <3>6. ASSUME NEW x, Within(segments, x)
          PROVE  Within(segments', x) \/ x \in segments[0].map
      <4>1. PICK j \in 0..3 : x \in segments[j].map
        BY <3>6 DEF Within
      <4>2. j = 0 \/ j \in 1..3
        OBVIOUS
      <4> QED BY <3>2, <4>1, <4>2 DEF Within
    <3>7. ~file_size' => \A x : Within(segments', x) => x.size = 1
      BY <1>2, <2>3, <2>5, <3>5 DEF Inv
    <3>8. crashed' \in BOOLEAN
      BY <1>2, <3>1 DEF Inv
    <3>9. Inv'
      BY <2>3, <2>5, <3>1, <3>3, <3>4, <3>7, <3>8 DEF Inv, Within
    <3> QED BY <3>6, <3>9
  <2> QED BY <1>2, <2>7, <2>8 DEF o
<1> QED BY <1>1, <1>2 DEF Next

LEMMA InvHolds == Spec => []Inv
<1>1. Inv /\ [Next]_vars => Inv'
  BY NextInv
<1> QED BY <1>1, InitInv, PTL DEF Spec

\* Every variable keeps its type, and each segment of S4LRUCache stays an LRU
\* cache, whatever the lines of the trace and the size of the cache.
THEOREM TypesHold == Spec => []TypeOK
<1>1. Inv => TypeOK
  <2> SUFFICES ASSUME Inv PROVE TypeOK
    OBVIOUS
  <2>1. PICK run \in Runs : Started(run)
    BY DEF Inv
  <2>2. file_size = run[2] /\ SegmentsInv(segments, Capacities(run[1]))
    BY <2>1 DEF Started
  <2>3. file_size \in BOOLEAN
    BY <2>2, CapacitiesQuarters
  <2>4. segments \in [0..3 -> LRUCaches]
    BY <2>2 DEF SegmentsInv
  <2> QED BY <2>3, <2>4 DEF TypeOK, Inv
<1> QED BY <1>1, InvHolds, PTL

\* MoveUp, the demotions it cascades into and AdmitTo0 copy no object: none is
\* in two segments of S4LRUCache, and each segment is a consistent LRU cache.
THEOREM SegmentsDisjointHolds == Spec => []SegmentsDisjoint
<1>1. Inv => SegmentsDisjoint
  <2> SUFFICES ASSUME Inv PROVE SegmentsDisjoint
    OBVIOUS
  <2>1. PICK run \in Runs : Started(run)
    BY DEF Inv
  <2>2. SegmentsInv(segments, Capacities(run[1]))
    BY <2>1 DEF Started
  <2>3. \A i, j \in 0..3 : i # j => segments[i].map \cap segments[j].map = {}
    BY <2>2 DEF SegmentsInv
  <2>4. \A i \in 0..3 : IndexExact(segments[i]) /\ SizeExact(segments[i])
    BY <2>2 DEF SegmentsInv, CacheInv
  <2> QED BY <2>3, <2>4 DEF SegmentsDisjoint
<1> QED BY <1>1, InvHolds, PTL

\* An object that S4LRUCache loses on a request was in segment 0: a protected
\* one can be demoted by the cascade of segment_admit(), but not pushed out.
THEOREM OnlyBottomLosesHolds == Spec => OnlyBottomLoses
<1>1. Inv /\ [Next]_vars => [Cached \ Cached' \subseteq segments[0].map]_vars
  <2> SUFFICES ASSUME Inv, Next PROVE Cached \ Cached' \subseteq segments[0].map
    OBVIOUS
  <2>1. \A x : Within(segments, x) => Within(segments', x) \/ x \in segments[0].map
    BY NextInv
  <2>2. \A x : (x \in Cached <=> Within(segments, x))
               /\ (x \in Cached' <=> Within(segments', x))
    BY DEF Cached, Within
  <2> QED BY <2>1, <2>2
<1> QED BY <1>1, InvHolds, PTL DEF Spec, OnlyBottomLoses

\* The sizes the caches see are within segment 1, the smallest there is.
EachFits ==
  \A run \in Runs, line \in Lines :
    (IF run[2] THEN line.size ELSE 1) <= run[1] \div 4

LEMMA NeverCrashed ==
  ASSUME EachFits, Inv
  PROVE  ~crashed
<1>1. PICK run \in Runs : Started(run)
  BY DEF Inv
<1>2. SUFFICES ASSUME crashed PROVE FALSE
  OBVIOUS
<1>3. PICK line \in Lines : ObjectOf(line).size > run[1] \div 4
  BY <1>1, <1>2 DEF Started
<1>4. ObjectOf(line).size = IF run[2] THEN line.size ELSE 1
  BY <1>1, LinesAssumption DEF Started, ObjectOf, Objects
<1>5. ObjectOf(line).size <= run[1] \div 4
  BY <1>4 DEF EachFits
<1>6. ObjectOf(line).size \in Nat /\ run[1] \div 4 \in Nat
  BY LineObjects, CapacitiesQuarters DEF Objects, Quarters
<1> QED BY <1>3, <1>5, <1>6

\* lru_variants.h:159, "if hit on segment i, segment i+1", for every trace
\* whose objects fit segment 1; when one does not, segment_admit() can end on
\* the null pointer of evict_return(), as the run S4LRUCrash finds.
THEOREM HitMovesUpHolds ==
  ASSUME EachFits
  PROVE  Spec => []HitMovesUp
<1>1. Inv => HitMovesUp
  <2> SUFFICES ASSUME Inv, found \in 0..3
               PROVE  /\ ~crashed /\ segments[HitSegment(found)].list # <<>>
                      /\ Head(segments[HitSegment(found)].list) = asked
    BY DEF HitMovesUp, HitSegment
  <2>1. ~crashed
    BY NeverCrashed
  <2>2. found # 4
    OBVIOUS
  <2>3. OnTopOf(segments[HitSegment(found)], asked)
    BY <2>1, <2>2 DEF Inv
  <2> QED BY <2>1, <2>3 DEF OnTopOf
<1> QED BY <1>1, InvHolds, PTL

(***************************************************************************)
(* Objects of one size trade places.                                       *)
(***************************************************************************)
HasRoom(st, i, o) == st.seg[i].current + o.size <= st.seg[i].size

\* The loop of segment_admit(i) that stops before or after its first turn.
LEMMA StopsSoon ==
  ASSUME NEW i \in 1..3, NEW s, Len(s.seg[i].list) \in Nat, NEW o,
         NEW K \in 0..1, NEW d, d = IF K = 0 THEN s ELSE Demote(i, s),
         K = 1 => ~s.crashed /\ ~HasRoom(s, i, o),
         ~d.crashed, HasRoom(d, i, o)
  PROVE  AdmitTo(i, s, o) = PutOn(d, i, o)
<1> DEFINE n == Len(s.seg[i].list)
<1>1. PICK turn : IsTurns(turn, i, s) /\ AdmitTo(i, s, o) = AdmitAfter(turn, i, o)
  BY TurnsTaken
<1>2. /\ DOMAIN turn = 0..(n+1) /\ turn[0] = s
      /\ \A k \in 1..(n+1) : turn[k] = Demote(i, turn[k-1])
  BY <1>1 DEF IsTurns, Turns
<1> HIDE DEF n
<1>3. n \in Nat
  BY DEF n
<1>4. turn[K] = d /\ K \in 0..(n+1)
  <2>1. CASE K = 0
    BY <1>2, <1>3, <2>1
  <2>2. CASE K = 1
    <3>1. 1 \in 1..(n+1) /\ 1 - 1 = 0
      BY <1>3
    <3>2. turn[1] = Demote(i, s)
      BY <1>2, <3>1
    <3> QED BY <1>3, <2>2, <3>2
  <2> QED BY <2>1, <2>2
<1> DEFINE Stops(k) == turn[k].crashed \/ HasRoom(turn[k], i, o)
           C == CHOOSE k \in 0..(n+1) : Stops(k) /\ \A j \in 0..(k-1) : ~Stops(j)
<1>5. Stops(K) /\ \A j \in 0..(K-1) : ~Stops(j)
  <2>1. Stops(K)
    BY <1>4
  <2>2. CASE K = 0
    BY <2>1, <2>2
  <2>3. CASE K = 1
    <3>1. ~Stops(0)
      BY <1>2, <2>3
    <3>2. \A j \in 0..(K-1) : j = 0
      BY <2>3
    <3> HIDE DEF Stops
    <3> QED BY <2>1, <3>1, <3>2
  <2> QED BY <2>2, <2>3
<1>6. AdmitTo(i, s, o) = IF turn[C].crashed THEN turn[C] ELSE PutOn(turn[C], i, o)
  BY <1>1, <1>2 DEF AdmitAfter, PutOn, With, HasRoom
<1> HIDE DEF Stops
<1>7. C \in 0..(n+1) /\ Stops(C) /\ \A j \in 0..(C-1) : ~Stops(j)
  BY <1>4, <1>5
<1> HIDE DEF C
<1>8. C = K
  <2>1. K < C => K \in 0..(C-1)
    BY <1>3, <1>4, <1>7
  <2>2. C < K => C \in 0..(K-1)
    BY <1>3, <1>4, <1>7
  <2> QED BY <1>3, <1>4, <1>5, <1>7, <2>1, <2>2
<1> QED BY <1>4, <1>6, <1>8

\* Segment i takes an object it has room for as it is.
LEMMA FitsAtOnce ==
  ASSUME NEW z, NEW st \in State, SegmentsInv(st.seg, z), ~st.crashed,
         NEW i \in 0..3, NEW o, st.seg[i].current + o.size <= z[i]
  PROVE  AdmitTo(i, st, o) = PutOn(st, i, o)
<1>1. CASE i = 0
  BY <1>1 DEF AdmitTo, AdmitTo0, PutOn, With
<1>2. CASE i # 0
  <2>1. i \in 1..3 /\ st.seg[i].size = z[i]
    BY <1>2 DEF SegmentsInv
  <2>2. Len(st.seg[i].list) \in Nat
    BY <2>1, ListOf DEF SegmentsInv
  <2>3. HasRoom(st, i, o)
    BY <2>1 DEF HasRoom
  <2> QED BY <2>1, <2>2, <2>3, StopsSoon
<1> QED BY <1>1, <1>2

\* A hit on objects of size one: the object takes the place of the least
\* recent one above, if it needs it, and that one the place it leaves.
LEMMA MoveUpKeeps ==
  ASSUME NEW z, Quarters(z), z[1] >= 1, NEW st \in State, ~st.crashed,
         SegmentsInv(st.seg, z), NEW i \in 0..2, NEW o \in st.seg[i].map,
         \A x : Held(st, x) => x.size = 1
  PROVE  \A x : Held(st, x) => Held(MoveUp(st, i, o), x)
<1> DEFINE t == i + 1
           w == Removed(st, i, o)
           r == MoveUp(st, i, o)
<1>1. i \in 0..3 /\ t \in 1..3 /\ t \in 0..3 /\ t # i /\ t - 1 = i
  OBVIOUS
<1>2. z[t] >= 1 /\ z[t] \in Nat /\ z[i] \in Nat
  BY <1>1 DEF Quarters
<1>3. LeftBy(z, st, i, o, w) /\ r = AdmitTo(t, w, o)
  BY MoveUpIs
<1>4. Held(st, o)
  BY <1>1 DEF Held
<1>5. o.size = 1
  BY <1>4
<1> HIDE DEF w, r
<1>6. /\ w \in State /\ SegmentsInv(w.seg, z) /\ ~w.crashed
      /\ \A x : Held(w, x) <=> Held(st, x) /\ x # o
      /\ o \in Objects /\ w.seg[i].current + o.size <= z[i]
  BY <1>3 DEF LeftBy
<1>7. CacheInv(w.seg[t]) /\ w.seg[t].size = z[t]
  BY <1>1, <1>6 DEF SegmentsInv
<1> HIDE DEF t
<1>8. CASE w.seg[t].current + o.size <= z[t]
  <2>1. r = PutOn(w, t, o)
    BY <1>1, <1>3, <1>6, <1>8, FitsAtOnce
  <2>2. ~Held(w, o)
    BY <1>6
  <2>3. \A x : Held(r, x) <=> Held(w, x) \/ x = o
    BY <1>1, <1>6, <1>8, <2>1, <2>2, PutIn
  <2> QED BY <1>6, <2>3 DEF r
<1>9. CASE ~(w.seg[t].current + o.size <= z[t])
  <2> DEFINE a == w.seg[t]
             v == Last(a.list)
             c == EvictReturn(a)
             u == With(w, t, c)
             d == Demote(t, w)
  <2>1. a.list # <<>> /\ Len(a.list) \in Nat
    <3>1. a.list = <<>> => a.current = 0
      BY <1>7, BytesNat DEF CacheInv, SizeExact
    <3>2. a.list # <<>>
      BY <1>2, <1>5, <1>9, <3>1
    <3> QED BY <1>7, <3>2, ListOf
  <2>2. v \in a.map
    BY <1>7, <2>1, ListOf
  <2>3. CacheInv(c) /\ c.size = z[t] /\ c.map = a.map \ {v}
    BY <1>7, <2>1, EvictReturnTakes
  <2>4. u = WithoutVictim(w, t) /\ v = Victim(w, t)
    BY DEF With, WithoutVictim, Victim
  <2>5. d = AdmitTo(t - 1, WithoutVictim(w, t), Victim(w, t))
    BY <1>1, <2>1, DemoteIs
  <2>6. d = AdmitTo(i, u, v)
    BY <1>1, <2>4, <2>5
  <2>7. Held(w, v) /\ v.size = 1 /\ v # o
    <3>1. Held(w, v)
      BY <1>1, <2>2 DEF Held
    <3> QED BY <1>6, <3>1
  <2> HIDE DEF v, c, d
  <2>8. /\ u \in State /\ SegmentsInv(u.seg, z) /\ u.crashed = w.crashed
        /\ u.seg[t] = c /\ \A m \in 0..3 : m # t => u.seg[m] = w.seg[m]
        /\ \A x : Held(u, x) <=> Held(w, x) /\ x # v
        /\ v \in Objects /\ c.current + v.size <= z[t]
    BY <1>1, <1>6, <2>2, <2>3, TakenOut
  <2> HIDE DEF u
  <2>9. ~u.crashed /\ u.seg[i].current + v.size <= z[i] /\ ~Held(u, v)
    <3>1. u.seg[i] = w.seg[i]
      BY <1>1, <2>8
    <3>2. ~u.crashed
      BY <1>6, <2>8
    <3> QED BY <1>5, <1>6, <2>7, <2>8, <3>1, <3>2
  <2>10. d = PutOn(u, i, v)
    BY <1>1, <2>6, <2>8, <2>9, FitsAtOnce
  <2>11. /\ d \in State /\ SegmentsInv(d.seg, z) /\ d.crashed = u.crashed
         /\ \A m \in 0..3 : m # i => d.seg[m] = u.seg[m]
         /\ \A x : Held(d, x) <=> Held(u, x) \/ x = v
    BY <1>1, <2>8, <2>9, <2>10, PutIn
  <2>12. d.seg[t] = c /\ c.current + o.size <= z[t] /\ ~d.crashed
    <3>1. d.seg[t] = c
      BY <1>1, <2>8, <2>11
    <3>2. ~d.crashed
      BY <2>9, <2>11
    <3> QED BY <1>5, <2>7, <2>8, <3>1, <3>2
  <2>13. r = PutOn(d, t, o)
    <3>1. HasRoom(d, t, o)
      BY <2>3, <2>12 DEF HasRoom
    <3>2. ~HasRoom(w, t, o)
      BY <1>7, <1>9 DEF HasRoom
    <3>3. d = IF 1 = 0 THEN w ELSE Demote(t, w)
      BY DEF d
    <3> QED BY <1>1, <1>3, <1>6, <2>1, <2>12, <3>1, <3>2, <3>3, StopsSoon
  <2>14. \A x : Held(d, x) <=> Held(w, x)
    BY <2>7, <2>8, <2>11
  <2>15. ~Held(d, o)
    BY <1>6, <2>14
  <2>16. d.seg[t].current + o.size <= z[t]
    BY <2>12
  <2>17. \A x : Held(r, x) <=> Held(d, x) \/ x = o
    BY <1>1, <1>6, <2>11, <2>13, <2>15, <2>16, PutIn
  <2> QED BY <1>6, <2>14, <2>17 DEF r
<1> QED BY <1>8, <1>9

LEMMA HitKeeps ==
  ASSUME NEW z, Quarters(z), z[1] >= 1, SegmentsInv(segments, z),
         \A x : Within(segments, x) => x.size = 1,
         NEW o \in Objects, NEW i \in 0..3, HitIn(o, i)
  PROVE  \A x : Within(segments, x) => Within(segments', x)
<1> DEFINE st == Counted(o, i)
<1>1. /\ st \in State /\ ~st.crashed /\ SegmentsInv(st.seg, z)
      /\ \A j \in 0..3 : st.seg[j].map = segments[j].map
  BY LookedUpInv DEF HitIn
<1>2. segments' = MoveUp(st, i, o).seg /\ o \in st.seg[i].map
  BY <1>1 DEF HitIn
<1> HIDE DEF st
<1>3. \A x : Held(st, x) <=> Within(segments, x)
  BY <1>1 DEF Held, Within
<1>4. \A x : Held(MoveUp(st, i, o), x) <=> Within(segments', x)
  BY <1>2 DEF Held, Within
<1>5. CASE i = 3
  <2>1. MoveUp(st, i, o) = st
    BY <1>5 DEF MoveUp
  <2> QED BY <1>3, <1>4, <2>1
<1>6. CASE i # 3
  <2>1. i \in 0..2
    BY <1>6
  <2>2. \A x : Held(st, x) => x.size = 1
    BY <1>3
  <2>3. \A x : Held(st, x) => Held(MoveUp(st, i, o), x)
    BY <1>1, <1>2, <2>1, <2>2, MoveUpKeeps
  <2> QED BY <1>3, <1>4, <2>3
<1> QED BY <1>5, <1>6

\* When sizes are not used and each segment holds at least one object, a hit
\* of S4LRUCache only trades places and the cache loses nothing; a hit puts
\* nothing new in.
THEOREM HitKeepsAllHolds ==
  ASSUME EachFits
  PROVE  Spec => HitKeepsAll
<1>1. Inv /\ [Next]_vars => [found' # 4 /\ ~file_size => Cached' = Cached]_vars
  <2> SUFFICES ASSUME Inv, Next, found' # 4, ~file_size PROVE Cached' = Cached
    OBVIOUS
  <2>1. PICK line \in Lines : \/ RequestHit(ObjectOf(line))
                              \/ RequestMiss(ObjectOf(line))
    BY DEF Next
  <2> DEFINE o == ObjectOf(line)
  <2>2. RequestHit(o)
    BY <2>1 DEF RequestMiss
  <2>3. o \in Objects
    BY LineObjects
  <2>4. PICK run \in Runs : Started(run)
    BY DEF Inv
  <2> DEFINE z == Capacities(run[1])
  <2>5. /\ Quarters(z) /\ SegmentsInv(segments, z) /\ file_size = run[2]
        /\ z[1] = run[1] \div 4
    BY <2>4, CapacitiesQuarters DEF Started
  <2>6. z[1] >= 1
    <3>1. 1 <= run[1] \div 4
      BY <2>5 DEF EachFits
    <3> HIDE DEF z
    <3>2. z[1] \in Nat
      BY <2>5 DEF Quarters
    <3> QED BY <2>5, <3>1, <3>2
  <2> HIDE DEF o, z
  <2>7. PICK i \in 0..3 : HitIn(o, i)
    BY <2>2 DEF RequestHit, In, HitIn, Counted
  <2>8. \A x : Within(segments, x) => x.size = 1
    BY DEF Inv
  <2>9. \A x : Within(segments, x) => Within(segments', x)
    BY <2>3, <2>5, <2>6, <2>7, <2>8, HitKeeps
  <2>10. \A x : Within(segments', x) => Within(segments, x)
    BY <2>3, <2>5, <2>7, HitInInv
  <2>11. \A x : (x \in Cached <=> Within(segments, x))
                /\ (x \in Cached' <=> Within(segments', x))
    BY DEF Cached, Within
  <2> QED BY <2>9, <2>10, <2>11
<1> QED BY <1>1, InvHolds, PTL DEF Spec, HitKeepsAll

=============================================================================
