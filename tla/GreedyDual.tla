----------------------------- MODULE GreedyDual -----------------------------
(***************************************************************************)
(* The greedy-dual family (caches/gd_variants.cpp) under the simulator's   *)
(* main loop: GreedyDualBase and the policies GDS, GDSF, LRUK and LFUDA    *)
(* that give objects other values.  The object of least value is evicted   *)
(* first, and its value becomes the age L that new values start from.      *)
(*                                                                         *)
(* Values are long doubles in the code and multiples of 1/Unit here: the   *)
(* sizes they are divided by divide Unit, and rounding is left out.        *)
(***************************************************************************)
EXTENDS Integers, FiniteSets, SequencesExt

CONSTANTS
  Ids, Lines,  \* the identifiers, and the lines a trace may hold
  Policies,    \* the cacheType arguments to consider
  CacheSizes,  \* the cacheSize arguments to consider
  K,           \* LRUKCache::_tk
  Unit,        \* the value 1.0
  MaxReqs      \* bound: the length of a trace

Objects == [id : Ids, size : Nat \ {0}]

ASSUME LinesAssumption ==
  /\ Unit \in Nat \ {0}
  /\ Lines \subseteq {o \in Objects : Unit % o.size = 0}
ASSUME ArgumentsAssumption ==
  /\ Policies \subseteq {"GD", "GDS", "GDSF", "LRUK", "LFUDA"}
  /\ CacheSizes \subseteq Nat /\ K \in Nat \ {0} /\ MaxReqs \in Nat

VARIABLES
  cacheType, file_size,  \* the arguments
  cache,                 \* *webcache: see Init for its fields
  reqs, hits,
  trace,                 \* history: the objects requested so far
  since                  \* history: the length of the trace at the last
                         \* eviction of an object, 0 before the first

vars == <<cacheType, file_size, cache, reqs, hits, trace, since>>

Requested == Lines \cup [id : Ids, size : {1}]

\* "values" is _valueMap in its order and "map" the keys of _cacheMap; the
\* iterator of a key is the place in values that has it.
Init ==
  /\ cacheType \in Policies /\ file_size \in BOOLEAN
  /\ \E cs \in CacheSizes :
       cache = [size    |-> cs,                           \* _cacheSize
                current |-> 0,                            \* _currentSize
                values  |-> <<>>,                         \* _valueMap
                map     |-> {},                           \* _cacheMap
                L       |-> 0,                            \* _currentL
                reqsMap |-> [o \in Requested |-> 0],      \* _reqsMap
                refsMap |-> [o \in Requested |-> <<>>],   \* _refsMap
                curTime |-> 0]                            \* _curTime
  /\ reqs = 0 /\ hits = 0
  /\ trace = <<>>
  /\ since = [o \in Requested |-> 0]

Place(c, o) == CHOOSE i \in DOMAIN c.values : c.values[i].obj = o

\* ageValue(req), of the five classes.
AgeValue(c, o) ==
  CASE cacheType = "GD"    -> c.L + Unit
    [] cacheType = "GDS"   -> c.L + Unit \div o.size
    [] cacheType = "GDSF"  -> c.L + (c.reqsMap[o] * Unit) \div o.size
    [] cacheType = "LFUDA" -> c.L + c.reqsMap[o] * Unit
    [] cacheType = "LRUK"  -> IF Len(c.refsMap[o]) >= K THEN c.refsMap[o][1]
                              ELSE 0

\* What LRUKCache::ageValue() leaves of the references: the front is popped.
RefsLeft(c, o) ==
  IF cacheType = "LRUK" /\ Len(c.refsMap[o]) >= K
  THEN [c.refsMap EXCEPT ![o] = Tail(@)]
  ELSE c.refsMap

EmplaceFirst(values, v, o) ==
  InsertAt(values, 1 + Cardinality({i \in DOMAIN values : values[i].val < v}),
           [val |-> v, obj |-> o])

\* multimap::emplace: after the entries of equal value.
Emplace(values, v, o) ==
  InsertAt(values, 1 + Cardinality({i \in DOMAIN values : values[i].val <= v}),
           [val |-> v, obj |-> o])

\* _valueMap.emplace(ageValue(req), obj)
Valued(c, o) ==
  [c EXCEPT !.values  = Emplace(@, AgeValue(c, o), o),
            !.refsMap = RefsLeft(c, o)]

EvictGreatest(c) ==
  IF c.values = <<>> THEN c
  ELSE LET victim == Last(c.values)
       IN  [c EXCEPT !.current = @ - victim.obj.size,
                     !.map     = @ \ {victim.obj},
                     !.L       = victim.val,
                     !.values  = Front(@)]

EvictKeepsRefs(c) ==
  IF c.values = <<>> THEN c
  ELSE LET victim == Head(c.values)
       IN  [c EXCEPT !.current = @ - victim.obj.size,
                     !.map     = @ \ {victim.obj},
                     !.L       = victim.val,
                     !.values  = Tail(@)]

\* evict(): the first entry goes and leaves its value as L; LRUKCache forgets
\* the object's references with it.
Evict(c) ==
  IF c.values = <<>> THEN c
  ELSE LET victim == Head(c.values)
       IN  [c EXCEPT !.current = @ - victim.obj.size,
                     !.map     = @ \ {victim.obj},
                     !.L       = victim.val,
                     !.values  = Tail(@),
                     !.refsMap[victim.obj] =
                        IF cacheType = "LRUK" THEN <<>> ELSE @]

\* The loop "while (_currentSize + size > _cacheSize) evict();".
MakeRoom(c, size) ==
  LET after[k \in 0..Len(c.values)] ==
        IF k = 0 THEN c ELSE Evict(after[k-1])
      Fits(k) == after[k].current + size <= c.size
  IN  after[CHOOSE k \in DOMAIN after : Fits(k) /\ \A j \in 0..(k-1) : ~Fits(j)]

\* GreedyDualBase::admit(req), past the evictions.
AdmitInto(c, o) == [Valued(c, o) EXCEPT !.map     = @ \cup {o},
                                        !.current = @ + o.size]

\* GreedyDualBase::admit(req): an object as large as the cache is not stored.
Admit(c, o) == IF o.size >= c.size THEN c
               ELSE AdmitInto(MakeRoom(c, o.size), o)

HitTakesBytes(c, o) ==
  Valued([c EXCEPT !.values  = RemoveAt(@, Place(c, o)),
                   !.current = @ - o.size], o)

HitLeavesEntry(c, o) == Valued(c, o)

\* GreedyDualBase::hit(req): the object gets a new value.
Hit(c, o) == Valued([c EXCEPT !.values = RemoveAt(@, Place(c, o))], o)

\* LRUKCache::lookup(), before the base class's.
Referenced(c, o) ==
  IF cacheType # "LRUK" THEN c
  ELSE [c EXCEPT !.curTime = @ + 1, !.refsMap[o] = Append(@, c.curTime + 1)]

CountedOn(c, o, hit) ==
  IF cacheType \notin {"GDSF", "LFUDA"} THEN c
  ELSE [c EXCEPT !.reqsMap[o] = @ + 1]

\* The lookup() of GDSF and LFUDA, after the base class's.
Counted(c, o, hit) ==
  IF cacheType \notin {"GDSF", "LFUDA"} THEN c
  ELSE [c EXCEPT !.reqsMap[o] = IF hit THEN @ + 1 ELSE 1]

----------------------------------------------------------------------------
Read(o) ==
  /\ reqs < MaxReqs
  /\ reqs' = reqs + 1
  /\ trace' = Append(trace, o)
  /\ UNCHANGED <<cacheType, file_size>>

RequestHit(o) ==
  /\ Read(o)
  /\ o \in cache.map
  /\ cache' = Counted(Hit(Referenced(cache, o), o), o, TRUE)
  /\ hits' = hits + 1
  /\ UNCHANGED since

RequestMiss(o) ==
  /\ Read(o)
  /\ o \notin cache.map
  /\ cache' = Admit(Counted(Referenced(cache, o), o, FALSE), o)
  /\ since' = [x \in Requested |-> IF x \in cache.map \ cache'.map
                                   THEN Len(trace) ELSE since[x]]
  /\ UNCHANGED hits

ObjectOf(line) == IF file_size THEN line ELSE [line EXCEPT !.size = 1]

Next == \E line \in Lines : \/ RequestHit(ObjectOf(line))
                            \/ RequestMiss(ObjectOf(line))

Spec == Init /\ [][Next]_vars

----------------------------------------------------------------------------
TypeOK ==
  /\ cacheType \in Policies /\ file_size \in BOOLEAN
  /\ cache.size \in CacheSizes /\ cache.current \in Nat
  /\ cache.values \in Seq([val : Nat, obj : Requested])
  /\ cache.map \subseteq Requested
  /\ cache.L \in Nat /\ cache.curTime \in Nat
  /\ cache.reqsMap \in [Requested -> Nat]
  /\ cache.refsMap \in [Requested -> Seq(Nat)]
  /\ reqs \in 0..MaxReqs /\ hits \in 0..reqs
  /\ trace \in Seq(Requested) /\ since \in [Requested -> Nat]

Cached == {cache.values[i].obj : i \in DOMAIN cache.values}

\* The value map, its index and the byte count describe one set of objects,
\* whatever objects were valued anew, evicted and admitted again, and the
\* front of the map is where the least value is.
MapsAgree ==
  /\ cache.map = Cached /\ Cardinality(Cached) = Len(cache.values)
  /\ cache.current = MapThenSumSet(LAMBDA o : o.size, cache.map)
  /\ cache.current <= cache.size
  /\ \A i, j \in DOMAIN cache.values :
       i < j => cache.values[i].val <= cache.values[j].val

\* The most an object's value can be above the age.
Weight(o) == CASE cacheType = "GD"    -> Unit
               [] cacheType = "GDS"   -> Unit \div o.size
               [] cacheType = "GDSF"  -> (cache.reqsMap[o] * Unit) \div o.size
               [] cacheType = "LFUDA" -> cache.reqsMap[o] * Unit

\* Greedy dual ages what is not requested: an object is worth at least L and at
\* most L and its own weight, however long ago it was valued.  An L that ran
\* ahead of a value, or a value that L never caught up with, would keep an
\* object for ever.
ValuesAged ==
  cacheType # "LRUK" =>
    \A i \in DOMAIN cache.values :
      LET e == cache.values[i]
      IN  cache.L <= e.val /\ e.val <= cache.L + Weight(e.obj)

\* The indices of the requests for o since it was last evicted.
Requests(o) == {i \in DOMAIN trace : trace[i] = o /\ i > since[o]}

\* Greedy dual without sizes is LRU: objects are evicted in the order of their
\* last requests, though the code keeps no recency but the order of the
\* entries of equal value.
GDIsLRU ==
  cacheType = "GD" \/ (cacheType = "GDS" /\ ~file_size) =>
    \A i, j \in DOMAIN cache.values :
      i < j => Max(Requests(cache.values[i].obj))
                 < Max(Requests(cache.values[j].obj))

\* README.md, LRU-K "evict object which has oldest K-th reference in the
\* past": the value of an object is the time of its K-th last request, 0 when
\* there are fewer, counted from its last eviction.
KthReference ==
  cacheType = "LRUK" =>
    \A i \in DOMAIN cache.values :
      LET e == cache.values[i]
      IN  IF Cardinality(Requests(e.obj)) < K THEN e.val = 0
          ELSE /\ e.val \in Requests(e.obj)
               /\ Cardinality({n \in Requests(e.obj) : n >= e.val}) = K

\* What n requests for o weigh in GDSF and LFUDA.
FrequencyWeight(o, n) == IF cacheType = "GDSF" THEN (n * Unit) \div o.size
                         ELSE n * Unit

\* What GDSF and LFUDA know of the frequency of a cached object is right,
\* although _reqsMap keeps the counts of evicted objects: after each request
\* the count is the number of requests since the object was last evicted.  The
\* value is one request behind it (gd_variants.cpp:177-182): a hit is valued
\* with the requests before it, an admission with the one it is for.
FrequencyExact ==
  cacheType \in {"GDSF", "LFUDA"} =>
    /\ \A o \in cache.map : cache.reqsMap[o] = Cardinality(Requests(o))
    /\ \A i \in DOMAIN cache.values :
         LET e == cache.values[i]
             n == Cardinality(Requests(e.obj))
         IN  e.obj = Last(trace) =>
               e.val = cache.L + FrequencyWeight(e.obj, IF n = 1 THEN 1 ELSE n - 1)

\* README.md, LFU-DA "least-frequently used eviction with dynamic aging": as
\* long as nothing has aged, an object requested more often than one that
\* stays is not evicted.
LeastFrequentEvicted ==
  [][cacheType = "LFUDA" /\ cache.L = 0 =>
       \A victim \in cache.map \ cache'.map :
         \A other \in cache.map \cap cache'.map :
           cache.reqsMap[victim] <= cache.reqsMap[other]]_vars
=============================================================================
