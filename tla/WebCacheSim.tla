----------------------------- MODULE WebCacheSim -----------------------------
(***************************************************************************)
(* The simulator's main loop (webcachesim.cpp) over one cache of the LRU   *)
(* family (caches/lru_variants.cpp): LRU, FIFO, Filter, ThLRU and ExpLRU.  *)
(* One action is one turn of the loop: a line is read from the trace, the  *)
(* cache is looked up and, on a miss, asked to admit the object.           *)
(***************************************************************************)
EXTENDS LRUCache

CONSTANTS
  Lines,          \* the lines a trace may hold: [id : Ids, size : Nat]
  Policies,       \* the cacheType arguments to consider
  CacheSizes,     \* the cacheSize arguments to consider
  NParam,         \* FilterCache::_nParam
  SizeThreshold,  \* ThLRUCache::_sizeThreshold
  MaxReqs         \* bound: the length of a trace

ASSUME LinesAssumption == Lines \subseteq Objects
ASSUME ArgumentsAssumption ==
  /\ Policies \subseteq {"LRU", "FIFO", "Filter", "ThLRU", "ExpLRU"}
  /\ CacheSizes \subseteq Nat
  /\ NParam \in Nat \ {0} /\ SizeThreshold \in Nat /\ MaxReqs \in Nat

VARIABLES
  cacheType,   \* argv[2]
  file_size,   \* whether the trace's sizes are used; else every size is 1
  cache,       \* *webcache
  filter,      \* FilterCache::_filter
  reqs, hits, reqs_size, hits_size,
  trace,       \* history: the objects requested so far
  placed       \* history: the objects ever placed, most recent first

args  == <<cacheType, file_size>>
stats == <<reqs, hits, reqs_size, hits_size>>
vars  == <<args, cache, filter, stats, trace, placed>>

\* The objects requests can be for: sizes are overwritten by 1 by default.
Requested == Lines \cup [id : Ids, size : {1}]

Init ==
  /\ cacheType \in Policies
  /\ file_size \in BOOLEAN
  /\ \E cs \in CacheSizes : cache = SetSize(NewCache, cs)
  /\ filter = [o \in Requested |-> 0]
  /\ reqs = 0 /\ hits = 0 /\ reqs_size = 0 /\ hits_size = 0
  /\ trace = <<>> /\ placed = <<>>

\* A lookup() that finds the object.  FIFOCache::hit() does nothing.
HitCache(o) ==
  IF cacheType = "FIFO" THEN Count(cache, o) ELSE Hit(Count(cache, o), o)

FilterPassesOneEarly(o) == filter'[o] >= NParam

\* FilterCache::admit() counts the request lookup() has already counted.
FilterPasses(o) == filter'[o] > NParam

\* Whether the policy's own admit() goes on to LRUCache::admit().  ExpLRU
\* draws from exp(-size / c), which is 1 for an object of size 0.
Admits(o) ==
  CASE cacheType = "Filter" -> {FilterPasses(o)}
    [] cacheType = "ThLRU"  -> {o.size < SizeThreshold}
    [] cacheType = "ExpLRU" -> IF o.size = 0 THEN {TRUE} ELSE BOOLEAN
    [] OTHER                -> {TRUE}

PlacedFirst(o) == <<o>> \o RemoveFirst(placed, o)

\* while (infile >> id >> size): reqs++, reqs_size += size, req->reinit(...)
Read(o) ==
  /\ reqs < MaxReqs
  /\ reqs' = reqs + 1
  /\ reqs_size' = reqs_size + o.size
  /\ trace' = Append(trace, o)
  /\ filter' = IF cacheType = "Filter" THEN [filter EXCEPT ![o] = @ + 1]
               ELSE filter
  /\ UNCHANGED args

RequestHit(o) ==
  /\ Read(o)
  /\ IsHit(cache, o)
  /\ cache' = HitCache(o)
  /\ hits' = hits + 1
  /\ hits_size' = hits_size + o.size
  /\ placed' = IF cacheType = "FIFO" THEN placed ELSE PlacedFirst(o)

RequestMissAdmit(o) ==
  /\ Read(o)
  /\ ~IsHit(cache, o)
  /\ TRUE \in Admits(o)
  /\ cache' = Admit(Count(cache, o), o)
  /\ placed' = IF o.size <= cache.size THEN PlacedFirst(o) ELSE placed
  /\ UNCHANGED <<hits, hits_size>>

RequestMissReject(o) ==
  /\ Read(o)
  /\ ~IsHit(cache, o)
  /\ FALSE \in Admits(o)
  /\ cache' = Count(cache, o)
  /\ UNCHANGED <<hits, hits_size, placed>>

\* The object of a line: "size = 1" unless filesize=true was given.
ObjectOf(line) == IF file_size THEN line ELSE [line EXCEPT !.size = 1]

Next ==
  \E line \in Lines :
    \/ RequestHit(ObjectOf(line))
    \/ RequestMissAdmit(ObjectOf(line))
    \/ RequestMissReject(ObjectOf(line))

Spec == Init /\ [][Next]_vars

----------------------------------------------------------------------------
TypeOK ==
  /\ cacheType \in Policies /\ file_size \in BOOLEAN
  /\ cache \in LRUCaches
  /\ filter \in [Requested -> Nat]
  /\ reqs \in 0..MaxReqs /\ hits \in 0..reqs
  /\ reqs_size \in Nat /\ hits_size \in Nat
  /\ trace \in Seq(Requested) /\ placed \in Seq(Requested)

\* However hits, evictions and rejected admissions follow each other,
\* _currentSize stays the sum of the sizes of the cached objects and within
\* the capacity: the eviction loop of LRUCache::admit() relies on it to stop.
SizeAccounting == SizeExact(cache)

\* _cacheMap and _cacheList hold the same objects, once each: LRUCache::hit()
\* and evict() dereference the iterators of _cacheMap.
IndexAgrees == IndexExact(cache)

\* FilterCache, by the trace itself and not by its own counts: an object
\* is in the cache only after more than n requests for it, evicted and
\* admitted again or not.
Occurrences(o) == {i \in DOMAIN trace : trace[i] = o}
FilterAdmission ==
  cacheType = "Filter" =>
    \A o \in cache.map : Cardinality(Occurrences(o)) > NParam

\* The simulator implements the stack model: each reported hit is one of the
\* model and the other way round, so it evicts exactly the objects the policy
\* names and no more of them than it must, whatever the sizes.
Stack == INSTANCE RecencyStack
           WITH size <- cache.size, refreshes <- (cacheType # "FIFO"),
                always <- (cacheType \in {"LRU", "FIFO"}),
                model <- [stack |-> placed, requests |-> trace,
                          hits |-> hits, hitBytes |-> hits_size]
ImplementsStack == Stack!Spec
=============================================================================
