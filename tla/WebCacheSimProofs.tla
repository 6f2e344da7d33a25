------------------------- MODULE WebCacheSimProofs -------------------------
(***************************************************************************)
(* The invariants of the single-cache simulator, for every set of ids and  *)
(* lines, every cache size, parameter and length of trace, and what        *)
(* trace_clean makes of every trace.                                       *)
(***************************************************************************)
EXTENDS CleanedTraces, ClassLemmas

USE LinesAssumption, ArgumentsAssumption

\* What lines are looked up as are objects with a size.
LEMMA RequestedObjects ==
  /\ Requested \subseteq Objects
  /\ \A o \in Requested : o.size \in Nat
  /\ \A line \in Lines : ObjectOf(line) \in Requested
<1>1. Requested \subseteq Objects
  BY DEF Requested, Objects
<1>2. \A o \in Requested : o.size \in Nat
  BY <1>1 DEF Objects
<1>3. ASSUME NEW line \in Lines PROVE ObjectOf(line) \in Requested
  BY DEF ObjectOf, Requested, Objects
<1> QED BY <1>1, <1>2, <1>3

----------------------------------------------------------------------------
(***************************************************************************)
(* The inductive invariant of the cache: its fields agree, it holds        *)
(* objects that were requested, and its list is the top of the stack of    *)
(* the objects ever placed.                                                *)
(***************************************************************************)

IInv ==
  /\ TypeOK /\ CacheInv(cache) /\ cache.map \subseteq Requested
  /\ TopOf(cache, placed)

\* A cache just created and sized is consistent and empty.
LEMMA InitEmpty == Init => CacheInv(cache) /\ cache.map = {}
<1> SUFFICES ASSUME Init PROVE CacheInv(cache) /\ cache.map = {}
  OBVIOUS
<1>1. PICK cs \in CacheSizes : cache = SetSize(NewCache, cs)
  BY DEF Init
<1>2. Consistent(NewCache)
  BY NewCacheInv, CacheInvConsistent
<1>3. CacheInv(cache)
  BY <1>1, <1>2, SetSizeInv
<1> DEFINE d == [NewCache EXCEPT !.size = cs]
<1>4. Consistent(d) /\ 0 <= d.size /\ d.map = {}
  <2>1. cs \in Nat /\ NewCache \in LRUCaches /\ IndexExact(NewCache)
    BY <1>2 DEF Consistent
  <2>2. /\ d \in LRUCaches /\ d.size = cs /\ d.map = {}
        /\ d.list = NewCache.list /\ d.map = NewCache.map
        /\ d.current = NewCache.current
    BY <2>1 DEF LRUCaches, NewCache
  <2> HIDE DEF d
  <2>3. Consistent(d)
    BY <1>2, <2>2 DEF Consistent, IndexExact
  <2> QED BY <2>1, <2>2, <2>3
<1>5. cache = MakeRoom(d, 0)
  BY <1>1 DEF SetSize
<1> HIDE DEF d
<1>6. cache.map \subseteq {}
  BY <1>4, <1>5, MakeRoomInv
<1> QED BY <1>3, <1>6

\* The invariant holds initially.
LEMMA InitIInv == Init => IInv
<1> SUFFICES ASSUME Init PROVE IInv
  OBVIOUS
<1>1. CacheInv(cache) /\ cache.map = {}
  BY InitEmpty
<1>2. TypeOK
  BY <1>1 DEF Init, TypeOK, CacheInv
<1>3. TopOf(cache, placed)
  BY <1>1, EmptyTop DEF Init
<1> QED BY <1>1, <1>2, <1>3 DEF IInv

\* What Read changes keeps its type.
LEMMA ReadTypes ==
  ASSUME TypeOK, NEW o \in Requested, Read(o)
  PROVE  /\ cacheType' \in Policies /\ file_size' \in BOOLEAN
         /\ filter' \in [Requested -> Nat]
         /\ reqs' = reqs + 1 /\ reqs' \in 0..MaxReqs
         /\ reqs_size' \in Nat /\ trace' \in Seq(Requested)
BY RequestedObjects DEF TypeOK, Read, args

\* The history of placements is a list of requested objects.
LEMMA PlacedTypes ==
  ASSUME TypeOK, IsInjective(placed), NEW o \in Requested
  PROVE  PlacedFirst(o) \in Seq(Requested) /\ PlacedFirst(o) = OnTop(o, placed)
<1>1. RemoveFirst(placed, o) \in Seq(Requested)
  BY RemoveFirstSet DEF TypeOK
<1> QED BY <1>1 DEF PlacedFirst, OnTop

\* Every action keeps the invariant.
LEMMA NextIInv == IInv /\ [Next]_vars => IInv'
<1> SUFFICES ASSUME IInv, [Next]_vars PROVE IInv'
  OBVIOUS
<1>0. /\ TypeOK /\ CacheInv(cache) /\ cache.map \subseteq Requested
      /\ TopOf(cache, placed) /\ IsInjective(placed)
  BY DEF IInv, TopOf
<1>1. ASSUME NEW o \in Requested, RequestHit(o)
      PROVE  IInv'
  <2>1. o \in Objects /\ o.size \in Nat /\ o \in cache.map
    BY <1>1, RequestedObjects DEF RequestHit, IsHit
  <2>2. CacheInv(Count(cache, o)) /\ Count(cache, o).map = cache.map
    BY <1>0, <2>1, CountInv
  <2>3. CacheInv(cache') /\ cache'.map = cache.map
    BY <1>1, <2>1, <2>2, HitInv DEF RequestHit, HitCache
  <2>4. hits' \in 0..reqs' /\ hits_size' \in Nat
    <3>1. hits' = hits + 1 /\ hits_size' = hits_size + o.size
      BY <1>1 DEF RequestHit
    <3>2. hits \in 0..reqs /\ reqs \in Nat /\ hits_size \in Nat
      BY <1>0 DEF TypeOK
    <3>3. reqs' = reqs + 1
      BY <1>1 DEF RequestHit, Read
    <3> QED BY <2>1, <3>1, <3>2, <3>3
  <2>5. placed' \in Seq(Requested)
    BY <1>0, <1>1, PlacedTypes DEF RequestHit, TypeOK
  <2>6. TopOf(cache', placed')
    <3>1. TopOf(Count(cache, o), placed)
      BY <1>0, CountTop
    <3>2. TopOf(Hit(Count(cache, o), o), OnTop(o, placed))
      BY <2>1, <2>2, <3>1, HitTop
    <3> QED BY <1>0, <1>1, <3>1, <3>2, PlacedTypes DEF RequestHit, HitCache
  <2> QED BY <1>0, <1>1, <2>3, <2>4, <2>5, <2>6, ReadTypes
          DEF RequestHit, IInv, TypeOK, CacheInv
<1>2. ASSUME NEW o \in Requested, RequestMissAdmit(o)
      PROVE  IInv'
  <2>1. o \in Objects /\ o.size \in Nat /\ o \notin cache.map
    BY <1>2, RequestedObjects DEF RequestMissAdmit, IsHit
  <2>2. CacheInv(Count(cache, o)) /\ Count(cache, o).map = cache.map
    BY <1>0, <2>1, CountInv
  <2>3. CacheInv(cache') /\ cache'.map \subseteq cache.map \cup {o}
    BY <1>2, <2>1, <2>2, AdmitInv DEF RequestMissAdmit
  <2>4. hits' \in 0..reqs' /\ hits_size' \in Nat
    BY <1>0, <1>2, ReadTypes DEF RequestMissAdmit, TypeOK
  <2>5. placed' \in Seq(Requested)
    BY <1>0, <1>2, PlacedTypes DEF RequestMissAdmit, TypeOK
  <2>6. TopOf(cache', placed')
    <3>1. TopOf(Count(cache, o), placed) /\ Count(cache, o).size = cache.size
      BY <1>0, <2>1, CountTop, CountInv
    <3>2. CASE o.size <= cache.size
      <4>1. TopOf(Admit(Count(cache, o), o), OnTop(o, placed))
        BY <2>1, <2>2, <3>1, <3>2, AdmitTop
      <4> QED BY <1>0, <1>2, <3>2, <4>1, PlacedTypes DEF RequestMissAdmit
    <3>3. CASE ~(o.size <= cache.size)
      <4>1. o.size > Count(cache, o).size
        BY <1>0, <2>1, <3>1, <3>3 DEF CacheInv, LRUCaches
      <4>2. Admit(Count(cache, o), o) = Count(cache, o)
        BY <4>1 DEF Admit
      <4> QED BY <1>2, <3>1, <3>3, <4>2 DEF RequestMissAdmit
    <3> QED BY <3>2, <3>3
  <2> QED BY <1>0, <1>2, <2>3, <2>4, <2>5, <2>6, ReadTypes
          DEF RequestMissAdmit, IInv, TypeOK, CacheInv
<1>3. ASSUME NEW o \in Requested, RequestMissReject(o)
      PROVE  IInv'
  <2>1. o \in Objects
    BY RequestedObjects
  <2>2. CacheInv(cache') /\ cache'.map = cache.map
    BY <1>0, <1>3, <2>1, CountInv DEF RequestMissReject
  <2>3. hits' \in 0..reqs' /\ hits_size' \in Nat /\ placed' \in Seq(Requested)
    BY <1>0, <1>3, ReadTypes DEF RequestMissReject, TypeOK
  <2>4. TopOf(cache', placed')
    BY <1>0, <1>3, CountTop DEF RequestMissReject
  <2> QED BY <1>0, <1>3, <2>2, <2>3, <2>4, ReadTypes
          DEF RequestMissReject, IInv, TypeOK, CacheInv
<1>4. ASSUME UNCHANGED vars PROVE IInv'
  BY <1>0, <1>4 DEF IInv, TypeOK, CacheInv, TopOf, vars, args, stats
<1> QED BY <1>1, <1>2, <1>3, <1>4, RequestedObjects DEF Next

\* The invariant holds in every state.
LEMMA Invariant == Spec => []IInv
BY InitIInv, NextIInv, PTL DEF Spec

\* The variables of the simulator keep their types, along every trace.
THEOREM TypeCorrect == Spec => []TypeOK
<1>1. IInv => TypeOK
  BY DEF IInv
<1> QED BY <1>1, Invariant, PTL

\* _currentSize is always the bytes of the cached objects and never above the
\* capacity.
THEOREM SizeAccountingCorrect == Spec => []SizeAccounting
<1>1. IInv => SizeAccounting
  BY DEF IInv, CacheInv, SizeAccounting
<1> QED BY <1>1, Invariant, PTL

\* _cacheMap is always the index of _cacheList, which repeats no object.
THEOREM IndexCorrect == Spec => []IndexAgrees
<1>1. IInv => IndexAgrees
  BY DEF IInv, CacheInv, IndexAgrees
<1> QED BY <1>1, Invariant, PTL

----------------------------------------------------------------------------
(***************************************************************************)
(* FilterCache counts what was requested, and only what passed the filter  *)
(* is cached.                                                              *)
(***************************************************************************)

FilterCounts ==
  \A o \in Requested : filter[o] = Cardinality(Occurrences(o))
FilterPassed ==
  \A o \in cache.map : filter[o] > NParam
FInv == cacheType = "Filter" => FilterCounts /\ FilterPassed

\* Reading one more object counts it, once, and no other.
LEMMA OccurrencesStep ==
  ASSUME trace \in Seq(Requested), NEW o \in Requested, NEW x \in Requested,
         trace' = Append(trace, o)
  PROVE  /\ Cardinality(Occurrences(x)) \in Nat
         /\ Cardinality(Occurrences(x)')
              = Cardinality(Occurrences(x)) + (IF x = o THEN 1 ELSE 0)
<1> DEFINE n == Len(trace)
           S == {i \in 1..n : trace[i] = x}
           T == {i \in 1..(n+1) : trace'[i] = x}
<1>1. n \in Nat /\ DOMAIN trace = 1..n /\ DOMAIN trace' = 1..(n+1)
  OBVIOUS
<1>2. Occurrences(x) = S /\ Occurrences(x)' = T
  BY <1>1 DEF Occurrences
<1>3. trace'[n+1] = o /\ \A i \in 1..n : trace'[i] = trace[i]
  OBVIOUS
<1>4. IsFiniteSet(S) /\ Cardinality(S) \in Nat
  <2>1. IsFiniteSet(1..n) /\ S \subseteq 1..n
    BY <1>1, FS_Interval
  <2> HIDE DEF S
  <2> QED BY <2>1, FS_Subset, FS_CardinalityType
<1>5. CASE x = o
  <2>1. T = S \cup {n+1} /\ n+1 \notin S
    BY <1>1, <1>3, <1>5
  <2> HIDE DEF S, T
  <2>2. Cardinality(T) = Cardinality(S) + 1
    BY <2>1, <1>4, FS_AddElement
  <2> QED BY <2>2, <1>2, <1>4, <1>5
<1>6. CASE x # o
  <2>1. T = S
    BY <1>1, <1>3, <1>6
  <2> HIDE DEF S, T
  <2> QED BY <2>1, <1>2, <1>4, <1>6
<1> QED BY <1>5, <1>6

\* The invariant of the filter holds initially.
LEMMA InitFInv == Init => FInv
<1> SUFFICES ASSUME Init PROVE FilterCounts /\ FilterPassed
  BY DEF FInv
<1>1. ASSUME NEW o \in Requested
      PROVE  filter[o] = Cardinality(Occurrences(o))
  <2>1. Occurrences(o) = {}
    BY DEF Init, Occurrences
  <2> QED BY <2>1, FS_EmptySet DEF Init
<1>2. cache.map = {}
  BY InitEmpty
<1> QED BY <1>1, <1>2 DEF FilterCounts, FilterPassed

\* Reading a line counts it in the filter.
LEMMA ReadCounts ==
  ASSUME TypeOK, FilterCounts, cacheType = "Filter",
         NEW o \in Requested, Read(o)
  PROVE  /\ FilterCounts'
         /\ \A x \in Requested : filter'[x] >= filter[x]
<1>1. trace \in Seq(Requested) /\ trace' = Append(trace, o)
  BY DEF TypeOK, Read
<1>2. filter \in [Requested -> Nat] /\ filter' = [filter EXCEPT ![o] = @ + 1]
  BY DEF TypeOK, Read
<1>3. ASSUME NEW x \in Requested
      PROVE  filter'[x] = Cardinality(Occurrences(x)')
  BY <1>1, <1>2, OccurrencesStep DEF FilterCounts
<1>4. \A x \in Requested : filter'[x] >= filter[x]
  BY <1>2
<1> QED BY <1>3, <1>4 DEF FilterCounts

\* Every action keeps the invariant of the filter.
LEMMA NextFInv == IInv /\ FInv /\ [Next]_vars => FInv'
<1> SUFFICES ASSUME IInv, FInv, [Next]_vars PROVE FInv'
  OBVIOUS
<1>0. TypeOK /\ CacheInv(cache) /\ cache.map \subseteq Requested
  BY DEF IInv
<1>1. ASSUME NEW o \in Requested, RequestHit(o) PROVE FInv'
  <2> SUFFICES ASSUME cacheType' = "Filter" PROVE FilterCounts' /\ FilterPassed'
    BY DEF FInv
  <2>1. cacheType = "Filter" /\ Read(o) /\ FilterCounts /\ FilterPassed
    BY <1>1 DEF RequestHit, Read, args, FInv
  <2>2. FilterCounts' /\ \A x \in Requested : filter'[x] >= filter[x]
    BY <1>0, <2>1, ReadCounts
  <2>3. cache'.map = cache.map
    <3>1. o \in Objects /\ o \in cache.map
      BY <1>1, RequestedObjects DEF RequestHit, IsHit
    <3>2. CacheInv(Count(cache, o)) /\ Count(cache, o).map = cache.map
      BY <1>0, <3>1, CountInv
    <3> QED BY <1>1, <3>1, <3>2, HitInv DEF RequestHit, HitCache
  <2>4. FilterPassed'
    <3> SUFFICES ASSUME NEW x \in cache.map PROVE filter'[x] > NParam
      BY <2>3 DEF FilterPassed
    <3>1. filter[x] \in Nat /\ filter'[x] \in Nat /\ NParam \in Nat
      BY <1>0, <1>1, ReadTypes DEF TypeOK, RequestHit
    <3> QED BY <1>0, <2>1, <2>2, <3>1 DEF FilterPassed
  <2> QED BY <2>2, <2>4
<1>2. ASSUME NEW o \in Requested, RequestMissAdmit(o) PROVE FInv'
  <2> SUFFICES ASSUME cacheType' = "Filter" PROVE FilterCounts' /\ FilterPassed'
    BY DEF FInv
  <2>1. cacheType = "Filter" /\ Read(o) /\ FilterCounts /\ FilterPassed
    BY <1>2 DEF RequestMissAdmit, Read, args, FInv
  <2>2. FilterCounts' /\ \A x \in Requested : filter'[x] >= filter[x]
    BY <1>0, <2>1, ReadCounts
  <2>3. cache'.map \subseteq cache.map \cup {o}
    <3>1. o \in Objects /\ o \notin cache.map
      BY <1>2, RequestedObjects DEF RequestMissAdmit, IsHit
    <3>2. CacheInv(Count(cache, o)) /\ Count(cache, o).map = cache.map
      BY <1>0, <3>1, CountInv
    <3> QED BY <1>2, <3>1, <3>2, AdmitInv DEF RequestMissAdmit
  <2>4. filter'[o] > NParam
    <3>1. TRUE \in {FilterPasses(o)}
      BY <1>2, <2>1 DEF RequestMissAdmit, Admits
    <3> QED BY <3>1 DEF FilterPasses
  <2>5. FilterPassed'
    <3> SUFFICES ASSUME NEW x \in cache.map PROVE filter'[x] > NParam
      BY <2>3, <2>4 DEF FilterPassed
    <3>1. filter[x] \in Nat /\ filter'[x] \in Nat /\ NParam \in Nat
      BY <1>0, <1>2, ReadTypes DEF TypeOK, RequestMissAdmit
    <3> QED BY <1>0, <2>1, <2>2, <3>1 DEF FilterPassed
  <2> QED BY <2>2, <2>5
<1>3. ASSUME NEW o \in Requested, RequestMissReject(o) PROVE FInv'
  <2> SUFFICES ASSUME cacheType' = "Filter" PROVE FilterCounts' /\ FilterPassed'
    BY DEF FInv
  <2>1. cacheType = "Filter" /\ Read(o) /\ FilterCounts /\ FilterPassed
    BY <1>3 DEF RequestMissReject, Read, args, FInv
  <2>2. FilterCounts' /\ \A x \in Requested : filter'[x] >= filter[x]
    BY <1>0, <2>1, ReadCounts
  <2>3. cache'.map = cache.map
    BY <1>0, <1>3, RequestedObjects, CountInv DEF RequestMissReject
  <2>4. FilterPassed'
    <3> SUFFICES ASSUME NEW x \in cache.map PROVE filter'[x] > NParam
      BY <2>3 DEF FilterPassed
    <3>1. filter[x] \in Nat /\ filter'[x] \in Nat /\ NParam \in Nat
      BY <1>0, <1>3, ReadTypes DEF TypeOK, RequestMissReject
    <3> QED BY <1>0, <2>1, <2>2, <3>1 DEF FilterPassed
  <2> QED BY <2>2, <2>4
<1>4. ASSUME UNCHANGED vars PROVE FInv'
  BY <1>4 DEF FInv, FilterCounts, FilterPassed, Occurrences, vars, args, stats
<1> QED BY <1>1, <1>2, <1>3, <1>4, RequestedObjects DEF Next

\* FilterCache admits an object only after more than n requests for it.
THEOREM FilterCorrect == Spec => []FilterAdmission
<1>1. IInv /\ FInv => FilterAdmission
  BY DEF IInv, FInv, FilterCounts, FilterPassed, FilterAdmission
<1> QED BY <1>1, Invariant, InitFInv, NextFInv, PTL DEF Spec

----------------------------------------------------------------------------
(***************************************************************************)
(* The simulator implements the stack model.                               *)
(***************************************************************************)

\* What is cached is what the stack has in reach, and what is placed is
\* placed on top of it.
LEMMA StackResident ==
  ASSUME IInv
  PROVE  /\ Stack!Resident(placed, cache.size) = cache.map
         /\ \A o : Stack!OnTop(o, placed) = PlacedFirst(o)
<1>1. Resident(placed, cache.size) = cache.map
  BY TopResident DEF IInv
<1>2. Stack!Resident(placed, cache.size) = Resident(placed, cache.size)
  BY DEF Stack!Resident, Resident, Stack!Depths, Depths
<1>3. \A o : Stack!OnTop(o, placed) = PlacedFirst(o)
  BY DEF Stack!OnTop, PlacedFirst, Stack!RemoveFirst, RemoveFirst,
         Stack!RemoveAt, RemoveAt, Stack!SelectInSeq, SelectInSeq, Stack!Min, Min
<1> QED BY <1>1, <1>2, <1>3

\* A line read is one more request of the model, for a cache that stays what
\* it is; the rest of a step of the model is what it does with the request.
LEMMA ReadStack ==
  ASSUME IInv, NEW o \in Requested, Read(o), cache'.size = cache.size,
         LET m == [stack |-> placed, requests |-> trace,
                   hits |-> hits, hitBytes |-> hits_size]
         IN  \/ Stack!ModelHit(m, m', o, cache.size, cacheType # "FIFO")
             \/ Stack!ModelMiss(m, m', o, cache.size,
                                cacheType \in {"LRU", "FIFO"})
  PROVE  Stack!Next
<1>1. /\ trace \in Seq(Requested) /\ trace' = Append(trace, o)
      /\ UNCHANGED cacheType
  BY DEF IInv, TypeOK, Read, args
<1>2. /\ trace' \in Seq(Requested) /\ Len(trace') = Len(trace) + 1
      /\ Len(trace) \in Nat /\ trace'[Len(trace) + 1] = o
  BY <1>1, AppendProperties
<1>3. Stack!Last(trace') = o /\ Len(trace') > Len(trace)
  BY <1>2 DEF Stack!Last
<1> QED BY <1>1, <1>3 DEF Stack!Next, Stack!Serves

\* Each turn of the loop is a step of the model.
LEMMA StackStep == IInv /\ [Next]_vars => [Stack!Next]_(Stack!vars)
<1> SUFFICES ASSUME IInv, [Next]_vars PROVE [Stack!Next]_(Stack!vars)
  OBVIOUS
<1>0. TypeOK /\ CacheInv(cache)
  BY DEF IInv
<1>1. ASSUME NEW o \in Requested, RequestHit(o) PROVE Stack!Next
  <2>1. o \in Objects /\ o \in cache.map
    BY <1>1, RequestedObjects DEF RequestHit, IsHit
  <2>2. cache'.size = cache.size
    BY <1>0, <1>1, <2>1, CountInv, HitInv DEF RequestHit, HitCache
  <2> QED BY <1>1, <2>1, <2>2, StackResident, ReadStack
          DEF Stack!ModelHit, RequestHit
<1>2. ASSUME NEW o \in Requested, RequestMissAdmit(o) PROVE Stack!Next
  <2>1. o \in Objects /\ o \notin cache.map /\ o.size \in Nat /\ cache.size \in Nat
    BY <1>0, <1>2, RequestedObjects
       DEF RequestMissAdmit, IsHit, CacheInv, LRUCaches
  <2>2. cache'.size = cache.size
    BY <1>0, <1>2, <2>1, CountInv, AdmitInv DEF RequestMissAdmit
  <2> QED BY <1>2, <2>1, <2>2, StackResident, ReadStack
          DEF Stack!ModelMiss, RequestMissAdmit
<1>3. ASSUME NEW o \in Requested, RequestMissReject(o) PROVE Stack!Next
  <2>1. o \in Objects /\ o \notin cache.map
    BY <1>3, RequestedObjects DEF RequestMissReject, IsHit
  <2>2. cache'.size = cache.size
    BY <1>0, <1>3, <2>1, CountInv DEF RequestMissReject
  <2>3. cacheType \notin {"LRU", "FIFO"}
    BY <1>3 DEF RequestMissReject, Admits
  <2> QED BY <1>3, <2>1, <2>2, <2>3, StackResident, ReadStack
          DEF Stack!ModelMiss, RequestMissReject
<1>4. ASSUME UNCHANGED vars PROVE UNCHANGED Stack!vars
  BY <1>4 DEF vars, args, stats, Stack!vars
<1> QED BY <1>1, <1>2, <1>3, <1>4, RequestedObjects DEF Next

\* LRU and FIFO, and their kin among the objects they let in, hit and evict
\* exactly as the stack model says, along every trace and whatever the sizes:
\* no more is evicted than must be, and always the object placed longest ago.
THEOREM StackImplemented == Spec => ImplementsStack
<1>1. Init => Stack!Init
  BY DEF Init, Stack!Init, Stack!NewModel
<1> QED BY <1>1, StackStep, Invariant, PTL DEF Spec, ImplementsStack, Stack!Spec

----------------------------------------------------------------------------
(***************************************************************************)
(* trace_clean.  What the loop has counted and written after k lines of a  *)
(* trace t with threshold th.                                              *)
(***************************************************************************)

\* The requests among the first k that are for a file.
Earlier(t, k, id) == {j \in 1..k : t[j].id = id}

\* The lines of the trace read.
Rows == [time : Int, id : Ids, size : Nat]

\* A line as it is written.
Rewritten(t, i) == Written(t[i], FirstSize(t, t[i].id))

CountersUpto(c, t, k) ==
  /\ \A id : id \in DOMAIN c <=> Earlier(t, k, id) # {}
  /\ \A id \in DOMAIN c : /\ c[id].count = Cardinality(Earlier(t, k, id))
                          /\ c[id].size = FirstSize(t, id)

KeptUpto(t, th, k) == Kept(t, th) \cap 1..k

OutputUpto(out, t, th, k) ==
  /\ Len(out) = Cardinality(KeptUpto(t, th, k))
  /\ \A i \in KeptUpto(t, th, k) :
       out[Cardinality(KeptUpto(t, th, i))] = Rewritten(t, i)
  /\ \A j \in 1..Len(out) : \E i \in KeptUpto(t, th, k) : out[j] = Rewritten(t, i)

Counters == UNION {[D -> [count : Nat, size : Nat]] : D \in SUBSET Ids}
CleanStates == [counter : Counters, output : Seq(Objects)]

\* One turn of the loop.
Seen(state, line, th) ==
  IF line.id \in DOMAIN state.counter THEN OnceSeen(state, line, th)
  ELSE FirstSeen(state, line, th)

\* One more line is one more request for its file.
LEMMA EarlierStep ==
  ASSUME NEW t \in Seq(Rows), NEW k \in 1..Len(t), NEW id
  PROVE  /\ IsFiniteSet(Earlier(t, k, id)) /\ Cardinality(Earlier(t, k, id)) \in Nat
         /\ Cardinality(Earlier(t, k - 1, id)) \in Nat
         /\ t[k].id # id => Earlier(t, k, id) = Earlier(t, k - 1, id)
         /\ t[k].id = id =>
              /\ Earlier(t, k, id) = Earlier(t, k - 1, id) \cup {k}
              /\ Cardinality(Earlier(t, k, id))
                   = Cardinality(Earlier(t, k - 1, id)) + 1
<1>1. Len(t) \in Nat /\ k \in Nat /\ k - 1 \in Nat
  OBVIOUS
<1>2. \A n \in Nat : /\ IsFiniteSet(Earlier(t, n, id))
                     /\ Cardinality(Earlier(t, n, id)) \in Nat
  <2> SUFFICES ASSUME NEW n \in Nat
               PROVE  /\ IsFiniteSet(Earlier(t, n, id))
                      /\ Cardinality(Earlier(t, n, id)) \in Nat
    OBVIOUS
  <2>1. IsFiniteSet(1..n) /\ Earlier(t, n, id) \subseteq 1..n
    BY CardInterval DEF Earlier
  <2> QED BY <2>1, FS_Subset, FS_CardinalityType
<1>3. ASSUME t[k].id # id PROVE Earlier(t, k, id) = Earlier(t, k - 1, id)
  <2>1. \A j : j \in 1..k <=> j \in 1..(k - 1) \/ j = k
    BY <1>1
  <2> QED BY <1>3, <2>1 DEF Earlier
<1>4. ASSUME t[k].id = id
      PROVE  /\ Earlier(t, k, id) = Earlier(t, k - 1, id) \cup {k}
             /\ Cardinality(Earlier(t, k, id))
                  = Cardinality(Earlier(t, k - 1, id)) + 1
  <2>1. \A j : j \in 1..k <=> j \in 1..(k - 1) \/ j = k
    BY <1>1
  <2>2. Earlier(t, k, id) = Earlier(t, k - 1, id) \cup {k}
    BY <1>4, <2>1 DEF Earlier
  <2>3. k \notin 1..(k - 1)
    BY <1>1
  <2>4. k \notin Earlier(t, k - 1, id)
    BY <2>3 DEF Earlier
  <2>5. IsFiniteSet(Earlier(t, k - 1, id))
    BY <1>1, <1>2
  <2> QED BY <2>2, <2>4, <2>5, FS_AddElement
<1>5. IsFiniteSet(Earlier(t, k, id)) /\ Cardinality(Earlier(t, k, id)) \in Nat
  BY <1>1, <1>2
<1>6. Cardinality(Earlier(t, k - 1, id)) \in Nat
  BY <1>1, <1>2
<1> QED BY <1>3, <1>4, <1>5, <1>6

\* The first request of a file decides the size of all.
LEMMA FirstSizeIs ==
  ASSUME NEW t \in Seq(Rows), NEW k \in 1..Len(t),
         Earlier(t, k - 1, t[k].id) = {}
  PROVE  Rank(t, k) = 1 /\ FirstSize(t, t[k].id) = t[k].size
<1> DEFINE id == t[k].id
           IsFirst(i) == t[i].id = id /\ Rank(t, i) = 1
           f == CHOOSE i \in DOMAIN t : IsFirst(i)
<1>1. DOMAIN t = 1..Len(t) /\ Len(t) \in Nat
  OBVIOUS
<1>2. \A i \in 1..Len(t) : t[i].id = id => Rank(t, i) = Cardinality(Earlier(t, i, id))
  BY DEF Rank, Earlier
<1>3. IsFirst(k)
  <2>1. Earlier(t, k, id) = Earlier(t, k - 1, id) \cup {k}
    BY EarlierStep
  <2>2. Earlier(t, k, id) = {k}
    BY <2>1
  <2> QED BY <1>2, <2>2, FS_Singleton
<1>4. f \in 1..Len(t) /\ IsFirst(f)
  <2> HIDE DEF IsFirst
  <2> QED BY <1>1, <1>3
<1>5. f = k
  <2>1. f \in Earlier(t, f, id) /\ f \in Nat /\ k \in Nat
    BY <1>4 DEF Earlier
  <2>2. ~(f < k)
    <3>1. f < k => f \in Earlier(t, k - 1, id)
      BY <1>4, <2>1 DEF Earlier
    <3> QED BY <3>1
  <2>3. ASSUME k < f PROVE FALSE
    <3>1. k \in Earlier(t, f, id)
      BY <2>1, <2>3 DEF Earlier
    <3>2. IsFiniteSet(Earlier(t, f, id)) /\ Cardinality(Earlier(t, f, id)) = 1
      <4>1. Cardinality(Earlier(t, f, id)) = 1
        BY <1>2, <1>4
      <4> QED BY <1>4, <4>1, EarlierStep
    <3>3. /\ Cardinality(Earlier(t, f, id) \ {k}) = 0
          /\ IsFiniteSet(Earlier(t, f, id) \ {k})
      BY <3>1, <3>2, FS_RemoveElement
    <3>4. Earlier(t, f, id) \ {k} = {}
      BY <3>3, FS_EmptySet
    <3> QED BY <2>1, <2>3, <3>4
  <2> HIDE DEF f, IsFirst
  <2> QED BY <2>1, <2>2, <2>3
<1>6. FirstSize(t, id) = t[f].size
  BY DEF FirstSize
<1> HIDE DEF f
<1> QED BY <1>3, <1>5, <1>6

\* The requests kept up to the next one.
LEMMA KeptStep ==
  ASSUME NEW t \in Seq(Rows), NEW k \in 1..Len(t), NEW th \in Nat
  PROVE  /\ IsFiniteSet(KeptUpto(t, th, k - 1))
         /\ Cardinality(KeptUpto(t, th, k - 1)) \in Nat
         /\ k \notin Kept(t, th) => KeptUpto(t, th, k) = KeptUpto(t, th, k - 1)
         /\ k \in Kept(t, th) =>
              /\ KeptUpto(t, th, k) = KeptUpto(t, th, k - 1) \cup {k}
              /\ Cardinality(KeptUpto(t, th, k))
                   = Cardinality(KeptUpto(t, th, k - 1)) + 1
<1>1. k \in Nat /\ k - 1 \in Nat /\ k \notin 1..(k - 1)
  OBVIOUS
<1>2. IsFiniteSet(1..(k - 1)) /\ KeptUpto(t, th, k - 1) \subseteq 1..(k - 1)
  BY <1>1, CardInterval DEF KeptUpto
<1>3. /\ IsFiniteSet(KeptUpto(t, th, k - 1))
      /\ Cardinality(KeptUpto(t, th, k - 1)) \in Nat
  BY <1>2, FS_Subset, FS_CardinalityType
<1>4. \A j : j \in 1..k <=> j \in 1..(k - 1) \/ j = k
  BY <1>1
<1>5. k \notin Kept(t, th) => KeptUpto(t, th, k) = KeptUpto(t, th, k - 1)
  BY <1>4 DEF KeptUpto
<1>6. k \in Kept(t, th) => KeptUpto(t, th, k) = KeptUpto(t, th, k - 1) \cup {k}
  BY <1>4 DEF KeptUpto
<1>7. k \notin KeptUpto(t, th, k - 1)
  BY <1>1, <1>2
<1>8. k \in Kept(t, th) => Cardinality(KeptUpto(t, th, k))
                             = Cardinality(KeptUpto(t, th, k - 1)) + 1
  BY <1>3, <1>6, <1>7, FS_AddElement
<1> QED BY <1>3, <1>5, <1>6, <1>8

\* Every request kept has a place in the output.
LEMMA KeptPlace ==
  ASSUME NEW t \in Seq(Rows), NEW th \in Nat, NEW k \in Nat,
         NEW i \in KeptUpto(t, th, k)
  PROVE  Cardinality(KeptUpto(t, th, i)) \in 1..Cardinality(KeptUpto(t, th, k))
<1> DEFINE some == KeptUpto(t, th, i)
           all  == KeptUpto(t, th, k)
<1>1. i \in 1..k /\ i \in Kept(t, th) /\ i \in Nat
  BY DEF KeptUpto
<1>2. some \subseteq all /\ i \in some
  <2>1. i \in 1..i /\ \A j \in 1..i : j \in 1..k
    BY <1>1
  <2> QED BY <1>1, <2>1 DEF KeptUpto
<1>3. IsFiniteSet(all)
  <2>1. IsFiniteSet(1..k) /\ all \subseteq 1..k
    BY CardInterval DEF KeptUpto
  <2> QED BY <2>1, FS_Subset
<1> HIDE DEF some, all
<1>4. /\ IsFiniteSet(some) /\ Cardinality(some) <= Cardinality(all)
      /\ Cardinality(some) \in Nat /\ Cardinality(all) \in Nat
  BY <1>2, <1>3, FS_Subset, FS_CardinalityType
<1>5. Cardinality(some) # 0
  BY <1>2, <1>4, FS_EmptySet
<1>6. Cardinality(some) \in 1..Cardinality(all)
  BY <1>4, <1>5
<1> QED BY <1>6 DEF some, all

\* What is written of a line is an object.
LEMMA WrittenObject ==
  ASSUME NEW line \in Rows, NEW s \in Nat
  PROVE  Written(line, s) \in Objects
BY DEF Written, Rows, Objects

\* A line written is the next one kept; a line not written is not kept.
LEMMA OutputStep ==
  ASSUME NEW t \in Seq(Rows), NEW k \in 1..Len(t), NEW th \in Nat,
         NEW out \in Seq(Objects), OutputUpto(out, t, th, k - 1),
         FirstSize(t, t[k].id) \in Nat,
         NEW new, new = IF k \in Kept(t, th) THEN Append(out, Rewritten(t, k))
                        ELSE out
  PROVE  new \in Seq(Objects) /\ OutputUpto(new, t, th, k)
<1>1. CASE k \notin Kept(t, th)
  <2>1. new = out /\ KeptUpto(t, th, k) = KeptUpto(t, th, k - 1)
    BY <1>1, KeptStep
  <2> QED BY <2>1 DEF OutputUpto
<1>2. CASE k \in Kept(t, th)
  <2> DEFINE x == Rewritten(t, k)
             before == KeptUpto(t, th, k - 1)
             n == Len(out)
  <2>1. x \in Objects
    <3>1. t[k] \in Rows
      OBVIOUS
    <3> QED BY <3>1, WrittenObject DEF Rewritten
  <2>2. /\ n \in Nat /\ n = Cardinality(before)
        /\ KeptUpto(t, th, k) = before \cup {k}
        /\ Cardinality(KeptUpto(t, th, k)) = n + 1
    <3>1. n = Cardinality(before)
      BY DEF OutputUpto
    <3> QED BY <1>2, <3>1, KeptStep
  <2>3. new = Append(out, x)
    BY <1>2
  <2> HIDE DEF x, n
  <2>4. /\ new \in Seq(Objects) /\ Len(new) = n + 1 /\ new[n + 1] = x
        /\ \A j \in 1..n : new[j] = out[j]
    BY <2>1, <2>3 DEF n
  <2>5. ASSUME NEW i \in KeptUpto(t, th, k)
        PROVE  new[Cardinality(KeptUpto(t, th, i))] = Rewritten(t, i)
    <3>1. CASE i = k
      BY <2>2, <2>4, <3>1 DEF x
    <3>2. CASE i \in before
      <4> DEFINE c == Cardinality(KeptUpto(t, th, i))
      <4>1. out[c] = Rewritten(t, i)
        BY <3>2 DEF OutputUpto
      <4>2. c \in 1..n
        <5>1. k - 1 \in Nat
          OBVIOUS
        <5> QED BY <2>2, <3>2, <5>1, KeptPlace
      <4> QED BY <2>4, <4>1, <4>2
    <3> QED BY <2>2, <3>1, <3>2
  <2>6. ASSUME NEW j \in 1..Len(new)
        PROVE  \E i \in KeptUpto(t, th, k) : new[j] = Rewritten(t, i)
    <3>1. CASE j = n + 1
      BY <2>2, <2>4, <3>1 DEF x
    <3>2. CASE j \in 1..n
      <4>1. \E i \in before : out[j] = Rewritten(t, i)
        BY <3>2 DEF OutputUpto, n
      <4> QED BY <2>2, <2>4, <3>2, <4>1
    <3> QED BY <2>2, <2>4, <3>1, <3>2
  <2>7. Len(new) = Cardinality(KeptUpto(t, th, k))
    BY <2>2, <2>4
  <2> QED BY <2>4, <2>5, <2>6, <2>7 DEF OutputUpto
<1> QED BY <1>1, <1>2

\* The fields of what one turn leaves, for a file seen before ...
LEMMA OnceSeenFields ==
  ASSUME NEW state \in CleanStates, NEW line \in Rows, NEW th \in Nat,
         NEW c, c = state.counter, line.id \in DOMAIN c,
         NEW seen, seen = Seen(state, line, th)
  PROVE  /\ seen \in CleanStates /\ DOMAIN seen.counter = DOMAIN c
         /\ c[line.id].size \in Nat
         /\ seen.counter[line.id].count = c[line.id].count + 1
         /\ seen.counter[line.id].size = c[line.id].size
         /\ \A id \in DOMAIN c : id # line.id => seen.counter[id] = c[id]
         /\ seen.output = IF c[line.id].count + 1 >= th
                          THEN Append(state.output, Written(line, c[line.id].size))
                          ELSE state.output
<1> DEFINE Entry == [count : Nat, size : Nat]
           new == Written(line, c[line.id].size)
           d == [c EXCEPT ![line.id].count = c[line.id].count + 1]
           out == IF c[line.id].count + 1 >= th THEN Append(state.output, new)
                  ELSE state.output
<1>0. /\ c \in Counters /\ state.output \in Seq(Objects)
      /\ line.id \in Ids /\ line.size \in Nat
  BY DEF CleanStates, Rows
<1>1. PICK D \in SUBSET Ids : c \in [D -> Entry]
  BY <1>0 DEF Counters
<1>2. DOMAIN c = D /\ line.id \in D
  BY <1>1
<1>3. c[line.id] \in Entry /\ c[line.id].size \in Nat /\ c[line.id].count \in Nat
  BY <1>1, <1>2
<1>4. new \in Objects
  BY <1>3, WrittenObject
<1>5. /\ d \in [D -> Entry] /\ d[line.id].count = c[line.id].count + 1
      /\ d[line.id].size = c[line.id].size
      /\ \A id \in D : id # line.id => d[id] = c[id]
  BY <1>1, <1>2, <1>3
<1>6. seen = [counter |-> d, output |-> out]
  BY DEF Seen, OnceSeen
<1>7. out \in Seq(Objects)
  <2> HIDE DEF new
  <2> QED BY <1>0, <1>4
<1> HIDE DEF d, new, out
<1>8. d \in Counters /\ DOMAIN d = D
  BY <1>5 DEF Counters
<1>9. seen \in CleanStates /\ seen.counter = d /\ seen.output = out
  BY <1>6, <1>7, <1>8 DEF CleanStates
<1> QED BY <1>2, <1>3, <1>5, <1>8, <1>9 DEF out, new

\* ... and for a new one.
LEMMA FirstSeenFields ==
  ASSUME NEW state \in CleanStates, NEW line \in Rows, NEW th \in Nat,
         NEW c, c = state.counter, line.id \notin DOMAIN c,
         NEW seen, seen = Seen(state, line, th)
  PROVE  /\ seen \in CleanStates
         /\ DOMAIN seen.counter = DOMAIN c \cup {line.id}
         /\ seen.counter[line.id].count = 1
         /\ seen.counter[line.id].size = line.size
         /\ \A id \in DOMAIN c : id # line.id => seen.counter[id] = c[id]
         /\ seen.output = IF th = 0 THEN Append(state.output, Written(line, line.size))
                          ELSE state.output
<1> DEFINE Entry == [count : Nat, size : Nat]
           one == [count |-> 1, size |-> line.size]
           new == Written(line, line.size)
           out == IF th = 0 THEN Append(state.output, new) ELSE state.output
<1>0. /\ c \in Counters /\ state.output \in Seq(Objects)
      /\ line.id \in Ids /\ line.size \in Nat
  BY DEF CleanStates, Rows
<1>1. PICK D \in SUBSET Ids : c \in [D -> Entry]
  BY <1>0 DEF Counters
<1> DEFINE d == [id \in D \cup {line.id} |-> IF id = line.id THEN one ELSE c[id]]
<1>2. DOMAIN c = D /\ line.id \notin D
  BY <1>1
<1>3. one \in Entry /\ one.count = 1 /\ one.size = line.size
  BY <1>0
<1>4. seen = [counter |-> d, output |-> out]
  BY <1>2 DEF Seen, FirstSeen
<1> HIDE DEF one
<1>5. /\ d \in [D \cup {line.id} -> Entry] /\ d[line.id] = one
      /\ \A id \in D : id # line.id => d[id] = c[id]
  BY <1>1, <1>2, <1>3
<1>6. out \in Seq(Objects)
  <2>1. new \in Objects
    BY <1>0, WrittenObject
  <2> HIDE DEF new
  <2> QED BY <1>0, <2>1
<1> HIDE DEF d, out, new
<1>7. d \in Counters /\ DOMAIN d = D \cup {line.id}
  <2> DEFINE E == D \cup {line.id}
  <2>1. E \in SUBSET Ids
    BY <1>0
  <2>2. d \in [E -> Entry] /\ DOMAIN d = E
    BY <1>5
  <2> HIDE DEF E, Entry
  <2>3. d \in UNION {[F -> Entry] : F \in SUBSET Ids}
    BY <2>1, <2>2
  <2> QED BY <2>2, <2>3 DEF Counters, Entry, E
<1>8. seen \in CleanStates /\ seen.counter = d /\ seen.output = out
  BY <1>4, <1>6, <1>7 DEF CleanStates
<1> QED BY <1>2, <1>3, <1>5, <1>7, <1>8 DEF out, new

\* One turn of the loop counts the line, and writes it if it is kept.
LEMMA SeenUpto ==
  ASSUME NEW t \in Seq(Rows), NEW k \in 1..Len(t), NEW th \in Nat,
         NEW state \in CleanStates, CountersUpto(state.counter, t, k - 1),
         OutputUpto(state.output, t, th, k - 1),
         NEW seen, seen = Seen(state, t[k], th)
  PROVE  /\ seen \in CleanStates
         /\ CountersUpto(seen.counter, t, k) /\ OutputUpto(seen.output, t, th, k)
<1>0. PICK line : line = t[k]
  OBVIOUS
<1>1. PICK c : c = state.counter
  OBVIOUS
<1> DEFINE before == Earlier(t, k - 1, line.id)
<1>2. line \in Rows
  BY <1>0
<1>3. /\ k \in DOMAIN t /\ line.size \in Nat /\ state.output \in Seq(Objects)
  BY <1>2 DEF Rows, CleanStates
<1>4. /\ \A id : id \in DOMAIN c <=> Earlier(t, k - 1, id) # {}
      /\ \A id \in DOMAIN c : c[id].count = Cardinality(Earlier(t, k - 1, id))
      /\ \A id \in DOMAIN c : c[id].size = FirstSize(t, id)
  BY <1>1 DEF CountersUpto
<1>5. \A id : /\ Cardinality(Earlier(t, k - 1, id)) \in Nat
              /\ id # line.id => Earlier(t, k, id) = Earlier(t, k - 1, id)
  BY <1>0, EarlierStep
<1>6. /\ Earlier(t, k, line.id) = before \cup {k}
      /\ Cardinality(Earlier(t, k, line.id)) = Cardinality(before) + 1
      /\ Cardinality(before) \in Nat
  BY <1>0, EarlierStep
<1>7. Rank(t, k) = Cardinality(before) + 1
  <2>1. Rank(t, k) = Cardinality(Earlier(t, k, line.id))
    BY <1>0 DEF Rank, Earlier
  <2> QED BY <1>6, <2>1
<1>8. k \in Kept(t, th) <=> th = 0 \/ (Rank(t, k) >= 2 /\ Rank(t, k) >= th)
  BY <1>3 DEF Kept
<1>9. ASSUME /\ DOMAIN seen.counter = DOMAIN c \cup {line.id}
             /\ seen.counter[line.id].count = Cardinality(before) + 1
             /\ seen.counter[line.id].size = FirstSize(t, line.id)
             /\ \A id \in DOMAIN c : id # line.id => seen.counter[id] = c[id]
             /\ FirstSize(t, line.id) \in Nat
             /\ seen.output = IF k \in Kept(t, th)
                              THEN Append(state.output, Rewritten(t, k))
                              ELSE state.output
      PROVE  CountersUpto(seen.counter, t, k) /\ OutputUpto(seen.output, t, th, k)
  <2> HIDE DEF before
  <2>1. \A id : id \in DOMAIN seen.counter <=> Earlier(t, k, id) # {}
    BY <1>4, <1>5, <1>6, <1>9
  <2>2. ASSUME NEW id \in DOMAIN seen.counter
        PROVE  /\ seen.counter[id].count = Cardinality(Earlier(t, k, id))
               /\ seen.counter[id].size = FirstSize(t, id)
    <3>1. CASE id = line.id
      <4>1. seen.counter[id].count = Cardinality(before) + 1
        BY <1>9, <3>1
      <4>2. seen.counter[id].size = FirstSize(t, id)
        BY <1>9, <3>1
      <4> QED BY <1>6, <3>1, <4>1, <4>2
    <3>2. CASE id # line.id
      <4>1. /\ id \in DOMAIN c /\ seen.counter[id] = c[id]
            /\ Earlier(t, k, id) = Earlier(t, k - 1, id)
        BY <1>5, <1>9, <2>2, <3>2
      <4> QED BY <1>4, <4>1
    <3> QED BY <3>1, <3>2
  <2>3. CountersUpto(seen.counter, t, k)
    BY <2>1, <2>2 DEF CountersUpto
  <2>4. FirstSize(t, t[k].id) \in Nat
    BY <1>0, <1>9
  <2>5. seen.output = IF k \in Kept(t, th)
                      THEN Append(state.output, Rewritten(t, k))
                      ELSE state.output
    BY <1>9
  <2>6. OutputUpto(seen.output, t, th, k)
    BY <1>3, <2>4, <2>5, OutputStep
  <2> QED BY <2>3, <2>6
<1>10. CASE line.id \in DOMAIN c
  <2>1. seen = Seen(state, line, th)
    BY <1>0
  <2>2. /\ seen \in CleanStates /\ DOMAIN seen.counter = DOMAIN c
        /\ c[line.id].size \in Nat
        /\ seen.counter[line.id].count = c[line.id].count + 1
        /\ seen.counter[line.id].size = c[line.id].size
        /\ \A id \in DOMAIN c : id # line.id => seen.counter[id] = c[id]
        /\ seen.output = IF c[line.id].count + 1 >= th
                         THEN Append(state.output, Written(line, c[line.id].size))
                         ELSE state.output
    BY <1>1, <1>2, <1>10, <2>1, OnceSeenFields
  <2>3. c[line.id].count = Cardinality(before) /\ c[line.id].size = FirstSize(t, line.id)
    BY <1>4, <1>10
  <2>4. Cardinality(before) # 0
    <3>1. before # {}
      BY <1>4, <1>10
    <3>2. IsFiniteSet(before)
      <4>1. IsFiniteSet(Earlier(t, k, line.id))
        BY EarlierStep
      <4> HIDE DEF before
      <4>2. before \subseteq Earlier(t, k, line.id)
        BY <1>6
      <4> QED BY <4>1, <4>2, FS_Subset
    <3> HIDE DEF before
    <3> QED BY <3>1, <3>2, FS_EmptySet
  <2> HIDE DEF before
  <2>5. k \in Kept(t, th) <=> c[line.id].count + 1 >= th
    BY <1>6, <1>7, <1>8, <2>3, <2>4
  <2>6. Rewritten(t, k) = Written(line, c[line.id].size)
    BY <1>0, <2>3 DEF Rewritten
  <2>7. DOMAIN seen.counter = DOMAIN c \cup {line.id}
    BY <1>10, <2>2
  <2>8. seen.output = IF k \in Kept(t, th)
                      THEN Append(state.output, Rewritten(t, k))
                      ELSE state.output
    BY <2>2, <2>5, <2>6
  <2> QED BY <1>9, <2>2, <2>3, <2>7, <2>8
<1>11. CASE line.id \notin DOMAIN c
  <2>1. seen = Seen(state, line, th)
    BY <1>0
  <2>2. /\ seen \in CleanStates
        /\ DOMAIN seen.counter = DOMAIN c \cup {line.id}
        /\ seen.counter[line.id].count = 1
        /\ seen.counter[line.id].size = line.size
        /\ \A id \in DOMAIN c : id # line.id => seen.counter[id] = c[id]
        /\ seen.output = IF th = 0 THEN Append(state.output, Written(line, line.size))
                         ELSE state.output
    BY <1>1, <1>2, <1>11, <2>1, FirstSeenFields
  <2>3. before = {}
    BY <1>4, <1>11
  <2>4. Rank(t, k) = 1 /\ FirstSize(t, line.id) = line.size
    BY <1>0, <2>3, FirstSizeIs
  <2>5. Rewritten(t, k) = Written(line, line.size)
    BY <1>0, <2>4 DEF Rewritten
  <2>6. k \in Kept(t, th) <=> th = 0
    BY <1>8, <2>4
  <2>7. Cardinality(before) + 1 = 1
    <3> HIDE DEF before
    <3>1. Cardinality({}) = 0
      BY FS_EmptySet
    <3>2. Cardinality(before) = 0
      BY <2>3, <3>1, Zenon
    <3> QED BY <3>2
  <2>8. seen.output = IF k \in Kept(t, th)
                      THEN Append(state.output, Rewritten(t, k))
                      ELSE state.output
    BY <2>2, <2>5, <2>6
  <2>9. FirstSize(t, line.id) \in Nat
    BY <1>3, <2>4
  <2> HIDE DEF before
  <2> QED BY <1>9, <2>2, <2>4, <2>7, <2>8, <2>9
<1> QED BY <1>10, <1>11

\* The loop to its end.
LEMMA CleanedUpto ==
  ASSUME NEW t \in Seq(Rows), NEW th \in Nat
  PROVE  /\ Cleaned(t, th) \in Seq(Objects)
         /\ OutputUpto(Cleaned(t, th), t, th, Len(t))
<1> DEFINE n == Len(t)
           Loop(f) == [k \in 0..Len(t) |->
                         IF k = 0 THEN Opened
                         ELSE IF t[k].id \in DOMAIN f[k-1].counter
                         THEN OnceSeen(f[k-1], t[k], th)
                         ELSE FirstSeen(f[k-1], t[k], th)]
           after == CHOOSE f : f = Loop(f)
           step == [k \in 1..n |-> [state \in CleanStates |-> Seen(state, t[k], th)]]
<1>0. Cleaned(t, th) = after[n].output
  BY DEF Cleaned
<1>1. n \in Nat /\ \A k \in 1..n : t[k] \in Rows
  OBVIOUS
<1>2. Opened \in CleanStates /\ Opened.counter = <<>> /\ Opened.output = <<>>
  <2>1. <<>> \in [{} -> [count : Nat, size : Nat]]
    OBVIOUS
  <2>2. <<>> \in Counters
    BY <2>1 DEF Counters
  <2>3. <<>> \in Seq(Objects)
    OBVIOUS
  <2> QED BY <2>2, <2>3 DEF Opened, CleanStates
<1>3. \A k \in 1..n : \A state \in CleanStates :
        Seen(state, t[k], th) \in CleanStates
  BY <1>1, OnceSeenFields, FirstSeenFields
<1>4. step \in [1..n -> [CleanStates -> CleanStates]]
  BY <1>3
<1>5. PICK f : IsRecursion(f, n, CleanStates, Opened, step)
  <2> HIDE DEF step, n
  <2> QED BY <1>1, <1>2, <1>4, RecursionExists
<1>6. /\ f \in [0..n -> CleanStates] /\ f[0] = Opened
      /\ \A k \in 1..n : f[k] = step[k][f[k-1]]
  BY <1>5 DEF IsRecursion
<1>7. \A k \in 1..n : f[k-1] \in CleanStates /\ f[k] = Seen(f[k-1], t[k], th)
  <2>1. \A k \in 1..n : k - 1 \in 0..n
    BY <1>1
  <2>2. \A k \in 1..n : f[k-1] \in CleanStates
    BY <1>6, <2>1
  <2> HIDE DEF n
  <2> QED BY <1>6, <2>2
<1>8. f = Loop(f)
  <2>1. ASSUME NEW k \in 0..n PROVE f[k] = Loop(f)[k]
    <3>1. CASE k = 0
      BY <1>6, <3>1
    <3>2. CASE k \in 1..n
      <4>1. k # 0
        BY <3>2
      <4> QED BY <1>7, <3>2, <4>1 DEF Seen
    <3> QED BY <1>1, <3>1, <3>2
  <2> QED BY <1>6, <2>1
<1>9. after = Loop(after)
  <2> HIDE DEF Loop
  <2> QED BY <1>8
<1> HIDE DEF after, n
<1>10. after[0] = Opened /\ \A k \in 1..n : after[k] = Seen(after[k-1], t[k], th)
  <2>1. after[0] = Opened
    BY <1>1, <1>9 DEF n
  <2>2. ASSUME NEW k \in 1..n PROVE after[k] = Seen(after[k-1], t[k], th)
    <3>1. k \in 0..n /\ k # 0
      BY <1>1
    <3> QED BY <1>9, <3>1 DEF Seen, n
  <2> QED BY <2>1, <2>2
<1> DEFINE P == {k \in 0..n : /\ after[k] \in CleanStates
                              /\ CountersUpto(after[k].counter, t, k)
                              /\ OutputUpto(after[k].output, t, th, k)}
<1>11. 0 \in P
  <2>1. \A id : Earlier(t, 0, id) = {}
    BY DEF Earlier
  <2>2. KeptUpto(t, th, 0) = {}
    BY DEF KeptUpto
  <2>3. CountersUpto(<<>>, t, 0)
    BY <2>1 DEF CountersUpto
  <2>4. OutputUpto(<<>>, t, th, 0)
    <3>1. Len(<<>>) = 0 /\ Cardinality({}) = 0 /\ 1..0 = {}
      BY FS_EmptySet
    <3>2. /\ \A i \in KeptUpto(t, th, 0) : FALSE
          /\ \A j \in 1..Len(<<>>) : FALSE
      BY <2>2, <3>1
    <3> QED BY <2>2, <3>1, <3>2 DEF OutputUpto
  <2>5. 0 \in 0..n
    BY <1>1
  <2> QED BY <1>2, <1>10, <2>3, <2>4, <2>5
<1>12. ASSUME NEW k \in 1..n, k - 1 \in P PROVE k \in P
  <2>1. /\ after[k-1] \in CleanStates
        /\ CountersUpto(after[k-1].counter, t, k - 1)
        /\ OutputUpto(after[k-1].output, t, th, k - 1)
    BY <1>12
  <2>2. after[k] = Seen(after[k-1], t[k], th) /\ k \in 1..Len(t) /\ k \in 0..n
    BY <1>1, <1>10 DEF n
  <2> HIDE DEF P
  <2>3. /\ after[k] \in CleanStates /\ CountersUpto(after[k].counter, t, k)
        /\ OutputUpto(after[k].output, t, th, k)
    BY <2>1, <2>2, SeenUpto
  <2> QED BY <2>2, <2>3 DEF P
<1>13. P = 0..n
  <2>1. P \in SUBSET (0..n)
    OBVIOUS
  <2> HIDE DEF P
  <2> QED BY <1>1, <1>11, <1>12, <2>1, UptoInduction
<1>14. n \in 0..n
  BY <1>1
<1>15. after[n] \in CleanStates /\ OutputUpto(after[n].output, t, th, n)
  BY <1>13, <1>14
<1> QED BY <1>0, <1>15 DEF n, CleanStates

\* What the tool writes is what is left of the trace.
LEMMA CleanedIsLeft ==
  ASSUME NEW t \in Seq(Rows), NEW th \in Nat
  PROVE  IsLeft(Cleaned(t, th), t, th)
<1>1. OutputUpto(Cleaned(t, th), t, th, Len(t))
  BY CleanedUpto
<1>2. DOMAIN t = 1..Len(t)
  OBVIOUS
<1>3. KeptUpto(t, th, Len(t)) = Kept(t, th)
  BY <1>2 DEF KeptUpto, Kept
<1> QED BY <1>1, <1>3 DEF OutputUpto, IsLeft, KeptUpto, Rewritten

\* The last request of a file has all its requests up to it.
LEMMA LastRequest ==
  ASSUME NEW t \in Seq(Rows), NEW id, Earlier(t, Len(t), id) # {}
  PROVE  \E m \in 1..Len(t) :
           t[m].id = id /\ Earlier(t, m, id) = Earlier(t, Len(t), id)
<1> DEFINE n == Len(t)
           M == {m \in 0..n : Earlier(t, m, id) = Earlier(t, n, id)}
<1>1. n \in Nat /\ n \in M /\ M \in SUBSET Nat
  OBVIOUS
<1>2. PICK m \in M : \A k \in M : m <= k
  <2> HIDE DEF M
  <2> QED BY <1>1, LeastNat
<1>3. m \in 0..n /\ Earlier(t, m, id) = Earlier(t, n, id)
  OBVIOUS
<1>4. m # 0
  <2>1. Earlier(t, 0, id) = {}
    BY DEF Earlier
  <2> QED BY <1>3, <2>1
<1>5. m \in 1..n /\ m - 1 \in 0..n /\ ~(m <= m - 1)
  BY <1>1, <1>3, <1>4
<1>6. Earlier(t, m - 1, id) # Earlier(t, n, id)
  BY <1>2, <1>5
<1>7. t[m].id = id
  <2>1. t[m].id # id => Earlier(t, m, id) = Earlier(t, m - 1, id)
    BY <1>5, EarlierStep
  <2> QED BY <1>3, <1>6, <2>1
<1> QED BY <1>3, <1>5, <1>7

\* Of the files requested no more than threshold times the tool leaves those
\* requested exactly threshold times, from a threshold of 2 on.
LEMMA SeldomLeft ==
  ASSUME NEW t \in Seq(Rows), NEW th \in Nat, NEW id,
         NEW all, all = Earlier(t, Len(t), id), all # {}, Cardinality(all) <= th,
         NEW out \in Seq(Objects), OutputUpto(out, t, th, Len(t))
  PROVE  (\E j \in 1..Len(out) : out[j].id = id)
           <=> th >= 2 /\ Cardinality(all) = th
<1>1. Len(t) \in Nat /\ DOMAIN t = 1..Len(t)
  OBVIOUS
<1>2. IsFiniteSet(all) /\ Cardinality(all) \in Nat
  <2>1. IsFiniteSet(1..Len(t)) /\ all \subseteq 1..Len(t)
    BY <1>1, CardInterval DEF Earlier
  <2> QED BY <2>1, FS_Subset, FS_CardinalityType
<1>3. KeptUpto(t, th, Len(t)) = Kept(t, th)
  BY <1>1 DEF KeptUpto, Kept
<1>4. ASSUME NEW j \in 1..Len(out), out[j].id = id
      PROVE  th >= 2 /\ Cardinality(all) = th
  <2>1. PICK i \in Kept(t, th) : out[j] = Rewritten(t, i)
    BY <1>3 DEF OutputUpto
  <2>2. i \in 1..Len(t) /\ t[i].id = id
    BY <1>1, <1>4, <2>1 DEF Kept, Rewritten, Written
  <2>3. Rank(t, i) = Cardinality(Earlier(t, i, id))
    BY <2>2 DEF Rank, Earlier
  <2>4. Earlier(t, i, id) \subseteq all /\ i \in Earlier(t, i, id)
    <3>1. i \in 1..i /\ \A k \in 1..i : k \in 1..Len(t)
      BY <1>1, <2>2
    <3> QED BY <2>2, <3>1 DEF Earlier
  <2>5. /\ IsFiniteSet(Earlier(t, i, id)) /\ Rank(t, i) \in Nat
        /\ Rank(t, i) <= Cardinality(all)
    BY <1>2, <2>3, <2>4, FS_Subset, FS_CardinalityType
  <2>6. Rank(t, i) # 0
    BY <2>3, <2>4, <2>5, FS_EmptySet
  <2>7. th = 0 \/ (Rank(t, i) >= 2 /\ Rank(t, i) >= th)
    BY <2>1 DEF Kept
  <2> QED BY <1>2, <2>5, <2>6, <2>7
<1>5. ASSUME th >= 2, Cardinality(all) = th
      PROVE  \E j \in 1..Len(out) : out[j].id = id
  <2>1. PICK m \in 1..Len(t) : t[m].id = id /\ Earlier(t, m, id) = all
    BY LastRequest
  <2>2. Rank(t, m) = th
    <3>1. Rank(t, m) = Cardinality(Earlier(t, m, id))
      BY <2>1 DEF Rank, Earlier
    <3> QED BY <1>5, <2>1, <3>1
  <2>3. m \in KeptUpto(t, th, Len(t))
    BY <1>1, <1>3, <1>5, <2>2 DEF Kept
  <2> DEFINE c == Cardinality(KeptUpto(t, th, m))
  <2>4. c \in 1..Len(out)
    BY <1>1, <2>3, KeptPlace DEF OutputUpto
  <2>5. out[c] = Rewritten(t, m)
    BY <2>3 DEF OutputUpto
  <2> HIDE DEF c
  <2>6. out[c].id = id
    BY <2>1, <2>5 DEF Rewritten, Written
  <2> QED BY <2>4, <2>6
<1> QED BY <1>4, <1>5

\* trace_clean leaves of every trace what it should, in its order and each file
\* with one size, and of the files requested no more than threshold times those
\* the README overlooks: for every threshold and every trace of objects the
\* simulator can be given.
THEOREM CleanedTraceHolds == Spec => []CleanedTrace
<1>1. IInv => CleanedTrace
  <2> SUFFICES ASSUME IInv, NEW threshold \in Thresholds,
                      NEW out, out = Cleaned(Raw, threshold)
               PROVE  /\ IsLeft(out, Raw, threshold)
                      /\ \A id \in Seldom(threshold) :
                           (\E line \in Range(out) : line.id = id)
                             <=> /\ threshold >= 2
                                 /\ Cardinality(Requests(id)) = threshold
    BY DEF CleanedTrace
  <2>1. trace \in Seq(Objects) /\ threshold \in Nat
    <3>1. trace \in Seq(Requested) /\ Requested \subseteq Objects
      BY RequestedObjects DEF IInv, TypeOK
    <3> QED BY <3>1, ThresholdsAssumption
  <2>2. Raw \in Seq(Rows)
    <3>1. Len(trace) \in Nat /\ DOMAIN trace = 1..Len(trace)
      BY <2>1
    <3>2. ASSUME NEW n \in 1..Len(trace)
          PROVE  [time |-> n, id |-> trace[n].id, size |-> trace[n].size] \in Rows
      <4>1. trace[n] \in Objects
        BY <2>1
      <4>2. trace[n].id \in Ids /\ trace[n].size \in Nat /\ n \in Int
        BY <4>1 DEF Objects
      <4> QED BY <4>2 DEF Rows
    <3>3. Raw \in [1..Len(trace) -> Rows]
      BY <3>1, <3>2 DEF Raw
    <3> QED BY <3>1, <3>3
  <2>3. IsLeft(out, Raw, threshold)
    BY <2>1, <2>2, CleanedIsLeft
  <2>4. out \in Seq(Objects) /\ OutputUpto(out, Raw, threshold, Len(Raw))
    BY <2>1, <2>2, CleanedUpto
  <2>5. ASSUME NEW id \in Seldom(threshold)
        PROVE  (\E line \in Range(out) : line.id = id)
                 <=> threshold >= 2 /\ Cardinality(Requests(id)) = threshold
    <3>1. DOMAIN Raw = 1..Len(Raw) /\ DOMAIN out = 1..Len(out)
      BY <2>2, <2>4
    <3>2. Requests(id) = Earlier(Raw, Len(Raw), id)
      BY <3>1 DEF Requests, Earlier
    <3>3. Requests(id) # {} /\ Cardinality(Requests(id)) <= threshold
      BY DEF Seldom, Requests
    <3>4. (\E j \in 1..Len(out) : out[j].id = id)
            <=> threshold >= 2 /\ Cardinality(Requests(id)) = threshold
      BY <2>1, <2>2, <2>4, <3>2, <3>3, SeldomLeft
    <3>5. (\E line \in Range(out) : line.id = id)
            <=> (\E j \in 1..Len(out) : out[j].id = id)
      BY <3>1 DEF Range
    <3> QED BY <3>4, <3>5
  <2> QED BY <2>3, <2>5
<1> QED BY <1>1, Invariant, PTL
=============================================================================
