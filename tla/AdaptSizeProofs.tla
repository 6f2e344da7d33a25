--------------------------- MODULE AdaptSizeProofs ---------------------------
(***************************************************************************)
(* Proofs about AdaptSize, for every trace, cache size and parameter "t":  *)
(* statSize is exactly the bytes of the objects with statistics, counts    *)
(* fade as the smoothing says, and reconfigurations come on time.          *)
(***************************************************************************)
EXTENDS AdaptSize, ClassLemmas

\* There are finitely many objects to request.
LEMMA RequestedFinite ==
  /\ Requested \subseteq Objects /\ IsFiniteSet(Requested)
  /\ \A line \in Lines : ObjectOf(line) \in Requested
<1>1. Lines \subseteq Objects /\ IsFiniteSet(Lines)
  BY LinesAssumption
<1> DEFINE one == [line \in Lines |-> [line EXCEPT !.size = 1]]
           ones == {[line EXCEPT !.size = 1] : line \in Lines}
<1>2. ones \subseteq Objects
  BY <1>1 DEF Objects
<1>3. IsFiniteSet(ones)
  <2>1. one \in Surjection(Lines, ones)
    BY DEF Surjection
  <2> HIDE DEF one, ones
  <2> QED BY <1>1, <2>1, FS_Surjection
<1>4. IsFiniteSet(Lines \cup ones)
  <2> HIDE DEF ones
  <2> QED BY <1>1, <1>3, FS_Union
<1> QED BY <1>1, <1>2, <1>4 DEF Requested, ObjectOf

\* Statistics are positive counts of requested objects.
Counts(f) == f \in [DOMAIN f -> Nat \ {0}] /\ DOMAIN f \subseteq Requested

\* Any set of requested objects has a number of bytes.
LEMMA SizesOfRequested ==
  ASSUME NEW S \in SUBSET Requested
  PROVE  Sized(S) /\ IsFiniteSet(S) /\ Sizes(S) = SizeSum(S) /\ Sizes(S) \in Nat
<1>1. Sized(S)
  BY RequestedFinite, FS_Subset DEF Sized, Objects
<1>2. SizeSum(S) \in Nat
  BY <1>1, SizeSumNat
<1>3. Sizes(S) = SizeSum(S)
  BY DEF Sizes, SizeSum
<1> QED BY <1>1, <1>2, <1>3 DEF Sized

\* What is left out takes its bytes along.
LEMMA SizesWithout ==
  ASSUME NEW S \in SUBSET Requested, NEW T \in SUBSET S
  PROVE  Sizes(S \ T) = Sizes(S) - Sizes(T)
<1> DEFINE Holds(U) == Sizes(S \ U) + Sizes(U) = Sizes(S)
           Bad == {U \in SUBSET S : ~Holds(U)}
<1>1. \A U \in SUBSET S : /\ Sized(U) /\ IsFiniteSet(U) /\ Sizes(U) = SizeSum(U)
                          /\ Sizes(U) \in Nat
  BY SizesOfRequested
<1>2. Bad = {}
  <2>1. SUFFICES ASSUME Bad # {} PROVE FALSE
    OBVIOUS
  <2>2. PICK U \in Bad : \A W \in Bad : Cardinality(U) <= Cardinality(W)
    <3>1. \A W \in Bad : IsFiniteSet(W)
      BY <1>1
    <3> HIDE DEF Bad
    <3> QED BY <2>1, <3>1, LeastSet
  <2>3. U # {}
    <3>1. SizeSum({}) = 0 /\ S \ {} = S /\ {} \in SUBSET S
      BY <1>1, SizeSumNat
    <3> QED BY <1>1, <3>1
  <2>4. PICK a \in U : TRUE
    BY <2>3
  <2> DEFINE W == U \ {a}
  <2>5. W \in SUBSET S /\ Cardinality(W) = Cardinality(U) - 1 /\ Cardinality(U) \in Nat
    BY <1>1, <2>4, FS_RemoveElement, FS_CardinalityType
  <2>6. Holds(W)
    <3>1. W \notin Bad
      BY <2>2, <2>5
    <3> HIDE DEF Holds
    <3> QED BY <2>5, <3>1, Zenon
  <2>7. SizeSum(U) = a.size + SizeSum(W) /\ SizeSum(W) \in Nat
    BY <1>1, <2>4, SizeSumRemove
  <2>8. a \in S \ W /\ (S \ W) \ {a} = S \ U /\ S \ W \in SUBSET S
    BY <2>4
  <2>9. SizeSum(S \ W) = a.size + SizeSum(S \ U) /\ SizeSum(S \ U) \in Nat
    <3> HIDE DEF W
    <3> QED BY <1>1, <2>8, SizeSumRemove
  <2>10. a.size \in Nat
    BY <1>1, <2>4 DEF Sized
  <2>11. /\ Sizes(S \ W) = SizeSum(S \ W) /\ Sizes(S \ U) = SizeSum(S \ U)
         /\ Sizes(W) = SizeSum(W) /\ Sizes(U) = SizeSum(U) /\ Sizes(S) \in Nat
    BY <1>1, <2>5
  <2>12. Sizes(S \ W) + Sizes(W) = Sizes(S)
    BY <2>6
  <2> HIDE DEF W
  <2>13. Sizes(S \ U) + Sizes(U) = Sizes(S)
    BY <2>7, <2>9, <2>10, <2>11, <2>12
  <2> QED BY <2>2, <2>13
<1>3. Sizes(S \ T) + Sizes(T) = Sizes(S)
  BY <1>2
<1>4. Sizes(S) \in Nat /\ Sizes(T) \in Nat /\ Sizes(S \ T) \in Nat
  BY <1>1
<1> QED BY <1>3, <1>4

\* A new object brings its bytes, a known one none.
LEMMA SizesWith ==
  ASSUME NEW S \in SUBSET Requested, NEW o \in Requested
  PROVE  Sizes(S \cup {o}) = Sizes(S) + IF o \in S THEN 0 ELSE o.size
<1>1. /\ Sized(S) /\ Sizes(S) = SizeSum(S) /\ Sizes(S) \in Nat
      /\ Sizes(S \cup {o}) = SizeSum(S \cup {o})
  BY SizesOfRequested
<1>2. o.size \in Nat
  BY RequestedFinite DEF Objects
<1>3. CASE o \in S
  <2>1. S \cup {o} = S
    BY <1>3
  <2>2. Sizes(S \cup {o}) = Sizes(S)
    BY <2>1
  <2> QED BY <1>1, <1>3, <2>2
<1>4. CASE o \notin S
  <2>1. SizeSum(S \cup {o}) = SizeSum(S) + o.size
    BY <1>1, <1>2, <1>4, SizeSumAdd
  <2> QED BY <1>1, <1>4, <2>1
<1> QED BY <1>3, <1>4

----------------------------------------------------------------------------
(***************************************************************************)
(* The statistics: what reconfigure() and the recording of a request do.   *)
(***************************************************************************)
Seen == DOMAIN _longTermMetadata \cup DOMAIN _intervalMetadata

\* The bounds of the weights, which are fractions rounded down.
LEMMA Weights ==
  ASSUME NEW n \in Nat
  PROVE  /\ Decayed(n) \in Nat /\ 10 * Decayed(n) <= 3 * n
         /\ 3 * n <= 10 * Decayed(n) + 9
         /\ Merged(n) \in Nat /\ 10 * Merged(n) <= 7 * n
BY DEF Decayed, Merged

\* The smoothed counts are numbers, of the objects with statistics.
LEMMA SmoothedCounts ==
  ASSUME Counts(_longTermMetadata), Counts(_intervalMetadata)
  PROVE  /\ Smoothed \in [Seen -> Nat] /\ Seen \subseteq Requested
         /\ Dropped = {o \in Seen : Small(Smoothed[o])}
<1>1. \A o \in DOMAIN _longTermMetadata : _longTermMetadata[o] \in Nat
  BY DEF Counts
<1>2. \A o \in DOMAIN _intervalMetadata : _intervalMetadata[o] \in Nat
  BY DEF Counts
<1>3. \A o \in DOMAIN _longTermMetadata : Decayed(_longTermMetadata[o]) \in Nat
  BY <1>1, Weights
<1>4. \A o \in DOMAIN _intervalMetadata : Merged(_intervalMetadata[o]) \in Nat
  BY <1>2, Weights
<1>5. Smoothed \in [Seen -> Nat]
  BY <1>2, <1>3, <1>4 DEF Smoothed, Seen
<1> QED BY <1>5 DEF Dropped, Counts, Seen

\* What reconfigure() leaves are statistics, without those of the dropped.
LEMMA LeftCounts ==
  ASSUME Counts(_longTermMetadata), Counts(_intervalMetadata)
  PROVE  /\ Counts(LongTerm) /\ Counts(Interval)
         /\ DOMAIN LongTerm \cup DOMAIN Interval
              = IF Reconfigures THEN Seen \ Dropped ELSE Seen
<1>1. /\ Smoothed \in [Seen -> Nat] /\ Seen \subseteq Requested
      /\ Dropped = {o \in Seen : Small(Smoothed[o])}
  BY SmoothedCounts
<1>2. CASE Reconfigures
  <2>1. LongTerm = [o \in Seen \ Dropped |-> Smoothed[o]]
    BY <1>1, <1>2 DEF LongTerm, Restrict
  <2>2. \A o \in Seen \ Dropped : Smoothed[o] \in Nat \ {0}
    <3> SUFFICES ASSUME NEW o \in Seen \ Dropped PROVE Smoothed[o] \in Nat \ {0}
      OBVIOUS
    <3>1. Smoothed[o] \in Nat /\ ~Small(Smoothed[o])
      BY <1>1
    <3> QED BY <3>1, UnitAssumption DEF Small
  <2>3. DOMAIN LongTerm = Seen \ Dropped /\ Counts(LongTerm)
    BY <1>1, <2>1, <2>2 DEF Counts
  <2>4. Interval = <<>> /\ DOMAIN <<>> = {}
    BY <1>2, EmptySeq DEF Interval
  <2>5. Counts(Interval) /\ DOMAIN Interval = {}
    BY <2>4 DEF Counts
  <2> QED BY <1>2, <2>3, <2>5
<1>3. CASE ~Reconfigures
  BY <1>3 DEF LongTerm, Interval, Seen
<1> QED BY <1>2, <1>3

\* One more request in the counts of an interval.
LEMMA CountsOneMore ==
  ASSUME NEW f, Counts(f), NEW o \in Requested, NEW g,
         g = IF o \in DOMAIN f THEN [f EXCEPT ![o] = @ + Unit]
             ELSE [x \in DOMAIN f \cup {o} |-> IF x = o THEN Unit ELSE f[x]]
  PROVE  /\ Counts(g) /\ DOMAIN g = DOMAIN f \cup {o}
         /\ g[o] = Unit + IF o \in DOMAIN f THEN f[o] ELSE 0
         /\ \A x \in DOMAIN f : x # o => g[x] = f[x]
<1>1. Unit \in Nat \ {0} /\ f \in [DOMAIN f -> Nat \ {0}] /\ DOMAIN f \subseteq Requested
  BY UnitAssumption DEF Counts
<1>2. CASE o \in DOMAIN f
  <2>1. g \in [DOMAIN f -> Nat \ {0}] /\ DOMAIN f = DOMAIN f \cup {o}
    BY <1>1, <1>2
  <2> QED BY <1>1, <1>2, <2>1 DEF Counts
<1>3. CASE o \notin DOMAIN f
  <2>1. g = [x \in DOMAIN f \cup {o} |-> IF x = o THEN Unit ELSE f[x]]
    BY <1>3
  <2>2. g \in [DOMAIN f \cup {o} -> Nat \ {0}] /\ g[o] = Unit
        /\ \A x \in DOMAIN f : x # o => g[x] = f[x]
    BY <1>1, <2>1
  <2> QED BY <1>1, <1>3, <2>2 DEF Counts
<1> QED BY <1>2, <1>3

StatisticsInv ==
  /\ Counts(_longTermMetadata) /\ Counts(_intervalMetadata)
  /\ statSize = Sizes(Seen)

\* Recording a request keeps statSize in step with the statistics.
LEMMA RecordedExact ==
  ASSUME StatisticsInv, NEW o \in Requested, Recorded(o)
  PROVE  StatisticsInv'
<1>1. Counts(_longTermMetadata) /\ Counts(_intervalMetadata) /\ statSize = Sizes(Seen)
  BY DEF StatisticsInv
<1>2. /\ Counts(LongTerm) /\ Counts(Interval)
      /\ DOMAIN LongTerm \cup DOMAIN Interval
           = IF Reconfigures THEN Seen \ Dropped ELSE Seen
  BY <1>1, LeftCounts
<1>3. Seen \subseteq Requested /\ Dropped \subseteq Seen
  BY <1>1, SmoothedCounts
<1> DEFINE left == DOMAIN LongTerm \cup DOMAIN Interval
<1>4. StatSize = Sizes(left)
  <2>1. Sizes(Seen \ Dropped) = Sizes(Seen) - Sizes(Dropped)
    BY <1>3, SizesWithout
  <2> QED BY <1>1, <1>2, <2>1 DEF StatSize
<1>5. /\ _longTermMetadata' = LongTerm
      /\ statSize' = StatSize + IF o \in left THEN 0 ELSE o.size
  BY DEF Recorded
<1>6. Counts(_intervalMetadata') /\ DOMAIN _intervalMetadata' = DOMAIN Interval \cup {o}
  BY <1>2, CountsOneMore DEF Recorded
<1>7. left \subseteq Requested /\ Seen' = left \cup {o}
  BY <1>2, <1>5, <1>6 DEF Counts, Seen
<1>8. Sizes(left \cup {o}) = Sizes(left) + IF o \in left THEN 0 ELSE o.size
  <2> HIDE DEF left
  <2> QED BY <1>7, SizesWith
<1> HIDE DEF left
<1>9. statSize' = Sizes(left \cup {o})
  BY <1>4, <1>5, <1>8
<1>10. Counts(_longTermMetadata')
  BY <1>2, <1>5
<1>11. statSize' = Sizes(Seen)'
  <2>1. Sizes(Seen)' = Sizes(Seen')
    OBVIOUS
  <2> QED BY <1>7, <1>9, <2>1
<1> QED BY <1>6, <1>10, <1>11 DEF StatisticsInv

----------------------------------------------------------------------------
(***************************************************************************)
(* The history: what a request adds to the current period.                 *)
(***************************************************************************)
HistoryTyped ==
  /\ periods \in Seq([Requested -> Nat]) /\ scarceFor \in Seq(Nat)
  /\ Len(scarceFor) = Len(periods) /\ Len(periods) \in Nat \ {0}

\* The requests of the current period that the next one adds to.
Before == IF Reconfigures THEN NoRequests ELSE Last(periods)

Raised(period, o) == [period EXCEPT ![o] = @ + 1]

LEMMA TotalNat ==
  ASSUME NEW period \in [Requested -> Nat]
  PROVE  Total(period) \in Nat
<1>1. Weighed(period, Requested) /\ DOMAIN period = Requested
  BY RequestedFinite DEF Weighed
<1>2. SumFunctionOnSet(period, Requested) \in Nat
  BY <1>1, SumFirst
<1> QED BY <1>1, <1>2 DEF Total, SumFunction

LEMMA RaisedTotal ==
  ASSUME NEW period \in [Requested -> Nat], NEW o \in Requested
  PROVE  /\ Raised(period, o) \in [Requested -> Nat]
         /\ Raised(period, o)[o] = period[o] + 1
         /\ \A x \in Requested : x # o => Raised(period, o)[x] = period[x]
         /\ Total(period) \in Nat /\ Total(Raised(period, o)) = Total(period) + 1
<1>1. /\ Raised(period, o) \in [Requested -> Nat]
      /\ Raised(period, o)[o] = period[o] + 1
      /\ \A x \in Requested : x # o => Raised(period, o)[x] = period[x]
  BY DEF Raised
<1>2. Total(Raised(period, o)) = Total(period) + 1
  BY <1>1, RequestedFinite, TotalRaise DEF Total
<1>3. Total(period) \in Nat
  BY TotalNat
<1> QED BY <1>1, <1>2, <1>3

LEMMA NoRequestsTotal == NoRequests \in [Requested -> Nat] /\ Total(NoRequests) = 0
<1>1. DOMAIN NoRequests = Requested /\ \A o \in Requested : NoRequests[o] = 0
  BY DEF NoRequests
<1>2. SumFunction(NoRequests) = 0
  BY <1>1, RequestedFinite, TotalZero
<1> QED BY <1>2 DEF NoRequests, Total

LEMMA HistoryStep ==
  ASSUME HistoryTyped, NEW o \in Requested, HistoryWith(o)
  PROVE  /\ HistoryTyped'
         /\ Len(periods') = IF Reconfigures THEN Len(periods) + 1 ELSE Len(periods)
         /\ Before \in [Requested -> Nat]
         /\ periods'[Len(periods')] = Raised(Before, o)
         /\ \A i \in 1..(Len(periods') - 1) :
              /\ i \in 1..Len(periods) /\ periods'[i] = periods[i]
              /\ scarceFor'[i] = scarceFor[i]
         /\ scarceFor'[Len(periods')]
              = IF statSize' <= 3 * cache.size THEN Total(Raised(Before, o))
                ELSE IF Reconfigures THEN 0 ELSE scarceFor[Len(periods)]
<1> DEFINE n == Len(periods)
           P == [Requested -> Nat]
           before == IF Reconfigures THEN Append(scarceFor, 0) ELSE scarceFor
           m == Len(periods')
<1>1. /\ periods \in Seq(P) /\ scarceFor \in Seq(Nat) /\ Len(scarceFor) = n
      /\ n \in Nat \ {0}
  BY DEF HistoryTyped
<1>2. periods[n] \in P /\ Last(periods) = periods[n]
  BY <1>1, ElementOfSeq DEF Last
<1>3. Before \in P
  BY <1>2, NoRequestsTotal DEF Before
<1>4. Raised(Before, o) \in P /\ Total(Raised(Before, o)) \in Nat
  BY <1>3, RaisedTotal
<1>5. /\ periods' \in Seq(P) /\ m = IF Reconfigures THEN n + 1 ELSE n
      /\ periods'[m] = Raised(Before, o)
      /\ \A i \in 1..(m-1) : i \in 1..n /\ periods'[i] = periods[i]
  <2>1. CASE Reconfigures
    <3>1. [NoRequests EXCEPT ![o] = 1] = Raised(Before, o)
      <4>1. NoRequests[o] + 1 = 1
        BY DEF NoRequests
      <4> QED BY <2>1, <4>1 DEF Before, Raised
    <3>2. periods' = Append(periods, Raised(Before, o))
      BY <2>1, <3>1 DEF HistoryWith
    <3> QED BY <1>1, <1>4, <2>1, <3>2, AppendProperties
  <2>2. CASE ~Reconfigures
    <3>1. periods' = [periods EXCEPT ![n] = Raised(Before, o)]
      <4>1. periods' = [periods EXCEPT ![n][o] = @ + 1]
        BY <2>2 DEF HistoryWith
      <4>2. Before = periods[n]
        BY <1>2, <2>2 DEF Before
      <4> QED BY <4>1, <4>2 DEF Raised
    <3>2. n \in 1..n
      BY <1>1
    <3> HIDE DEF P, n
    <3>3. /\ periods' \in Seq(P) /\ Len(periods') = n
          /\ \A j \in 1..n : periods'[j] = IF j = n THEN Raised(Before, o) ELSE periods[j]
      BY <1>1, <1>4, <3>1, <3>2, ExceptSeq DEF n
    <3> QED BY <1>1, <2>2, <3>3
  <2> QED BY <2>1, <2>2
<1>6. /\ before \in Seq(Nat) /\ Len(before) = m
      /\ before[m] = IF Reconfigures THEN 0 ELSE scarceFor[n]
      /\ \A i \in 1..(m-1) : before[i] = scarceFor[i]
  <2>1. CASE Reconfigures
    BY <1>1, <1>5, <2>1, AppendProperties
  <2>2. CASE ~Reconfigures
    BY <1>1, <1>5, <2>2
  <2> QED BY <2>1, <2>2
<1>7. Last(periods') = Raised(Before, o)
  BY <1>5 DEF Last
<1>8. scarceFor' = IF statSize' <= 3 * cache.size
                   THEN [before EXCEPT ![Len(before)] = Total(Raised(Before, o))]
                   ELSE before
  BY <1>7 DEF HistoryWith
<1>9. m \in 1..m /\ m \in Nat \ {0}
  <2>1. n \in Nat \ {0} /\ (m = n \/ m = n + 1)
    BY <1>1, <1>5, Zenon
  <2> HIDE DEF n, m
  <2> QED BY <2>1
<1> HIDE DEF before, m
<1>10. /\ scarceFor' \in Seq(Nat) /\ Len(scarceFor') = m
       /\ scarceFor'[m] = IF statSize' <= 3 * cache.size THEN Total(Raised(Before, o))
                          ELSE before[m]
       /\ \A i \in 1..(m-1) : scarceFor'[i] = before[i]
  <2>1. CASE statSize' <= 3 * cache.size
    <3> DEFINE e == Total(Raised(Before, o))
    <3>1. scarceFor' = [before EXCEPT ![m] = e] /\ e \in Nat
      BY <1>4, <1>6, <1>8, <2>1
    <3> HIDE DEF e
    <3>2. /\ scarceFor' \in Seq(Nat) /\ Len(scarceFor') = m
          /\ \A j \in 1..m : scarceFor'[j] = IF j = m THEN e ELSE before[j]
      BY <1>6, <1>9, <3>1, ExceptSeq
    <3> QED BY <1>9, <2>1, <3>2 DEF e
  <2>2. CASE ~(statSize' <= 3 * cache.size)
    BY <1>6, <1>8, <2>2
  <2> QED BY <2>1, <2>2
<1>11. HistoryTyped'
  BY <1>5, <1>9, <1>10 DEF HistoryTyped, m
<1> QED BY <1>3, <1>5, <1>6, <1>10, <1>11 DEF m

----------------------------------------------------------------------------
(***************************************************************************)
(* Types, and the exact statSize.                                          *)
(***************************************************************************)
TypesInv ==
  /\ file_size \in BOOLEAN /\ aborted \in BOOLEAN /\ CacheInv(cache)
  /\ _reconfiguration_interval \in Intervals \cup {FirstInterval}
  /\ _nextReconfiguration \in Nat \ {0}
  /\ reqs \in 0..MaxReqs /\ hits \in 0..reqs

IInv == TypesInv /\ StatisticsInv /\ HistoryTyped

LEMMA InitTypes == Init => IInv
<1> SUFFICES ASSUME Init PROVE IInv
  OBVIOUS
<1>1. FirstInterval \in Nat \ {0} /\ MaxReqs \in Nat /\ CacheSizes \subseteq Nat
  BY ParametersAssumption
<1>2. CacheInv(cache)
  <2>1. PICK cs \in CacheSizes : cache = SetSize(NewCache, cs)
    BY DEF Init
  <2>2. Consistent(NewCache)
    BY NewCacheInv DEF CacheInv, SizeExact, Consistent
  <2> QED BY <1>1, <2>1, <2>2, SetSizeInv
<1>3. TypesInv
  <2>1. /\ file_size \in BOOLEAN /\ aborted = FALSE /\ reqs = 0 /\ hits = 0
        /\ _reconfiguration_interval \in Intervals \cup {FirstInterval}
        /\ _nextReconfiguration = FirstInterval
    BY DEF Init
  <2>2. reqs \in 0..MaxReqs /\ hits \in 0..reqs /\ _nextReconfiguration \in Nat \ {0}
    BY <1>1, <2>1
  <2> QED BY <1>2, <2>1, <2>2 DEF TypesInv
<1>4. StatisticsInv
  <2>1. _longTermMetadata = <<>> /\ _intervalMetadata = <<>> /\ statSize = 0
    BY DEF Init
  <2>2. Counts(<<>>) /\ DOMAIN <<>> = {}
    BY EmptySeq DEF Counts
  <2>3. Sizes({}) = 0
    <3>1. Sized({}) /\ Sizes({}) = SizeSum({})
      BY SizesOfRequested
    <3> QED BY <3>1, SizeSumNat
  <2>4. Seen = {}
    BY <2>1, <2>2 DEF Seen
  <2> QED BY <2>1, <2>2, <2>3, <2>4 DEF StatisticsInv
<1>5. HistoryTyped
  <2>1. periods = <<NoRequests>> /\ scarceFor = <<0>>
    BY DEF Init
  <2>2. NoRequests \in [Requested -> Nat]
    BY NoRequestsTotal
  <2> QED BY <2>1, <2>2 DEF HistoryTyped
<1> QED BY <1>3, <1>4, <1>5 DEF IInv

\* The three ways to serve a request, and the assertion.
Requests(o) == RequestHit(o) \/ RequestMissAdmit(o) \/ RequestMissReject(o)

LEMMA NextRequest ==
  ASSUME Next
  PROVE  (\E o \in Requested : Requests(o)) \/ Abort
BY RequestedFinite DEF Next, Requests

\* A request keeps the types; the capacity never changes.
LEMMA RequestTypes ==
  ASSUME IInv, NEW o \in Requested, Requests(o)
  PROVE  IInv' /\ Read(o) /\ cache'.size = cache.size
<1>1. Read(o)
  BY DEF Requests, RequestHit, RequestMissAdmit, RequestMissReject
<1>2. o \in Objects
  BY RequestedFinite
<1>3. CacheInv(cache) /\ HistoryTyped /\ StatisticsInv /\ TypesInv
  BY DEF IInv, TypesInv
<1>4. CacheInv(Lookup(cache, o)) /\ Lookup(cache, o).size = cache.size
      /\ Lookup(cache, o).map = cache.map
  BY <1>2, <1>3, LookupInv
<1>5. CacheInv(cache') /\ cache'.size = cache.size /\ (hits' = hits \/ hits' = hits + 1)
  <2>1. CASE RequestHit(o)
    BY <1>4, <2>1 DEF RequestHit
  <2>2. CASE RequestMissAdmit(o)
    <3>1. o \notin Lookup(cache, o).map
      BY <1>4, <2>2 DEF RequestMissAdmit, IsHit
    <3>2. /\ CacheInv(Admit(Lookup(cache, o), o))
          /\ Admit(Lookup(cache, o), o).size = cache.size
      BY <1>2, <1>4, <3>1, AdmitInv
    <3> QED BY <2>2, <3>2 DEF RequestMissAdmit
  <2>3. CASE RequestMissReject(o)
    BY <1>4, <2>3 DEF RequestMissReject
  <2> QED BY <2>1, <2>2, <2>3 DEF Requests
<1>6. /\ reqs' = reqs + 1 /\ reqs < MaxReqs /\ Recorded(o) /\ HistoryWith(o)
      /\ UNCHANGED <<file_size, _reconfiguration_interval, aborted>>
  BY <1>1 DEF Read
<1>7. StatisticsInv'
  BY <1>3, <1>6, RecordedExact
<1>8. HistoryTyped'
  BY <1>3, <1>6, HistoryStep
<1>9. _nextReconfiguration' \in Nat \ {0}
  <2>1. _nextReconfiguration' = Countdown
    BY <1>6 DEF Recorded
  <2>2. _nextReconfiguration \in Nat \ {0} /\ _reconfiguration_interval \in Nat \ {0}
        /\ Postponement \in Nat \ {0}
    BY <1>3, ParametersAssumption DEF TypesInv
  <2> QED BY <2>1, <2>2 DEF Countdown, Due
<1>10. reqs' \in 0..MaxReqs /\ hits' \in 0..reqs'
  BY <1>3, <1>5, <1>6, ParametersAssumption DEF TypesInv
<1>11. TypesInv'
  BY <1>3, <1>5, <1>6, <1>9, <1>10 DEF TypesInv
<1> QED BY <1>1, <1>5, <1>7, <1>8, <1>11 DEF IInv

\* The assertion stops the program: nothing else changes.
LEMMA AbortTypes ==
  ASSUME IInv, Abort
  PROVE  /\ IInv' /\ reqs' = reqs + 1
         /\ UNCHANGED <<file_size, cache, metadata, _reconfiguration_interval, hits,
                        periods, scarceFor>>
<1>1. /\ reqs' = reqs + 1 /\ reqs < MaxReqs /\ aborted' = TRUE
      /\ UNCHANGED <<file_size, cache, metadata, _reconfiguration_interval, hits,
                     periods, scarceFor>>
  BY DEF Abort
<1>2. TypesInv'
  <2>1. reqs' \in 0..MaxReqs /\ hits' \in 0..reqs'
    BY <1>1, ParametersAssumption DEF IInv, TypesInv
  <2> QED BY <1>1, <2>1 DEF IInv, TypesInv, metadata
<1>3. StatisticsInv' /\ HistoryTyped'
  <2>1. Seen' = Seen
    BY <1>1 DEF Seen, metadata
  <2>2. StatisticsInv'
    BY <1>1, <2>1 DEF IInv, StatisticsInv, metadata
  <2> QED BY <1>1, <2>2 DEF IInv, HistoryTyped
<1> QED BY <1>1, <1>2, <1>3 DEF IInv

LEMMA StutterTypes ==
  ASSUME IInv, UNCHANGED vars
  PROVE  IInv'
<1>1. Seen' = Seen
  BY DEF Seen, vars, metadata
<1>2. StatisticsInv'
  BY <1>1 DEF IInv, StatisticsInv, vars, metadata
<1> QED BY <1>2 DEF IInv, TypesInv, HistoryTyped, vars, metadata

LEMMA TypesInvariant == Spec => []IInv
<1>1. IInv /\ [Next]_vars => IInv'
  BY NextRequest, RequestTypes, AbortTypes, StutterTypes
<1> QED BY <1>1, InitTypes, PTL DEF Spec

\* The types hold; the unsigned countdown never passes zero.
THEOREM TypesHold == Spec => []TypeOK
<1>1. IInv => TypeOK
  <2> SUFFICES ASSUME IInv PROVE TypeOK
    OBVIOUS
  <2>1. statSize \in Nat
    <3>1. Seen \subseteq Requested /\ statSize = Sizes(Seen)
      BY DEF IInv, StatisticsInv, Counts, Seen
    <3> QED BY <3>1, SizesOfRequested
  <2>2. /\ \A o \in DOMAIN _longTermMetadata :
             o \in Requested /\ _longTermMetadata[o] \in Nat \ {0}
        /\ \A o \in DOMAIN _intervalMetadata :
             o \in Requested /\ _intervalMetadata[o] \in Nat \ {0}
    BY DEF IInv, StatisticsInv, Counts
  <2>3. cache \in LRUCaches
    BY DEF IInv, TypesInv, CacheInv
  <2> QED BY <2>1, <2>2, <2>3 DEF TypeOK, IInv, TypesInv, HistoryTyped
<1> QED BY <1>1, TypesInvariant, PTL

\* statSize is the bytes of the objects with statistics, each once.
THEOREM StatSizeExactHolds == Spec => []StatSizeExact
<1>1. IInv => StatSizeExact
  BY DEF IInv, StatisticsInv, Seen, StatSizeExact
<1> QED BY <1>1, TypesInvariant, PTL

----------------------------------------------------------------------------
(***************************************************************************)
(* Reconfigurations are punctual.                                          *)
(*                                                                         *)
(* The countdown ends at a moment: the interval and k postponements after  *)
(* the period's start.  Each postponement was for want of statistics, of   *)
(* which scarceFor keeps the last time, so no later moment would have been *)
(* too late and no earlier one in time.                                    *)
(***************************************************************************)
Base(i) == IF i = 1 THEN FirstInterval - 1 ELSE _reconfiguration_interval
Moment(i, k) == Base(i) + k * Postponement
Moments(i) == {Moment(i, k) : k \in {k \in 0..(MaxReqs + 1) :
                                       Moment(i, k) > scarceFor[i]}}

\* A nonempty set of numbers has a minimum.
LEMMA MinLeast ==
  ASSUME NEW T \in SUBSET Nat, T # {}
  PROVE  Min(T) \in T /\ \A m \in T : Min(T) <= m
<1>1. \E n \in T : \A m \in T : n <= m
  BY LeastNat
<1> QED BY <1>1 DEF Min

LEMMA Multiples ==
  ASSUME NEW j \in Nat, NEW k \in Nat, NEW p \in Nat \ {0}
  PROVE  /\ k * p \in Nat /\ k <= k * p /\ (k + 1) * p = k * p + p
         /\ j <= k => j * p <= k * p
<1>1. k * p \in Nat /\ k <= k * p /\ (k + 1) * p = k * p + p
  OBVIOUS
<1>2. j <= k => j * p <= k * p
  OBVIOUS
<1> QED BY <1>1, <1>2

LEMMA MomentIs ==
  ASSUME TypesInv, NEW i \in Nat, NEW k \in Nat
  PROVE  /\ Moment(i, k) \in Nat /\ k <= Moment(i, k)
         /\ Moment(i, k + 1) = Moment(i, k) + Postponement
         /\ Postponement \in Nat \ {0} /\ Base(i) \in Nat
<1>1. Base(i) \in Nat /\ Postponement \in Nat \ {0}
  BY ParametersAssumption DEF Base, TypesInv
<1>2. /\ k * Postponement \in Nat /\ k <= k * Postponement
      /\ (k + 1) * Postponement = k * Postponement + Postponement
  BY <1>1, Multiples
<1> QED BY <1>1, <1>2 DEF Moment

LEMMA MomentOrder ==
  ASSUME TypesInv, NEW i \in Nat, NEW j \in Nat, NEW k \in Nat, j <= k
  PROVE  Moment(i, j) <= Moment(i, k)
<1>1. Base(i) \in Nat /\ Postponement \in Nat \ {0}
  BY MomentIs
<1>2. /\ j * Postponement <= k * Postponement
      /\ j * Postponement \in Nat /\ k * Postponement \in Nat
  BY <1>1, Multiples
<1> QED BY <1>1, <1>2 DEF Moment

LEMMA DurationMin ==
  ASSUME NEW i \in Nat
  PROVE  Duration(i) = Min(Moments(i))
BY DEF Duration, Moments, Moment, Base

\* The duration of a period that the moment k ends, or has not come to.
LEMMA DurationIs ==
  ASSUME TypesInv, NEW i \in Nat, NEW k \in Nat,
         scarceFor[i] \in Nat, scarceFor[i] <= MaxReqs,
         k = 0 \/ Moment(i, k - 1) <= scarceFor[i]
  PROVE  /\ Duration(i) \in Nat /\ Moment(i, k) <= Duration(i)
         /\ k <= MaxReqs + 1 /\ scarceFor[i] < Moment(i, k) =>
              Duration(i) = Moment(i, k)
<1>0. MaxReqs \in Nat /\ 0..(MaxReqs + 1) \subseteq Nat
  BY ParametersAssumption
<1>1. Moments(i) \in SUBSET Nat
  <2>1. \A l \in 0..(MaxReqs + 1) : Moment(i, l) \in Nat
    BY <1>0, MomentIs
  <2> QED BY <2>1 DEF Moments
<1>2. Moments(i) # {}
  <2>1. MaxReqs + 1 \in Nat /\ MaxReqs + 1 \in 0..(MaxReqs + 1)
    BY ParametersAssumption
  <2>2. MaxReqs + 1 <= Moment(i, MaxReqs + 1) /\ Moment(i, MaxReqs + 1) \in Nat
    BY <2>1, MomentIs
  <2>3. Moment(i, MaxReqs + 1) > scarceFor[i]
    BY <2>2, ParametersAssumption
  <2> QED BY <2>1, <2>3 DEF Moments
<1>3. /\ Duration(i) \in Moments(i) /\ \A m \in Moments(i) : Duration(i) <= m
  BY <1>1, <1>2, DurationMin, MinLeast
<1>4. PICK l \in 0..(MaxReqs + 1) :
        Duration(i) = Moment(i, l) /\ Moment(i, l) > scarceFor[i]
  BY <1>3 DEF Moments
<1>5. l \in Nat /\ Moment(i, l) \in Nat /\ Moment(i, k) \in Nat
  BY <1>0, MomentIs
<1>6. k <= l
  <2>1. SUFFICES ASSUME l < k PROVE FALSE
    BY <1>5
  <2>2. k - 1 \in Nat /\ l <= k - 1 /\ Moment(i, k - 1) <= scarceFor[i]
    BY <1>5, <2>1
  <2>3. Moment(i, l) <= Moment(i, k - 1) /\ Moment(i, k - 1) \in Nat
    BY <1>5, <2>2, MomentIs, MomentOrder
  <2> QED BY <1>4, <1>5, <2>2, <2>3
<1>7. Moment(i, k) <= Moment(i, l)
  BY <1>5, <1>6, MomentOrder
<1>8. k <= MaxReqs + 1 /\ scarceFor[i] < Moment(i, k) => Moment(i, k) \in Moments(i)
  <2> SUFFICES ASSUME k <= MaxReqs + 1, scarceFor[i] < Moment(i, k)
               PROVE  Moment(i, k) \in Moments(i)
    OBVIOUS
  <2>1. k \in 0..(MaxReqs + 1)
    BY ParametersAssumption
  <2>2. Moment(i, k) > scarceFor[i]
    BY <1>5
  <2> QED BY <2>1, <2>2 DEF Moments
<1>9. Duration(i) \in Nat /\ Moment(i, k) <= Duration(i)
  BY <1>4, <1>5, <1>7
<1>10. k <= MaxReqs + 1 /\ scarceFor[i] < Moment(i, k) => Duration(i) = Moment(i, k)
  <2>1. Moment(i, k) \in Moments(i) => Duration(i) <= Moment(i, k)
    BY <1>3
  <2> QED BY <1>5, <1>8, <1>9, <2>1
<1> QED BY <1>9, <1>10

\* The requests of the current period.
Elapsed == Total(periods[Len(periods)])
LastScarce == scarceFor[Len(periods)]

CountdownInv(k) ==
  /\ _nextReconfiguration = Moment(Len(periods), k) - Elapsed + 1
  /\ k = 0 \/ Moment(Len(periods), k - 1) <= LastScarce

PunctualInv ==
  /\ Elapsed <= reqs
  /\ IF Scarce THEN LastScarce = Elapsed ELSE LastScarce < Elapsed
  /\ \E k \in Nat : CountdownInv(k)
  /\ \A i \in Closed : Total(periods[i]) = Duration(i)

LEMMA InitPunctual == Init => PunctualInv
<1> SUFFICES ASSUME Init PROVE PunctualInv
  OBVIOUS
<1>1. IInv
  BY InitTypes
<1>2. periods = <<NoRequests>> /\ scarceFor = <<0>> /\ statSize = 0 /\ reqs = 0
      /\ _nextReconfiguration = FirstInterval
  BY DEF Init
<1>3. Len(periods) = 1 /\ periods[1] = NoRequests /\ scarceFor[1] = 0
  BY <1>2
<1>4. Elapsed = 0 /\ LastScarce = 0
  BY <1>3, NoRequestsTotal DEF Elapsed, LastScarce
<1>5. Scarce
  BY <1>1, <1>2 DEF Scarce, IInv, TypesInv, CacheInv, LRUCaches
<1>6. CountdownInv(0)
  <2>1. Moment(1, 0) = FirstInterval - 1 /\ FirstInterval \in Nat
    BY ParametersAssumption DEF Moment, Base
  <2> QED BY <1>2, <1>3, <1>4, <2>1 DEF CountdownInv
<1>7. Closed = {}
  BY <1>3 DEF Closed
<1> QED BY <1>2, <1>4, <1>5, <1>6, <1>7 DEF PunctualInv

\* What a request does to the current period.
LEMMA RequestElapsed ==
  ASSUME IInv, NEW o \in Requested, Requests(o)
  PROVE  /\ Elapsed' = IF Reconfigures THEN 1 ELSE Elapsed + 1
         /\ Elapsed \in Nat /\ LastScarce \in Nat
         /\ LastScarce' = IF Scarce' THEN Elapsed'
                          ELSE IF Reconfigures THEN 0 ELSE LastScarce
         /\ _nextReconfiguration' = Countdown
         /\ \A i \in Nat, k \in Nat : Moment(i, k)' = Moment(i, k)
<1>1. Read(o) /\ cache'.size = cache.size /\ HistoryTyped
  BY RequestTypes DEF IInv
<1>2. /\ HistoryWith(o) /\ _nextReconfiguration' = Countdown
      /\ _reconfiguration_interval' = _reconfiguration_interval
  BY <1>1 DEF Read, Recorded
<1>3. /\ Before \in [Requested -> Nat]
      /\ periods'[Len(periods')] = Raised(Before, o)
      /\ scarceFor'[Len(periods')]
           = IF statSize' <= 3 * cache.size THEN Total(Raised(Before, o))
             ELSE IF Reconfigures THEN 0 ELSE scarceFor[Len(periods)]
  BY <1>1, <1>2, HistoryStep
<1>4. Elapsed' = Total(Raised(Before, o))
  <2>1. Elapsed' = Total(periods'[Len(periods')])
    BY DEF Elapsed
  <2> QED BY <1>3, <2>1
<1>5. Total(Raised(Before, o)) = Total(Before) + 1
  BY <1>3, RaisedTotal
<1>6. Total(Before) = IF Reconfigures THEN 0 ELSE Elapsed
  BY NoRequestsTotal DEF Before, Elapsed, Last
<1>7. Elapsed \in Nat /\ LastScarce \in Nat
  <2>1. /\ periods[Len(periods)] \in [Requested -> Nat]
        /\ scarceFor[Len(periods)] \in Nat
    BY <1>1, ElementOfSeq DEF HistoryTyped
  <2>2. Total(periods[Len(periods)]) \in Nat
    BY <2>1, TotalNat
  <2> QED BY <2>1, <2>2 DEF Elapsed, LastScarce
<1>8. Scarce' <=> statSize' <= 3 * cache.size
  BY <1>1 DEF Scarce
<1>9. LastScarce' = scarceFor'[Len(periods')]
  BY DEF LastScarce
<1>10. \A i \in Nat, k \in Nat : Moment(i, k)' = Moment(i, k)
  BY <1>2 DEF Moment, Base
<1>11. Elapsed' = IF Reconfigures THEN 1 ELSE Elapsed + 1
  BY <1>4, <1>5, <1>6, <1>7
<1>12. LastScarce' = IF Scarce' THEN Elapsed'
                     ELSE IF Reconfigures THEN 0 ELSE LastScarce
  BY <1>3, <1>4, <1>8, <1>9 DEF LastScarce
<1> QED BY <1>2, <1>7, <1>10, <1>11, <1>12

\* The moment the countdown of the next state ends at.
LEMMA RequestCountdown ==
  ASSUME IInv, PunctualInv, NEW o \in Requested, Requests(o)
  PROVE  \E k \in Nat : CountdownInv(k)'
<1> DEFINE n == Len(periods)
<1>1. IInv' /\ TypesInv /\ HistoryTyped
  BY RequestTypes DEF IInv
<1>2. /\ Elapsed' = IF Reconfigures THEN 1 ELSE Elapsed + 1
      /\ Elapsed \in Nat /\ LastScarce \in Nat
      /\ LastScarce' = IF Scarce' THEN Elapsed'
                       ELSE IF Reconfigures THEN 0 ELSE LastScarce
      /\ _nextReconfiguration' = Countdown
      /\ \A i \in Nat, k \in Nat : Moment(i, k)' = Moment(i, k)
  BY RequestElapsed
<1>3. /\ Len(periods') = IF Reconfigures THEN n + 1 ELSE n
      /\ n \in Nat \ {0}
  BY <1>1, RequestTypes, HistoryStep DEF HistoryTyped, Read
<1>4. PICK k \in Nat : CountdownInv(k)
  BY DEF PunctualInv
<1>5. /\ _nextReconfiguration = Moment(n, k) - Elapsed + 1
      /\ k = 0 \/ Moment(n, k - 1) <= LastScarce
  BY <1>4 DEF CountdownInv
<1>6. /\ Moment(n, k) \in Nat /\ Moment(n, k + 1) = Moment(n, k) + Postponement
      /\ Postponement \in Nat \ {0}
      /\ _nextReconfiguration \in Nat \ {0}
  BY <1>1, <1>3, MomentIs DEF TypesInv
<1>7. IF Scarce THEN LastScarce = Elapsed ELSE LastScarce < Elapsed
  BY DEF PunctualInv
<1>8. \A i \in Nat, l \in Nat : 
        /\ _nextReconfiguration' = Moment(i, l) - Elapsed' + 1
        /\ l = 0 \/ Moment(i, l - 1) <= LastScarce'
        /\ i = Len(periods')
        => CountdownInv(l)'
  <2> SUFFICES ASSUME NEW i \in Nat, NEW l \in Nat,
                      _nextReconfiguration' = Moment(i, l) - Elapsed' + 1,
                      l = 0 \/ Moment(i, l - 1) <= LastScarce',
                      i = Len(periods')
               PROVE  CountdownInv(l)'
    OBVIOUS
  <2>1. Moment(Len(periods), l)' = Moment(i, l)
        /\ (l # 0 => Moment(Len(periods), l - 1)' = Moment(i, l - 1))
    <3>1. _reconfiguration_interval' = _reconfiguration_interval
      BY RequestTypes DEF Read
    <3> QED BY <3>1 DEF Moment, Base
  <2> QED BY <2>1 DEF CountdownInv
<1>9. CASE Reconfigures
  <2>1. Moment(n + 1, 0) = _reconfiguration_interval
        /\ _reconfiguration_interval \in Nat
    BY <1>1, <1>3, ParametersAssumption DEF Moment, Base, TypesInv
  <2>2. _nextReconfiguration' = _reconfiguration_interval
    BY <1>2, <1>9 DEF Countdown
  <2>3. _nextReconfiguration' = Moment(n + 1, 0) - Elapsed' + 1
    BY <1>2, <1>9, <2>1, <2>2
  <2>4. CountdownInv(0)'
    BY <1>3, <1>8, <1>9, <2>3
  <2> QED BY <2>4, Zenon
<1>10. CASE ~Reconfigures /\ Due
  <2>1. Scarce /\ Moment(n, k) = Elapsed
    BY <1>2, <1>5, <1>6, <1>10 DEF Reconfigures, Due
  <2>2. _nextReconfiguration' = Postponement
    BY <1>2, <1>10 DEF Countdown
  <2>3. _nextReconfiguration' = Moment(n, k + 1) - Elapsed' + 1
    BY <1>2, <1>6, <1>10, <2>1, <2>2
  <2>4. Moment(n, k) <= LastScarce'
    <3>1. Elapsed <= Elapsed' /\ LastScarce = Elapsed
      BY <1>2, <1>7, <1>10, <2>1
    <3> QED BY <1>2, <1>10, <2>1, <3>1
  <2>5. k + 1 \in Nat /\ (k + 1) - 1 = k /\ n \in Nat
    BY <1>3
  <2> HIDE DEF n
  <2>6. CountdownInv(k + 1)'
    BY <1>3, <1>8, <1>10, <2>3, <2>4, <2>5
  <2> QED BY <2>5, <2>6, Zenon
<1>11. CASE ~Reconfigures /\ ~Due
  <2>1. _nextReconfiguration' = _nextReconfiguration - 1
    BY <1>2, <1>11 DEF Countdown
  <2>2. _nextReconfiguration' = Moment(n, k) - Elapsed' + 1
    BY <1>2, <1>5, <1>6, <1>11, <2>1
  <2>3. LastScarce <= LastScarce'
    BY <1>2, <1>7, <1>11
  <2>4. k = 0 \/ Moment(n, k - 1) <= LastScarce'
    <3>1. k # 0 => Moment(n, k - 1) \in Nat
      <4>1. k # 0 => k - 1 \in Nat
        OBVIOUS
      <4>2. n \in Nat
        BY <1>3
      <4> HIDE DEF n
      <4> QED BY <1>1, <4>1, <4>2, MomentIs
    <3>2. LastScarce' \in Nat
      BY <1>2, <1>11
    <3> QED BY <1>2, <1>5, <2>3, <3>1, <3>2
  <2>5. CountdownInv(k)'
    BY <1>3, <1>8, <1>11, <2>2, <2>4
  <2> QED BY <2>5, Zenon
<1> QED BY <1>9, <1>10, <1>11

\* A period ends at the moment its duration says.
LEMMA PeriodEnds ==
  ASSUME IInv, PunctualInv, Reconfigures
  PROVE  Elapsed = Duration(Len(periods))
<1> DEFINE n == Len(periods)
<1>1. TypesInv /\ n \in Nat /\ Elapsed \in Nat /\ LastScarce \in Nat
  <2>1. /\ periods[n] \in [Requested -> Nat] /\ scarceFor[n] \in Nat
    BY ElementOfSeq DEF IInv, HistoryTyped
  <2>2. Total(periods[n]) \in Nat
    BY <2>1, TotalNat
  <2> QED BY <2>1, <2>2 DEF IInv, HistoryTyped, Elapsed, LastScarce
<1>2. Due /\ ~Scarce /\ LastScarce < Elapsed /\ Elapsed <= reqs
  BY DEF Reconfigures, PunctualInv
<1>3. PICK k \in Nat : CountdownInv(k)
  BY DEF PunctualInv
<1>4. Moment(n, k) \in Nat /\ k <= Moment(n, k)
  BY <1>1, MomentIs
<1>5. /\ _nextReconfiguration = Moment(n, k) - Elapsed + 1
      /\ k = 0 \/ Moment(n, k - 1) <= LastScarce
  BY <1>3 DEF CountdownInv
<1>6. Moment(n, k) = Elapsed
  BY <1>1, <1>2, <1>4, <1>5 DEF Due, TypesInv
<1>7. reqs \in Nat /\ reqs <= MaxReqs /\ MaxReqs \in Nat
  BY <1>1, ParametersAssumption DEF TypesInv
<1>8. k <= MaxReqs + 1 /\ LastScarce <= MaxReqs
  BY <1>1, <1>2, <1>4, <1>6, <1>7
<1>9. Duration(n) = Moment(n, k)
  <2>1. scarceFor[n] = LastScarce
    BY DEF LastScarce
  <2> HIDE DEF n
  <2> QED BY <1>1, <1>2, <1>5, <1>6, <1>8, <2>1, DurationIs
<1> QED BY <1>6, <1>9

LEMMA RequestPunctual ==
  ASSUME IInv, PunctualInv, NEW o \in Requested, Requests(o)
  PROVE  PunctualInv'
<1> DEFINE n == Len(periods)
           m == Len(periods')
<1>1. /\ Elapsed' = IF Reconfigures THEN 1 ELSE Elapsed + 1
      /\ Elapsed \in Nat /\ LastScarce \in Nat
      /\ LastScarce' = IF Scarce' THEN Elapsed'
                       ELSE IF Reconfigures THEN 0 ELSE LastScarce
  BY RequestElapsed
<1>2. Read(o) /\ HistoryTyped
  BY RequestTypes DEF IInv
<1>3. /\ reqs' = reqs + 1 /\ reqs \in Nat /\ HistoryWith(o)
      /\ _reconfiguration_interval' = _reconfiguration_interval
  BY <1>2 DEF Read, IInv, TypesInv
<1>4. /\ m = IF Reconfigures THEN n + 1 ELSE n
      /\ n \in Nat \ {0}
      /\ \A i \in 1..(m - 1) : /\ i \in 1..n /\ periods'[i] = periods[i]
                               /\ scarceFor'[i] = scarceFor[i]
  BY <1>2, <1>3, HistoryStep DEF HistoryTyped
<1>5. Elapsed <= reqs /\ IF Scarce THEN LastScarce = Elapsed ELSE LastScarce < Elapsed
  BY DEF PunctualInv
<1>6. Elapsed' <= reqs'
  BY <1>1, <1>3, <1>5
<1>7. LastScarce <= Elapsed
  BY <1>1, <1>5
<1>8. IF Scarce' THEN LastScarce' = Elapsed' ELSE LastScarce' < Elapsed'
  BY <1>1, <1>7
<1>9. ASSUME NEW i \in 1..(m - 1) PROVE Total(periods'[i]) = Duration(i)'
  <2>1. Duration(i)' = Duration(i)
    BY <1>3, <1>4 DEF Duration
  <2>2. periods'[i] = periods[i] /\ i \in 1..n
    BY <1>4
  <2>3. CASE i \in 1..(n - 1)
    <3>1. Total(periods[i]) = Duration(i)
      BY <2>3 DEF PunctualInv, Closed
    <3> QED BY <2>1, <2>2, <3>1
  <2>4. CASE i \notin 1..(n - 1)
    <3>1. i = n /\ Reconfigures
      BY <1>4, <2>2, <2>4
    <3>2. Total(periods[n]) = Duration(n)
      BY <3>1, PeriodEnds DEF Elapsed
    <3> QED BY <2>1, <2>2, <3>1, <3>2
  <2> QED BY <2>3, <2>4
<1>10. \A i \in Closed' : Total(periods[i])' = Duration(i)'
  <2>1. Closed' = 1..(m - 1)
    BY DEF Closed
  <2> QED BY <1>9, <2>1 DEF Total
<1>11. \E k \in Nat : CountdownInv(k)'
  BY RequestCountdown
<1> QED BY <1>6, <1>8, <1>10, <1>11, Zenon DEF PunctualInv

\* The assertion leaves the countdown and the history alone.
LEMMA StutterPunctual ==
  ASSUME PunctualInv, reqs \in Nat, reqs' = reqs \/ reqs' = reqs + 1, 
         periods \in Seq([Requested -> Nat]),  Elapsed \in Nat,
         UNCHANGED <<cache, statSize, _nextReconfiguration,
                     _reconfiguration_interval, periods, scarceFor>>
  PROVE  PunctualInv'
<1>1. Elapsed' = Elapsed /\ LastScarce' = LastScarce /\ Scarce' = Scarce
      /\ Closed' = Closed
  BY DEF Elapsed, LastScarce, Scarce, Closed
<1>2. \A i : Duration(i)' = Duration(i)
  BY DEF Duration
<1>3. \A k : CountdownInv(k)' = CountdownInv(k)
  BY <1>1 DEF CountdownInv, Moment, Base
<1>4. \A i \in Closed' : Total(periods[i])' = Duration(i)'
  BY <1>1, <1>2 DEF PunctualInv
<1>5. Elapsed' <= reqs'
  BY <1>1 DEF PunctualInv
<1> QED BY <1>1, <1>3, <1>4, <1>5 DEF PunctualInv

LEMMA PunctualInvariant == Spec => []PunctualInv
<1>1. IInv /\ PunctualInv /\ [Next]_vars => PunctualInv'
  <2> SUFFICES ASSUME IInv, PunctualInv, [Next]_vars PROVE PunctualInv'
    OBVIOUS
  <2>1. reqs \in Nat /\ periods \in Seq([Requested -> Nat])
    BY DEF IInv, TypesInv, HistoryTyped
  <2>2. Elapsed \in Nat
    <3>1. periods[Len(periods)] \in [Requested -> Nat]
      BY ElementOfSeq DEF IInv, HistoryTyped
    <3> QED BY <3>1, TotalNat DEF Elapsed
  <2>3. CASE \E o \in Requested : Requests(o)
    BY <2>3, RequestPunctual
  <2>4. CASE Abort
    BY <2>1, <2>2, <2>4, AbortTypes, StutterPunctual DEF metadata
  <2>5. CASE UNCHANGED vars
    BY <2>1, <2>2, <2>5, StutterPunctual DEF vars, metadata
  <2> QED BY <2>3, <2>4, <2>5, NextRequest
<1> QED BY <1>1, InitPunctual, TypesInvariant, PTL DEF Spec

\* Reconfigurations come after an interval and as few postponements as it
\* takes to see enough statistics.
THEOREM PunctualHolds == Spec => []Punctual
<1>1. IInv /\ PunctualInv => Punctual
  <2> SUFFICES ASSUME IInv, PunctualInv PROVE Punctual
    OBVIOUS
  <2> DEFINE n == Len(periods)
  <2>1. /\ TypesInv /\ n \in Nat
        /\ periods[n] \in [Requested -> Nat] /\ scarceFor[n] \in Nat
    BY ElementOfSeq DEF IInv, HistoryTyped
  <2>2. Elapsed \in Nat /\ LastScarce \in Nat /\ scarceFor[n] = LastScarce
    BY <2>1, TotalNat DEF Elapsed, LastScarce
  <2>3. PICK k \in Nat : CountdownInv(k)
    BY DEF PunctualInv
  <2>4. /\ _nextReconfiguration = Moment(n, k) - Elapsed + 1
        /\ k = 0 \/ Moment(n, k - 1) <= LastScarce
    BY <2>3 DEF CountdownInv
  <2>5. LastScarce <= MaxReqs
    <3>1. LastScarce <= Elapsed /\ Elapsed <= reqs /\ reqs \in Nat /\ reqs <= MaxReqs
      BY <2>1, <2>2 DEF PunctualInv, TypesInv
    <3> QED BY <2>2, <3>1, ParametersAssumption
  <2>6. Moment(n, k) <= Duration(n) /\ Duration(n) \in Nat
    <3> HIDE DEF n
    <3> QED BY <2>1, <2>2, <2>4, <2>5, DurationIs
  <2>7. Moment(n, k) \in Nat
    BY <2>1, MomentIs
  <2>8. Elapsed <= Duration(n)
    BY <2>1, <2>2, <2>4, <2>6, <2>7 DEF TypesInv
  <2> QED BY <2>8 DEF Punctual, PunctualInv, Elapsed, Last
<1> QED BY <1>1, TypesInvariant, PunctualInvariant, PTL

----------------------------------------------------------------------------
(***************************************************************************)
(* Powers.                                                                 *)
(***************************************************************************)
LEMMA PowersDef ==
  ASSUME NEW b \in Nat \ {0}, NEW n \in Nat
  PROVE  /\ Powers(b, n) \in [0..n -> Nat \ {0}] /\ Powers(b, n)[0] = 1
         /\ \A k \in 1..n : Powers(b, n)[k] = b * Powers(b, n)[k-1]
<1> DEFINE V == Nat \ {0}
           step == [k \in 1..n |-> [v \in V |-> b * v]]
           Equation(f) == [k \in 0..n |-> IF k = 0 THEN 1 ELSE b * f[k-1]]
           g == CHOOSE f : f = Equation(f)
<1>1. 1 \in V /\ step \in [1..n -> [V -> V]]
  OBVIOUS
<1>2. PICK f : IsRecursion(f, n, V, 1, step)
  <2> HIDE DEF V, step
  <2> QED BY <1>1, RecursionExists
<1>3. f \in [0..n -> V] /\ f[0] = 1 /\ \A k \in 1..n : f[k] = b * f[k-1]
  <2>1. f \in [0..n -> V] /\ f[0] = 1 /\ \A k \in 1..n : f[k] = step[k][f[k-1]]
    BY <1>2 DEF IsRecursion
  <2>2. \A k \in 1..n : k - 1 \in 0..n
    OBVIOUS
  <2> QED BY <2>1, <2>2
<1>4. f = Equation(f)
  <2>1. \A k \in 0..n : f[k] = IF k = 0 THEN 1 ELSE b * f[k-1]
    BY <1>3
  <2> QED BY <1>3, <2>1
<1>5. g = Equation(g)
  <2> HIDE DEF Equation
  <2> QED BY <1>4
<1>6. Powers(b, n) = g
  BY DEF Powers
<1> HIDE DEF g
<1>7. g[0] = 1 /\ \A k \in 1..n : g[k] = b * g[k-1]
  BY <1>5
<1> DEFINE P == {k \in 0..n : g[k] \in V}
<1>8. 0 \in P /\ \A k \in 1..n : k - 1 \in P => k \in P
  <2>1. \A k \in 1..n : k \in 0..n
    OBVIOUS
  <2> QED BY <1>7, <2>1
<1>9. P = 0..n
  <2>1. P \in SUBSET (0..n)
    OBVIOUS
  <2> HIDE DEF P
  <2> QED BY <1>8, <2>1, UptoInduction
<1>10. g \in [0..n -> V]
  <2>1. DOMAIN g = 0..n /\ g = [k \in 0..n |-> g[k]]
    BY <1>5
  <2> QED BY <1>9, <2>1
<1> QED BY <1>6, <1>7, <1>10

LEMMA PowerStep ==
  ASSUME NEW b \in Nat \ {0}, NEW n \in Nat
  PROVE  /\ Power(b, 0) = 1 /\ Power(b, n) \in Nat \ {0}
         /\ Power(b, n + 1) = b * Power(b, n)
<1> DEFINE f == Powers(b, n)
           g == Powers(b, n + 1)
<1>1. /\ f \in [0..n -> Nat \ {0}] /\ f[0] = 1 /\ \A k \in 1..n : f[k] = b * f[k-1]
  BY PowersDef
<1>2. /\ g \in [0..(n+1) -> Nat \ {0}] /\ g[0] = 1
      /\ \A k \in 1..(n+1) : g[k] = b * g[k-1]
  BY PowersDef
<1>3. Power(b, n) = f[n] /\ Power(b, n + 1) = g[n + 1] /\ Power(b, 0) = Powers(b, 0)[0]
  BY DEF Power
<1>4. Powers(b, 0)[0] = 1
  BY PowersDef
<1> HIDE DEF f, g
<1> DEFINE P == {k \in 0..n : f[k] = g[k]}
<1>5. 0 \in P /\ \A k \in 1..n : k - 1 \in P => k \in P
  <2>1. \A k \in 1..n : k \in 0..n /\ k \in 1..(n+1)
    OBVIOUS
  <2> QED BY <1>1, <1>2, <2>1
<1>6. P = 0..n
  <2>1. P \in SUBSET (0..n)
    OBVIOUS
  <2> HIDE DEF P
  <2> QED BY <1>5, <2>1, UptoInduction
<1>7. n \in P /\ n \in 0..n /\ n + 1 \in 1..(n+1) /\ (n + 1) - 1 = n
  BY <1>6
<1>8. f[n] = g[n]
  BY <1>7
<1> QED BY <1>1, <1>2, <1>3, <1>4, <1>7, <1>8

LEMMA PowerGrows ==
  ASSUME NEW n \in Nat
  PROVE  /\ Power(3, n) \in Nat \ {0} /\ Power(3, n + 1) = 3 * Power(3, n)
         /\ Power(10, n) \in Nat \ {0} /\ Power(10, n + 1) = 10 * Power(10, n)
         /\ Power(3, n) <= Power(10, n)
<1> DEFINE P == {k \in 0..n : Power(3, k) <= Power(10, k)}
<1>1. 0 \in P
  BY PowerStep
<1>2. ASSUME NEW k \in 1..n, k - 1 \in P PROVE k \in P
  <2>1. k - 1 \in Nat /\ (k - 1) + 1 = k /\ k \in 0..n
    OBVIOUS
  <2> DEFINE j == k - 1
  <2> HIDE DEF j
  <2>2. /\ Power(3, j) \in Nat \ {0} /\ Power(3, j + 1) = 3 * Power(3, j)
        /\ Power(10, j) \in Nat \ {0} /\ Power(10, j + 1) = 10 * Power(10, j)
    BY <2>1, PowerStep DEF j
  <2>3. Power(3, j) <= Power(10, j) /\ j + 1 = k
    BY <1>2, <2>1 DEF j
  <2>4. Power(3, j + 1) <= Power(10, j + 1)
    BY <2>2, <2>3
  <2> QED BY <2>1, <2>3, <2>4
<1>3. P = 0..n
  <2>1. P \in SUBSET (0..n)
    OBVIOUS
  <2> HIDE DEF P
  <2> QED BY <1>1, <1>2, <2>1, UptoInduction
<1>4. n \in P
  BY <1>3
<1>5. Power(3, n) <= Power(10, n)
  BY <1>4
<1>6. Power(3, n) \in Nat \ {0} /\ Power(3, n + 1) = 3 * Power(3, n)
  BY PowerStep
<1>7. Power(10, n) \in Nat \ {0} /\ Power(10, n + 1) = 10 * Power(10, n)
  BY PowerStep
<1> QED BY <1>5, <1>6, <1>7

----------------------------------------------------------------------------
(***************************************************************************)
(* Statistics fade.                                                        *)
(*                                                                         *)
(* Of each object: what it was requested in the current period is in the   *)
(* interval's map; after a period with requests at least 0.7 is kept of    *)
(* it, which another period leaves above the 0.1 that drops it.            *)
(***************************************************************************)
ActiveIn(ps, o)  == {i \in 1..(Len(ps) - 1) : ps[i][o] > 0}
SilenceIn(ps, o) == (Len(ps) - 1) - Max(ActiveIn(ps, o))
PeakIn(ps, o)    == Max({ps[i][o] : i \in ActiveIn(ps, o)})

Fades(ps, kept, o) ==
  /\ ActiveIn(ps, o) # {} /\ SilenceIn(ps, o) <= 1 => o \in DOMAIN kept
  /\ ActiveIn(ps, o) # {} /\ SilenceIn(ps, o) = 0 => 7 * Unit <= 10 * kept[o]
  /\ o \in DOMAIN kept =>
       /\ ActiveIn(ps, o) # {} /\ ~Small(kept[o])
       /\ kept[o] * Power(10, SilenceIn(ps, o))
            <= PeakIn(ps, o) * Unit * Power(3, SilenceIn(ps, o))

InInterval(o) ==
  /\ o \in DOMAIN _intervalMetadata <=> periods[Len(periods)][o] > 0
  /\ o \in DOMAIN _intervalMetadata =>
       _intervalMetadata[o] = periods[Len(periods)][o] * Unit

FadeInv == \A o \in Requested : Fades(periods, _longTermMetadata, o) /\ InInterval(o)

\* The greatest number of a nonempty finite set.
LEMMA MaxFinite ==
  ASSUME NEW T \in SUBSET Nat, T # {}, IsFiniteSet(T)
  PROVE  Max(T) \in T /\ \A m \in T : m <= Max(T)
<1>1. PICK n \in Nat : T \subseteq 0..n
  BY FiniteBounded
<1>2. \A m \in T : m <= n
  BY <1>1
<1> QED BY <1>2, MaxGreatest

\* The greatest value a function has on some indices.
LEMMA MaxValue ==
  ASSUME NEW n \in Nat, NEW A \in SUBSET (1..n), A # {}, NEW v \in [A -> Nat]
  PROVE  /\ \E i \in A : Max({v[j] : j \in A}) = v[i]
         /\ \A i \in A : v[i] <= Max({v[j] : j \in A})
         /\ Max({v[j] : j \in A}) \in Nat
<1> DEFINE T == {v[j] : j \in A}
<1>1. IsFiniteSet(A)
  BY CardInterval, FS_Subset
<1>2. v \in Surjection(A, T)
  BY DEF Surjection
<1>3. T \in SUBSET Nat /\ T # {} /\ \A i \in A : v[i] \in T
  OBVIOUS
<1>4. \A m \in T : \E i \in A : m = v[i]
  OBVIOUS
<1> HIDE DEF T
<1>5. IsFiniteSet(T)
  BY <1>1, <1>2, FS_Surjection
<1>6. Max(T) \in T /\ \A m \in T : m <= Max(T)
  BY <1>3, <1>5, MaxFinite
<1> QED BY <1>3, <1>4, <1>6 DEF T

\* The active periods are closed ones, the last of them the silence ago.
LEMMA ActiveIs ==
  ASSUME NEW ps \in Seq([Requested -> Nat]), Len(ps) \in Nat \ {0},
         NEW o \in Requested, ActiveIn(ps, o) # {}
  PROVE  /\ ActiveIn(ps, o) \subseteq 1..(Len(ps) - 1)
         /\ Max(ActiveIn(ps, o)) \in ActiveIn(ps, o) /\ \A i \in ActiveIn(ps, o) : i <= Max(ActiveIn(ps, o))
         /\ SilenceIn(ps, o) \in Nat /\ PeakIn(ps, o) \in Nat
         /\ \A i \in ActiveIn(ps, o) : ps[i][o] <= PeakIn(ps, o)
         /\ \E i \in ActiveIn(ps, o) : PeakIn(ps, o) = ps[i][o]
<1> DEFINE n == Len(ps)
           A == ActiveIn(ps, o)
           v == [i \in A |-> ps[i][o]]
<1>1. n \in Nat /\ n - 1 \in Nat /\ \A i \in 1..n : ps[i][o] \in Nat
  <2>1. \A i \in 1..n : ps[i] \in [Requested -> Nat]
    BY ElementOfSeq
  <2> QED BY <2>1
<1>2. A \in SUBSET (1..(n - 1)) /\ A \in SUBSET Nat /\ A # {}
  BY <1>1 DEF ActiveIn
<1>3. v \in [A -> Nat]
  BY <1>1, <1>2
<1>4. IsFiniteSet(A)
  BY <1>1, <1>2, CardInterval, FS_Subset
<1>5. {v[j] : j \in A} = {ps[i][o] : i \in A}
  OBVIOUS
<1>6. \A i \in A : v[i] = ps[i][o]
  OBVIOUS
<1> HIDE DEF v
<1>7. /\ \E i \in A : PeakIn(ps, o) = v[i]
      /\ \A i \in A : v[i] <= PeakIn(ps, o)
      /\ PeakIn(ps, o) \in Nat
  <2> DEFINE p == Max({v[j] : j \in A})
  <2>1. (\E i \in A : p = v[i]) /\ (\A i \in A : v[i] <= p) /\ p \in Nat
    <3> HIDE DEF A, n
    <3> QED BY <1>1, <1>2, <1>3, MaxValue
  <2>2. PeakIn(ps, o) = p
    BY <1>5 DEF PeakIn
  <2> HIDE DEF p
  <2> QED BY <2>1, <2>2
<1>8. Max(A) \in A /\ \A i \in A : i <= Max(A)
  <2> HIDE DEF A
  <2> QED BY <1>2, <1>4, MaxFinite
<1>9. SilenceIn(ps, o) \in Nat
  BY <1>1, <1>2, <1>8 DEF SilenceIn
<1> QED BY <1>2, <1>6, <1>7, <1>8, <1>9

\* What the bound says of the count itself: it is at most the peak.
LEMMA FadedBelow ==
  ASSUME NEW l \in Nat, NEW x \in Nat, NEW a \in Nat \ {0}, NEW b \in Nat \ {0},
         a <= b, l * b <= x * a
  PROVE  l <= x
<1>1. SUFFICES ASSUME x + 1 <= l PROVE FALSE
  OBVIOUS
<1>2. (x + 1) * b <= l * b /\ (x + 1) * b = x * b + b /\ x * b \in Nat
  BY <1>1, Multiples
<1>3. x * a <= x * b
  <2>1. CASE x = 0
    BY <2>1
  <2>2. CASE x # 0
    <3>1. a * x <= b * x
      BY <2>2, Multiples
    <3> QED BY <3>1
  <2> QED BY <2>1, <2>2
<1>4. l * b \in Nat /\ x * a \in Nat
  OBVIOUS
<1> QED BY <1>2, <1>3, <1>4

\* One more period: both sides of the bound are multiplied.
LEMMA FadedFurther ==
  ASSUME NEW l \in Nat, NEW d \in Nat, NEW x \in Nat,
         NEW a \in Nat, NEW b \in Nat, l * b <= x * a, 10 * d <= 3 * l
  PROVE  d * (10 * b) <= x * (3 * a)
<1>1. (10 * d) * b <= (3 * l) * b
  OBVIOUS
<1>2. d * (10 * b) = (10 * d) * b /\ (3 * l) * b = 3 * (l * b) /\ x * (3 * a) = 3 * (x * a)
  OBVIOUS
<1>3. l * b \in Nat /\ x * a \in Nat /\ 3 * (l * b) <= 3 * (x * a)
  OBVIOUS
<1>4. (10 * d) * b \in Nat
  OBVIOUS
<1> QED BY <1>1, <1>2, <1>3, <1>4

\* 7/10 of whole requests are a number.
LEMMA MergedWhole ==
  ASSUME NEW p \in Nat \ {0}
  PROVE  /\ p * Unit \in Nat /\ Unit <= p * Unit /\ Unit >= 10
         /\ 10 * Merged(p * Unit) = 7 * (p * Unit)
<1>1. PICK u \in Nat \ {0} : Unit = 10 * u
  <2>1. Unit \in Nat \ {0} /\ Unit % 10 = 0
    BY UnitAssumption
  <2>2. Unit = 10 * (Unit \div 10) + (Unit % 10)
    <3>1. Unit \in Nat
      BY <2>1
    <3> QED BY <3>1
  <2>3. Unit \div 10 \in Nat
    BY <2>1
  <2> DEFINE u == Unit \div 10
  <2> HIDE DEF u
  <2>4. Unit = 10 * u /\ u \in Nat
    BY <2>1, <2>2, <2>3 DEF u
  <2>5. u # 0
    BY <2>1, <2>4
  <2> QED BY <2>4, <2>5
<1>2. p * u \in Nat
  OBVIOUS
<1>3. p * Unit = 10 * (p * u)
  BY <1>1
<1> DEFINE x == p * u
<1> HIDE DEF x
<1>4. p * Unit = 10 * x /\ x \in Nat
  BY <1>2, <1>3 DEF x
<1>5. Merged(10 * x) = 7 * x
  BY <1>4 DEF Merged
<1>6. Unit <= p * Unit
  <2>1. Unit \in Nat
    BY <1>1
  <2>2. 1 * Unit <= p * Unit
    BY <1>1, Multiples
  <2> QED BY <2>1, <2>2
<1> QED BY <1>1, <1>4, <1>5, <1>6

\* The closed periods are all that counts.
LEMMA FadesSame ==
  ASSUME NEW ps, NEW qs, Len(qs) = Len(ps), \A i \in 1..(Len(ps) - 1) : qs[i] = ps[i],
         NEW kept, NEW o, Fades(ps, kept, o)
  PROVE  Fades(qs, kept, o)
<1>1. ActiveIn(qs, o) = ActiveIn(ps, o)
  BY DEF ActiveIn
<1>2. SilenceIn(qs, o) = SilenceIn(ps, o)
  BY <1>1 DEF SilenceIn
<1>3. \A i \in ActiveIn(ps, o) : qs[i][o] = ps[i][o]
  BY DEF ActiveIn
<1>4. PeakIn(qs, o) = PeakIn(ps, o)
  <2>1. {qs[i][o] : i \in ActiveIn(qs, o)} = {ps[i][o] : i \in ActiveIn(ps, o)}
    BY <1>1, <1>3
  <2> QED BY <2>1 DEF PeakIn
<1> QED BY <1>1, <1>2, <1>4 DEF Fades

\* qs has one period more than ps, the last of ps being closed in it.
Closes(qs, ps) ==
  /\ ps \in Seq([Requested -> Nat]) /\ qs \in Seq([Requested -> Nat])
  /\ Len(ps) \in Nat \ {0} /\ Len(qs) = Len(ps) + 1
  /\ \A i \in 1..Len(ps) : qs[i] = ps[i]

\* A period without requests for an object: it has been silent for longer.
LEMMA FadesSilent ==
  ASSUME NEW ps, NEW qs, Closes(qs, ps), NEW o \in Requested, ps[Len(ps)][o] = 0,
         NEW old, Counts(old), Fades(ps, old, o),
         NEW kept,
         o \in DOMAIN old /\ ~Small(Decayed(old[o])) => o \in DOMAIN kept,
         o \in DOMAIN kept => /\ o \in DOMAIN old /\ kept[o] = Decayed(old[o])
                              /\ ~Small(kept[o])
  PROVE  Fades(qs, kept, o)
<1> DEFINE n == Len(ps)
<1>1. /\ ps \in Seq([Requested -> Nat]) /\ n \in Nat \ {0} /\ Len(qs) = n + 1
      /\ \A i \in 1..n : qs[i] = ps[i]
  BY DEF Closes
<1>2. ActiveIn(qs, o) = ActiveIn(ps, o)
  BY <1>1 DEF ActiveIn
<1>3. CASE ActiveIn(ps, o) = {}
  BY <1>2, <1>3 DEF Fades
<1>4. CASE ActiveIn(ps, o) # {}
  <2> DEFINE s == SilenceIn(ps, o)
             x == PeakIn(ps, o) * Unit
  <2>1. s \in Nat /\ PeakIn(ps, o) \in Nat /\ ActiveIn(ps, o) \subseteq 1..(n - 1)
        /\ Max(ActiveIn(ps, o)) \in ActiveIn(ps, o)
    BY <1>1, <1>4, ActiveIs
  <2>2. SilenceIn(qs, o) = s + 1
    BY <1>1, <1>2, <2>1 DEF SilenceIn
  <2>3. PeakIn(qs, o) = PeakIn(ps, o)
    <3>1. {qs[i][o] : i \in ActiveIn(qs, o)} = {ps[i][o] : i \in ActiveIn(ps, o)}
      <4>1. \A i \in ActiveIn(ps, o) : qs[i] = ps[i]
        BY <1>1 DEF ActiveIn
      <4> QED BY <1>2, <4>1
    <3> QED BY <3>1 DEF PeakIn
  <2>4. o \in DOMAIN old => old[o] \in Nat
    BY DEF Counts
  <2>5. Unit \in Nat /\ Unit >= 10 /\ x \in Nat
    <3>1. Unit \in Nat
      BY UnitAssumption
    <3>2. Unit >= 10
      BY MergedWhole
    <3> QED BY <2>1, <3>1, <3>2
  <2> HIDE DEF s
  <2>6. s + 1 <= 1 => o \in DOMAIN kept
    <3> SUFFICES ASSUME s + 1 <= 1 PROVE o \in DOMAIN kept
      OBVIOUS
    <3>1. s = 0
      BY <2>1
    <3>2. o \in DOMAIN old /\ 7 * Unit <= 10 * old[o]
      BY <1>4, <3>1 DEF Fades, s
    <3>3. /\ Decayed(old[o]) \in Nat /\ 3 * old[o] <= 10 * Decayed(old[o]) + 9
          /\ old[o] \in Nat
      BY <2>4, <3>2, Weights
    <3>4. Unit <= 10 * Decayed(old[o])
      BY <2>5, <3>2, <3>3
    <3>5. ~Small(Decayed(old[o]))
      BY <2>5, <3>3, <3>4 DEF Small
    <3> QED BY <3>2, <3>5
  <2>7. s + 1 # 0
    BY <2>1
  <2>8. o \in DOMAIN kept => kept[o] * Power(10, s + 1) <= x * Power(3, s + 1)
    <3> SUFFICES ASSUME o \in DOMAIN kept
                 PROVE  kept[o] * Power(10, s + 1) <= x * Power(3, s + 1)
      OBVIOUS
    <3>1. o \in DOMAIN old /\ kept[o] = Decayed(old[o]) /\ old[o] \in Nat
      BY <2>4
    <3>2. old[o] * Power(10, s) <= x * Power(3, s)
      BY <3>1 DEF Fades, s
    <3>3. kept[o] \in Nat /\ 10 * kept[o] <= 3 * old[o]
      BY <3>1, Weights
    <3>4. /\ Power(10, s) \in Nat /\ Power(10, s + 1) = 10 * Power(10, s)
          /\ Power(3, s) \in Nat /\ Power(3, s + 1) = 3 * Power(3, s)
      BY <2>1, PowerGrows
    <3> DEFINE a == Power(3, s)
               b == Power(10, s)
    <3> HIDE DEF x, a, b
    <3>5. a \in Nat /\ b \in Nat /\ old[o] * b <= x * a
      BY <3>2, <3>4 DEF a, b
    <3>6. kept[o] * (10 * b) <= x * (3 * a)
      BY <2>5, <3>1, <3>3, <3>5, FadedFurther
    <3> QED BY <3>4, <3>6 DEF a, b
  <2> QED BY <1>2, <1>4, <2>2, <2>3, <2>6, <2>7, <2>8 DEF Fades
<1> QED BY <1>3, <1>4

\* A period with requests for an object: its silence is over, and its best
\* period is this one or the best so far.
LEMMA ActiveAgain ==
  ASSUME NEW ps, NEW qs, Closes(qs, ps), NEW o \in Requested, ps[Len(ps)][o] > 0
  PROVE  /\ ActiveIn(qs, o) # {} /\ SilenceIn(qs, o) = 0
         /\ PeakIn(qs, o) \in Nat /\ ps[Len(ps)][o] <= PeakIn(qs, o)
         /\ ActiveIn(ps, o) # {} =>
              /\ SilenceIn(ps, o) \in Nat
              /\ PeakIn(ps, o) \in Nat /\ PeakIn(ps, o) <= PeakIn(qs, o)
<1> DEFINE n == Len(ps)
           A == ActiveIn(qs, o)
<1>1. /\ ps \in Seq([Requested -> Nat]) /\ qs \in Seq([Requested -> Nat])
      /\ n \in Nat \ {0} /\ Len(qs) = n + 1 /\ Len(qs) \in Nat \ {0}
      /\ \A i \in 1..n : qs[i] = ps[i]
  BY DEF Closes
<1>2. n \in A /\ ActiveIn(ps, o) \subseteq A
  <2>1. n \in 1..(Len(qs) - 1) /\ n \in 1..n
    <3> HIDE DEF n
    <3> QED BY <1>1
  <2>2. qs[n] = ps[n]
    BY <1>1, <2>1
  <2>3. qs[n][o] > 0
    BY <2>2
  <2>4. \A i \in 1..(n - 1) : i \in 1..(Len(qs) - 1) /\ qs[i] = ps[i]
    <3> HIDE DEF n
    <3> QED BY <1>1
  <2> QED BY <2>1, <2>3, <2>4 DEF ActiveIn
<1>3. /\ A \subseteq 1..n /\ Max(A) \in A /\ \A i \in A : i <= Max(A)
      /\ PeakIn(qs, o) \in Nat /\ \A i \in A : qs[i][o] <= PeakIn(qs, o)
  <2>1. Len(qs) - 1 = n /\ ActiveIn(qs, o) # {}
    BY <1>1, <1>2
  <2> HIDE DEF n
  <2> QED BY <1>1, <2>1, ActiveIs
<1>4. SilenceIn(qs, o) = 0
  <2>1. Max(A) = n
    BY <1>1, <1>2, <1>3
  <2> QED BY <1>1, <2>1 DEF SilenceIn
<1>5. ps[n][o] <= PeakIn(qs, o)
  <2>1. n \in 1..n
    <3> HIDE DEF n
    <3> QED BY <1>1
  <2>2. qs[n] = ps[n]
    BY <1>1, <2>1
  <2>3. qs[n][o] <= PeakIn(qs, o)
    <3> HIDE DEF n, A
    <3> QED BY <1>2, <1>3
  <2> QED BY <2>2, <2>3
<1>6. ASSUME ActiveIn(ps, o) # {}
      PROVE  /\ SilenceIn(ps, o) \in Nat
             /\ PeakIn(ps, o) \in Nat /\ PeakIn(ps, o) <= PeakIn(qs, o)
  <2>1. /\ SilenceIn(ps, o) \in Nat /\ PeakIn(ps, o) \in Nat
        /\ \E i \in ActiveIn(ps, o) : PeakIn(ps, o) = ps[i][o]
    BY <1>1, <1>6, ActiveIs
  <2>2. PICK i \in ActiveIn(ps, o) : PeakIn(ps, o) = ps[i][o]
    BY <2>1
  <2>3. i \in A /\ i \in 1..n
    BY <1>2, <1>3
  <2>4. qs[i] = ps[i]
    BY <1>1, <2>3
  <2>5. qs[i][o] <= PeakIn(qs, o)
    BY <1>3, <2>3
  <2> QED BY <2>1, <2>2, <2>4, <2>5
<1> QED BY <1>2, <1>3, <1>4, <1>5, <1>6

\* The count stays below the peak when the peak's share is added to it.
LEMMA FadedShare ==
  ASSUME NEW a \in Nat, NEW s \in Nat, NEW y \in Nat, NEW x \in Nat, y <= x,
         a * Power(10, s) <= y * Power(3, s),
         NEW z \in Nat, z <= x, NEW d \in Nat, 10 * d <= 3 * a + 7 * z
  PROVE  d <= x
<1> DEFINE b == Power(10, s)
           c == Power(3, s)
<1>1. b \in Nat \ {0} /\ c \in Nat \ {0} /\ c <= b
  BY PowerGrows
<1> HIDE DEF b, c
<1>2. a * b <= y * c
  BY DEF b, c
<1>3. a <= y
  BY <1>1, <1>2, FadedBelow
<1> QED BY <1>3

FadesIn(old, o, p, kept) ==
  /\ o \in DOMAIN kept /\ kept[o] \in Nat /\ 7 * Unit <= 10 * kept[o]
  /\ IF o \in DOMAIN old THEN 10 * kept[o] <= 3 * old[o] + 7 * (p * Unit)
     ELSE kept[o] = p * Unit

LEMMA FadesActive ==
  ASSUME NEW ps, NEW qs, Closes(qs, ps), NEW o \in Requested,
         NEW p \in Nat \ {0}, p = ps[Len(ps)][o],
         NEW old, Counts(old), Fades(ps, old, o),
         NEW kept, FadesIn(old, o, p, kept)
  PROVE  Fades(qs, kept, o)
<1> DEFINE x == PeakIn(qs, o) * Unit
           z == p * Unit
<1>1. /\ ActiveIn(qs, o) # {} /\ SilenceIn(qs, o) = 0
      /\ PeakIn(qs, o) \in Nat /\ p <= PeakIn(qs, o)
      /\ ActiveIn(ps, o) # {} =>
           /\ SilenceIn(ps, o) \in Nat
           /\ PeakIn(ps, o) \in Nat /\ PeakIn(ps, o) <= PeakIn(qs, o)
  BY ActiveAgain
<1>2. Unit \in Nat \ {0}
  BY UnitAssumption
<1>3. x \in Nat /\ z \in Nat /\ z <= x
  BY <1>1, <1>2, Multiples
<1>4. /\ o \in DOMAIN kept /\ kept[o] \in Nat /\ 7 * Unit <= 10 * kept[o]
      /\ IF o \in DOMAIN old THEN 10 * kept[o] <= 3 * old[o] + 7 * z
         ELSE kept[o] = z
  BY DEF FadesIn
<1>5. kept[o] <= x
  <2>1. CASE o \notin DOMAIN old
    BY <1>3, <1>4, <2>1
  <2>2. CASE o \in DOMAIN old
    <3> DEFINE s == SilenceIn(ps, o)
               y == PeakIn(ps, o) * Unit
    <3>1. old[o] \in Nat /\ ActiveIn(ps, o) # {}
          /\ old[o] * Power(10, s) <= y * Power(3, s)
      BY <2>2 DEF Fades, Counts
    <3>2. s \in Nat /\ y \in Nat /\ y <= x
      BY <1>1, <1>2, <3>1, Multiples
    <3> HIDE DEF s, y, x, z
    <3>3. 10 * kept[o] <= 3 * old[o] + 7 * z /\ kept[o] \in Nat
      BY <1>4, <2>2
    <3> QED BY <1>3, <3>1, <3>2, <3>3, FadedShare
  <2> QED BY <2>1, <2>2
<1>6. ~Small(kept[o])
  BY <1>2, <1>4 DEF Small
<1>7. kept[o] * Power(10, 0) <= x * Power(3, 0)
  <2>1. Power(10, 0) = 1 /\ Power(3, 0) = 1
    BY PowerStep
  <2> HIDE DEF x, z
  <2> QED BY <1>3, <1>4, <1>5, <2>1
<1> QED BY <1>1, <1>4, <1>6, <1>7 DEF Fades

\* What reconfigure() leaves of the statistics of an object.
LEMMA ReconfiguredFades ==
  ASSUME IInv, FadeInv, Reconfigures, NEW o \in Requested,
         NEW qs, Closes(qs, periods)
  PROVE  Fades(qs, LongTerm, o)
<1> DEFINE p == periods[Len(periods)][o]
           old == _longTermMetadata
<1>1. /\ Counts(old) /\ Counts(_intervalMetadata)
      /\ Fades(periods, old, o) /\ InInterval(o)
  BY DEF IInv, StatisticsInv, FadeInv
<1>2. /\ Smoothed \in [Seen -> Nat] /\ Dropped = {x \in Seen : Small(Smoothed[x])}
  BY <1>1, SmoothedCounts
<1>3. LongTerm = [x \in Seen \ Dropped |-> Smoothed[x]]
  BY <1>2 DEF LongTerm, Restrict
<1>4. p \in Nat
  <2>1. periods[Len(periods)] \in [Requested -> Nat]
    BY ElementOfSeq DEF IInv, HistoryTyped
  <2> QED BY <2>1
<1>5. o \in DOMAIN old => old[o] \in Nat
  BY <1>1 DEF Counts
<1>6. CASE p > 0
  <2>1. o \in DOMAIN _intervalMetadata /\ _intervalMetadata[o] = p * Unit /\ o \in Seen
    BY <1>1, <1>6 DEF InInterval, Seen
  <2>2. /\ p * Unit \in Nat /\ Unit <= p * Unit /\ Unit >= 10
        /\ 10 * Merged(p * Unit) = 7 * (p * Unit)
    BY <1>4, <1>6, MergedWhole
  <2>3. Smoothed[o] = IF o \in DOMAIN old THEN Decayed(old[o]) + Merged(p * Unit)
                      ELSE p * Unit
    BY <2>1 DEF Smoothed, Seen
  <2>4. Smoothed[o] \in Nat /\ Unit \in Nat \ {0} /\ Merged(p * Unit) \in Nat
    BY <1>2, <2>1, <2>2, UnitAssumption, Weights
  <2> DEFINE z == p * Unit
  <2> HIDE DEF z, p
  <2>5. 7 * Unit <= 10 * Smoothed[o]
        /\ IF o \in DOMAIN old THEN 10 * Smoothed[o] <= 3 * old[o] + 7 * z
           ELSE Smoothed[o] = z
    <3>1. CASE o \in DOMAIN old
      <4>1. Decayed(old[o]) \in Nat /\ 10 * Decayed(old[o]) <= 3 * old[o]
            /\ old[o] \in Nat
        BY <1>5, <3>1, Weights
      <4>2. /\ Smoothed[o] = Decayed(old[o]) + Merged(z)
            /\ z \in Nat /\ Unit <= z /\ 10 * Merged(z) = 7 * z /\ Merged(z) \in Nat
        BY <2>2, <2>3, <2>4, <3>1 DEF z
      <4>3. 7 * Unit <= 10 * Smoothed[o]
        BY <2>4, <4>1, <4>2
      <4>4. 10 * Smoothed[o] <= 3 * old[o] + 7 * z
        BY <4>1, <4>2
      <4> QED BY <3>1, <4>3, <4>4
    <3>2. CASE o \notin DOMAIN old
      BY <2>2, <2>3, <2>4, <3>2 DEF z
    <3> QED BY <3>1, <3>2
  <2>6. ~Small(Smoothed[o])
    BY <2>4, <2>5 DEF Small
  <2>7. o \in DOMAIN LongTerm /\ LongTerm[o] = Smoothed[o]
    BY <1>2, <1>3, <2>1, <2>6
  <2>8. FadesIn(old, o, p, LongTerm)
    BY <2>4, <2>5, <2>7 DEF FadesIn, z
  <2>9. p \in Nat \ {0} /\ p = periods[Len(periods)][o]
    BY <1>4, <1>6 DEF p
  <2> QED BY <1>1, <2>8, <2>9, FadesActive
<1>7. CASE p = 0
  <2>1. o \notin DOMAIN _intervalMetadata
    BY <1>1, <1>7 DEF InInterval
  <2>2. o \in Seen <=> o \in DOMAIN old
    BY <2>1 DEF Seen
  <2>3. o \in DOMAIN old => Smoothed[o] = Decayed(old[o])
    <3>1. o \in DOMAIN old => Smoothed[o] = Decayed(old[o]) + 0
      BY <2>1 DEF Smoothed
    <3>2. o \in DOMAIN old => Decayed(old[o]) \in Nat
      BY <1>5, Weights
    <3> QED BY <3>1, <3>2
  <2>4. o \in DOMAIN LongTerm <=> o \in Seen /\ ~Small(Smoothed[o])
    BY <1>2, <1>3
  <2>5. o \in DOMAIN LongTerm => LongTerm[o] = Smoothed[o]
    BY <1>3
  <2> QED BY <1>1, <1>7, <2>2, <2>3, <2>4, <2>5, FadesSilent
<1> QED BY <1>4, <1>6, <1>7

\* A request is counted once in the interval and once in the history.
LEMMA RequestInterval ==
  ASSUME IInv, FadeInv, NEW o \in Requested, Requests(o), NEW x \in Requested
  PROVE  InInterval(x)'
<1> DEFINE b == Before[x]
           last == periods'[Len(periods')][x]
<1>1. Read(o) /\ HistoryTyped /\ Counts(_longTermMetadata) /\ Counts(_intervalMetadata)
      /\ InInterval(x)
  BY RequestTypes DEF IInv, StatisticsInv, FadeInv
<1>2. HistoryWith(o) /\ Recorded(o)
  BY <1>1 DEF Read
<1>3. /\ Before \in [Requested -> Nat]
      /\ periods'[Len(periods')] = Raised(Before, o)
  BY <1>1, <1>2, HistoryStep
<1>4. b \in Nat /\ last = IF x = o THEN b + 1 ELSE b
  <2>1. /\ Raised(Before, o)[o] = Before[o] + 1
        /\ x # o => Raised(Before, o)[x] = Before[x]
    BY <1>3, RaisedTotal
  <2>2. b \in Nat
    BY <1>3
  <2>3. last = Raised(Before, o)[x]
    BY <1>3
  <2>4. CASE x = o
    BY <2>1, <2>2, <2>3, <2>4
  <2>5. CASE x # o
    BY <2>1, <2>2, <2>3, <2>5
  <2> QED BY <2>2, <2>4, <2>5
<1>5. Unit \in Nat
  BY UnitAssumption
<1>6. Counts(Interval)
  BY <1>1, LeftCounts
<1>7. /\ x \in DOMAIN Interval <=> b > 0
      /\ x \in DOMAIN Interval => Interval[x] = b * Unit
  <2>1. CASE Reconfigures
    <3>1. Interval = <<>> /\ DOMAIN <<>> = {}
      BY <2>1, EmptySeq DEF Interval
    <3>2. b = 0
      BY <2>1 DEF Before, NoRequests
    <3> QED BY <3>1, <3>2
  <2>2. CASE ~Reconfigures
    <3>1. Interval = _intervalMetadata /\ b = periods[Len(periods)][x]
      BY <2>2 DEF Interval, Before, Last
    <3> QED BY <1>1, <3>1 DEF InInterval
  <2> QED BY <2>1, <2>2
<1> DEFINE g == _intervalMetadata'
<1>8. /\ DOMAIN g = DOMAIN Interval \cup {o}
      /\ g[o] = Unit + IF o \in DOMAIN Interval THEN Interval[o] ELSE 0
      /\ \A y \in DOMAIN Interval : y # o => g[y] = Interval[y]
  BY <1>2, <1>6, CountsOneMore DEF Recorded
<1>9. InInterval(x)' <=> /\ x \in DOMAIN g <=> last > 0
                         /\ x \in DOMAIN g => g[x] = last * Unit
  BY DEF InInterval
<1> HIDE DEF b, last, g
<1>10. CASE x = o
  <2>1. (b + 1) * Unit = b * Unit + Unit /\ b * Unit \in Nat
    BY <1>4, <1>5
  <2>2. x \in DOMAIN Interval => g[x] = Unit + b * Unit
    BY <1>7, <1>8, <1>10
  <2>3. x \notin DOMAIN Interval => b = 0 /\ g[x] = Unit + 0
    BY <1>4, <1>7, <1>8, <1>10
  <2>4. g[x] = (b + 1) * Unit
    <3>1. CASE x \in DOMAIN Interval
      BY <1>5, <2>1, <2>2, <3>1
    <3>2. CASE x \notin DOMAIN Interval
      BY <1>5, <2>3, <3>2
    <3> QED BY <3>1, <3>2
  <2>5. last = b + 1 /\ last > 0 /\ x \in DOMAIN g
    BY <1>4, <1>8, <1>10
  <2> QED BY <1>9, <2>4, <2>5
<1>11. CASE x # o
  <2>1. last = b /\ (x \in DOMAIN g <=> x \in DOMAIN Interval)
        /\ (x \in DOMAIN Interval => g[x] = Interval[x])
    BY <1>4, <1>8, <1>11
  <2> QED BY <1>7, <1>9, <2>1
<1> QED BY <1>10, <1>11

LEMMA RequestFades ==
  ASSUME IInv, FadeInv, NEW o \in Requested, Requests(o), NEW x \in Requested
  PROVE  Fades(periods, _longTermMetadata, x)'
<1> DEFINE qs == periods'
<1>1. Read(o) /\ HistoryTyped /\ IInv' /\ Fades(periods, _longTermMetadata, x)
  BY RequestTypes DEF IInv, FadeInv
<1>2. HistoryWith(o) /\ _longTermMetadata' = LongTerm
  BY <1>1 DEF Read, Recorded
<1>3. /\ Len(qs) = IF Reconfigures THEN Len(periods) + 1 ELSE Len(periods)
      /\ \A i \in 1..(Len(qs) - 1) : i \in 1..Len(periods) /\ qs[i] = periods[i]
  BY <1>1, <1>2, HistoryStep
<1>4. /\ periods \in Seq([Requested -> Nat]) /\ Len(periods) \in Nat \ {0}
      /\ qs \in Seq([Requested -> Nat])
  BY <1>1 DEF IInv, HistoryTyped
<1>5. Fades(periods, _longTermMetadata, x)' <=> Fades(qs, LongTerm, x)
  <2>1. Fades(periods, _longTermMetadata, x)' <=> Fades(periods', _longTermMetadata', x)
    OBVIOUS
  <2> QED BY <1>2, <2>1
<1>6. CASE Reconfigures
  <2>1. Len(qs) = Len(periods) + 1 /\ Len(qs) - 1 = Len(periods)
    BY <1>3, <1>4, <1>6
  <2>2. Closes(qs, periods)
    <3> HIDE DEF qs
    <3> QED BY <1>3, <1>4, <2>1 DEF Closes
  <2> HIDE DEF qs
  <2>3. Fades(qs, LongTerm, x)
    BY <1>6, <2>2, ReconfiguredFades
  <2> QED BY <1>5, <2>3
<1>7. CASE ~Reconfigures
  <2>1. LongTerm = _longTermMetadata
    BY <1>7 DEF LongTerm
  <2>2. Len(qs) = Len(periods)
    BY <1>3, <1>7
  <2>3. \A i \in 1..(Len(periods) - 1) : qs[i] = periods[i]
    BY <1>3, <2>2
  <2>4. Fades(periods, LongTerm, x)
    BY <1>1, <2>1
  <2> HIDE DEF qs
  <2>5. Fades(qs, LongTerm, x)
    BY <2>2, <2>3, <2>4, FadesSame
  <2> QED BY <1>5, <2>5
<1> QED BY <1>6, <1>7

LEMMA InitFades == Init => FadeInv
<1> SUFFICES ASSUME Init, NEW o \in Requested
             PROVE  Fades(periods, _longTermMetadata, o) /\ InInterval(o)
  BY DEF FadeInv
<1>1. /\ periods = <<NoRequests>> /\ _longTermMetadata = <<>>
      /\ _intervalMetadata = <<>> /\ DOMAIN <<>> = {}
  BY EmptySeq DEF Init
<1>2. Len(periods) = 1 /\ periods[1][o] = 0
  BY <1>1 DEF NoRequests
<1>3. ActiveIn(periods, o) = {}
  <2>1. 1..(Len(periods) - 1) = {}
    BY <1>2
  <2> QED BY <2>1 DEF ActiveIn
<1>4. Fades(periods, _longTermMetadata, o)
  BY <1>1, <1>3 DEF Fades
<1>5. InInterval(o)
  <2>1. o \notin DOMAIN _intervalMetadata /\ ~(periods[Len(periods)][o] > 0)
    BY <1>1, <1>2
  <2> QED BY <2>1 DEF InInterval
<1> QED BY <1>4, <1>5

LEMMA FadeInvariant == Spec => []FadeInv
<1>1. IInv /\ FadeInv /\ [Next]_vars => FadeInv'
  <2> SUFFICES ASSUME IInv, FadeInv, [Next]_vars PROVE FadeInv'
    OBVIOUS
  <2>1. CASE \E o \in Requested : Requests(o)
    BY <2>1, RequestFades, RequestInterval DEF FadeInv
  <2>2. ASSUME UNCHANGED <<metadata, periods>> PROVE FadeInv'
    BY <2>2 DEF FadeInv, Fades, InInterval, metadata
  <2>3. CASE Abort
    BY <2>2, <2>3, AbortTypes
  <2>4. CASE UNCHANGED vars
    BY <2>2, <2>4 DEF vars
  <2> QED BY <2>1, <2>3, <2>4, NextRequest
<1> QED BY <1>1, InitFades, TypesInvariant, PTL DEF Spec

\* What is kept of an object lasts two periods and fades with each of them.
THEOREM StatsFadeHolds == Spec => []StatsFade
<1>1. FadeInv => StatsFade
  <2> SUFFICES ASSUME FadeInv, NEW o \in Requested
               PROVE  /\ Active(o) # {} /\ Silence(o) <= 1
                           => o \in DOMAIN _longTermMetadata
                      /\ o \in DOMAIN _longTermMetadata =>
                           /\ Active(o) # {} /\ ~Small(_longTermMetadata[o])
                           /\ _longTermMetadata[o] * Power(10, Silence(o))
                                <= Max({periods[i][o] : i \in Active(o)})
                                     * Unit * Power(3, Silence(o))
    BY DEF StatsFade
  <2>1. Fades(periods, _longTermMetadata, o)
    BY DEF FadeInv
  <2>2. Active(o) = ActiveIn(periods, o)
    BY DEF Active, Closed, ActiveIn
  <2>3. /\ Silence(o) = SilenceIn(periods, o)
        /\ Max({periods[i][o] : i \in Active(o)}) = PeakIn(periods, o)
    BY <2>2 DEF Silence, SilenceIn, PeakIn
  <2> QED BY <2>1, <2>2, <2>3 DEF Fades
<1> QED BY <1>1, FadeInvariant, PTL
=============================================================================
