----------------------------- MODULE AdaptSize -----------------------------
(***************************************************************************)
(* AdaptSizeCache (caches/lru_variants.cpp) under the simulator's main     *)
(* loop: an LRU cache that admits with a probability it tunes, now and     *)
(* then, to smoothed statistics of the requests it has seen.               *)
(*                                                                         *)
(* The search for the best parameter is floating-point arithmetic: of its  *)
(* result, _cParam, only that it is positive matters here, so that an      *)
(* object of some size may or may not be admitted.  Request counts are     *)
(* multiples of 1/Unit request; Unit divides by 10 once for every          *)
(* reconfiguration of a run, which makes the decay exact.                  *)
(***************************************************************************)
EXTENDS LRUCache

CONSTANTS
  Lines,              \* the lines a trace may hold: [id : Ids, size : Nat]
  CacheSizes,         \* the cacheSize arguments to consider
  Intervals,          \* the values to consider for the parameter "t"
  FirstInterval,      \* _reconfiguration_interval before setPar(): 500000
  Postponement,       \* what a reconfiguration is put off by: 10000
  Unit,               \* one request
  MaxReqs,            \* bound: the length of a trace
  MaxReconfigurations \* bound: reconfigurations in a run

ASSUME LinesAssumption == Lines \subseteq Objects /\ IsFiniteSet(Lines)
ASSUME ParametersAssumption ==
  /\ CacheSizes \subseteq Nat /\ MaxReqs \in Nat
  /\ Intervals \subseteq Nat \ {0, 1}             \* assert(t > 1)
  /\ FirstInterval \in Nat \ {0} /\ Postponement \in Nat \ {0}
  /\ MaxReconfigurations \in Nat
ASSUME UnitAssumption ==
  /\ Unit \in Nat \ {0} /\ Unit % 10 = 0
  /\ Unit % (10 ^ MaxReconfigurations) = 0

VARIABLES
  file_size,                  \* whether the trace's sizes are used
  cache,                      \* the LRUCache part of *webcache
  statSize,                   \* statSize
  _reconfiguration_interval,  \* _reconfiguration_interval
  _nextReconfiguration,       \* _nextReconfiguration
  _longTermMetadata,          \* requestCount of the keys of _longTermMetadata
  _intervalMetadata,          \* requestCount of the keys of _intervalMetadata
  aborted,                    \* whether an assertion has stopped the program
  reqs, hits,
  periods,                    \* history: the requests for each object, for
                              \* each time between two reconfigurations
  scarceFor                   \* history: for how many of these requests
                              \* statSize stayed within 3 * cache size

metadata == <<statSize, _nextReconfiguration, _longTermMetadata,
              _intervalMetadata>>
vars == <<file_size, cache, metadata, _reconfiguration_interval, aborted,
          reqs, hits, periods, scarceFor>>

\* The objects requests can be for: sizes are overwritten by 1 by default.
Requested == Lines \cup {[line EXCEPT !.size = 1] : line \in Lines}

Decayed(count) == (3 * count) \div 10      \* EWMA_DECAY * count
Merged(count)  == (7 * count) \div 10      \* (1. - EWMA_DECAY) * count
Small(count)   == 10 * count < Unit        \* count < 0.1

NoRequests == [o \in Requested |-> 0]

\* The first countdown is the constructor's: setPar("t") comes after it.
Init ==
  /\ file_size \in BOOLEAN
  /\ \E cs \in CacheSizes : cache = SetSize(NewCache, cs)
  /\ statSize = 0
  /\ _reconfiguration_interval \in Intervals \cup {FirstInterval}
  /\ _nextReconfiguration = FirstInterval
  /\ _longTermMetadata = <<>> /\ _intervalMetadata = <<>>
  /\ aborted = FALSE
  /\ reqs = 0 /\ hits = 0
  /\ periods = <<NoRequests>> /\ scarceFor = <<0>>

----------------------------------------------------------------------------
\* "--_nextReconfiguration" comes to 0.
Due == _nextReconfiguration - 1 = 0

\* Not enough data has been gathered.
Scarce == statSize <= 3 * cache.size

Reconfigures == Due /\ ~Scarce

SmoothedWithoutDecay ==
  [o \in DOMAIN _longTermMetadata \cup DOMAIN _intervalMetadata |->
     IF o \notin DOMAIN _longTermMetadata THEN _intervalMetadata[o]
     ELSE _longTermMetadata[o] +
          IF o \in DOMAIN _intervalMetadata THEN Merged(_intervalMetadata[o])
          ELSE 0]

\* The counts after the decay and the merge of the interval: an object that
\* is new to the long term starts with its count unweighted.
Smoothed ==
  [o \in DOMAIN _longTermMetadata \cup DOMAIN _intervalMetadata |->
     IF o \notin DOMAIN _longTermMetadata THEN _intervalMetadata[o]
     ELSE Decayed(_longTermMetadata[o]) +
          IF o \in DOMAIN _intervalMetadata THEN Merged(_intervalMetadata[o])
          ELSE 0]

Dropped == {o \in DOMAIN Smoothed : Small(Smoothed[o])}

Sizes(objects) == MapThenSumSet(LAMBDA o : o.size, objects)

\* The long term and the interval as reconfigure() leaves them.
LongTerm == IF Reconfigures
            THEN Restrict(Smoothed, DOMAIN Smoothed \ Dropped)
            ELSE _longTermMetadata
Interval == IF Reconfigures THEN <<>> ELSE _intervalMetadata

StatSizeKeepsDropped == statSize

\* statSize as reconfigure() leaves it.
StatSize == IF Reconfigures THEN statSize - Sizes(Dropped) ELSE statSize

CountdownUnpostponed ==
  IF Reconfigures THEN _reconfiguration_interval ELSE _nextReconfiguration - 1

CountdownRestarts ==
  IF Due THEN _reconfiguration_interval ELSE _nextReconfiguration - 1

\* _nextReconfiguration as reconfigure() leaves it.
Countdown ==
  IF Reconfigures THEN _reconfiguration_interval
  ELSE IF Due THEN Postponement
  ELSE _nextReconfiguration - 1

\* AdaptSizeCache::lookup() up to the call of LRUCache::lookup(): reconfigure()
\* and the request is recorded in what it leaves.
Recorded(o) ==
  /\ statSize' = StatSize + IF o \in DOMAIN LongTerm \cup DOMAIN Interval
                            THEN 0 ELSE o.size
  /\ _nextReconfiguration' = Countdown
  /\ _longTermMetadata' = LongTerm
  /\ _intervalMetadata' = IF o \in DOMAIN Interval
                          THEN [Interval EXCEPT ![o] = @ + Unit]
                          ELSE [x \in DOMAIN Interval \cup {o} |->
                                  IF x = o THEN Unit ELSE Interval[x]]

Total(period) == SumFunction(period)

\* One more request for o; a reconfiguration starts a new period with it.
HistoryWith(o) ==
  /\ periods' = IF Reconfigures THEN Append(periods, [NoRequests EXCEPT ![o] = 1])
                ELSE [periods EXCEPT ![Len(periods)][o] = @ + 1]
  /\ LET before == IF Reconfigures THEN Append(scarceFor, 0) ELSE scarceFor
     IN  scarceFor' = IF statSize' <= 3 * cache.size
                      THEN [before EXCEPT ![Len(before)] = Total(Last(periods'))]
                      ELSE before

\* Between log2 of a size of 0 or 1 and 0 there is no room for two parameters:
\* assert(x1 < x2).
TooSmallToTune == cache.size <= 1

\* while (infile >> id >> size): the line is counted and looked up.
Read(o) ==
  /\ ~aborted /\ reqs < MaxReqs
  /\ Reconfigures => ~TooSmallToTune /\ Len(periods) <= MaxReconfigurations
  /\ reqs' = reqs + 1
  /\ Recorded(o)
  /\ HistoryWith(o)
  /\ UNCHANGED <<file_size, _reconfiguration_interval, aborted>>

RequestHit(o) ==
  /\ Read(o)
  /\ IsHit(cache, o)
  /\ cache' = Lookup(cache, o)
  /\ hits' = hits + 1

\* "roll < admitProb" may always come true, _cParam being positive.
RequestMissAdmit(o) ==
  /\ Read(o)
  /\ ~IsHit(cache, o)
  /\ cache' = Admit(Lookup(cache, o), o)
  /\ UNCHANGED hits

\* An object of size 0 is admitted with probability 1.
RequestMissReject(o) ==
  /\ Read(o)
  /\ ~IsHit(cache, o) /\ o.size > 0
  /\ cache' = Lookup(cache, o)
  /\ UNCHANGED hits

Abort ==
  /\ ~aborted /\ reqs < MaxReqs
  /\ Reconfigures /\ TooSmallToTune
  /\ reqs' = reqs + 1
  /\ aborted' = TRUE
  /\ UNCHANGED <<file_size, cache, metadata, _reconfiguration_interval, hits,
                 periods, scarceFor>>

\* The object of a line: "size = 1" unless filesize=true was given.
ObjectOf(line) == IF file_size THEN line ELSE [line EXCEPT !.size = 1]

Next ==
  \/ \E line \in Lines : \/ RequestHit(ObjectOf(line))
                         \/ RequestMissAdmit(ObjectOf(line))
                         \/ RequestMissReject(ObjectOf(line))
  \/ Abort

Spec == Init /\ [][Next]_vars

----------------------------------------------------------------------------
\* Types; the unsigned countdown stays positive, so its decrement never wraps.
TypeOK ==
  /\ file_size \in BOOLEAN /\ cache \in LRUCaches
  /\ statSize \in Nat
  /\ _reconfiguration_interval \in Intervals \cup {FirstInterval}
  /\ _nextReconfiguration \in Nat \ {0}
  /\ \A o \in DOMAIN _longTermMetadata :
       o \in Requested /\ _longTermMetadata[o] \in Nat \ {0}
  /\ \A o \in DOMAIN _intervalMetadata :
       o \in Requested /\ _intervalMetadata[o] \in Nat \ {0}
  /\ aborted \in BOOLEAN
  /\ reqs \in 0..MaxReqs /\ hits \in 0..reqs
  /\ periods \in Seq([Requested -> Nat]) /\ scarceFor \in Seq(Nat)

\* What the commented-out assertion of reconfigure() says of the long term,
\* at every moment: statSize is the bytes of the objects with statistics in
\* one map or the other, each once, however often objects are dropped and
\* seen again.  The unsigned statSize would wrap if it ever fell behind.
StatSizeExact ==
  statSize = Sizes(DOMAIN _longTermMetadata \cup DOMAIN _intervalMetadata)

\* The closed periods in which o was requested.
Closed == 1..(Len(periods) - 1)
Active(o) == {i \in Closed : periods[i][o] > 0}
Silence(o) == (Len(periods) - 1) - Max(Active(o))

\* b ^ 0, ..., b ^ n, and b ^ n: what a proof can follow.
Powers(b, n) ==
  LET power[k \in 0..n] == IF k = 0 THEN 1 ELSE b * power[k-1] IN power
Power(b, n) == Powers(b, n)[n]

\* Statistics follow the trace: an object requested in one of the last two
\* periods has long-term statistics, one never requested has none, and what
\* is kept of an object is at least 0.1 and at most the requests it had in its
\* best period, faded by 0.3 for each period it has been silent since.
StatsFade ==
  \A o \in Requested :
    /\ Active(o) # {} /\ Silence(o) <= 1 => o \in DOMAIN _longTermMetadata
    /\ o \in DOMAIN _longTermMetadata =>
         /\ Active(o) # {} /\ ~Small(_longTermMetadata[o])
         /\ _longTermMetadata[o] * Power(10, Silence(o))
              <= Max({periods[i][o] : i \in Active(o)}) * Unit * Power(3, Silence(o))

\* Reconfigurations are punctual: the time to the next one is an interval and
\* as few postponements as it takes to find more statistics than three times
\* the cache, and no request too many is let pass.  (The first period is the
\* constructor's interval whatever "t" is, less the request that ends it.)
Duration(i) ==
  LET interval == IF i = 1 THEN FirstInterval - 1 ELSE _reconfiguration_interval
  IN  Min({interval + k * Postponement :
             k \in {k \in 0..(MaxReqs + 1) :
                     interval + k * Postponement > scarceFor[i]}})
Punctual ==
  /\ \A i \in Closed : Total(periods[i]) = Duration(i)
  /\ Total(Last(periods)) <= Duration(Len(periods))
=============================================================================
