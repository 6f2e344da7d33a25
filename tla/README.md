# TLA+ verification of the web cache simulator

The repository simulates web caches: `webcachesim` reads a trace of requests
(`id size` per line), feeds it to a cache policy, alone or in a cluster behind
consistent hashing, and reports hit rates. It is a single-threaded program.
What is hard about it is not concurrency but long histories: counters and
indices kept incrementally over millions of requests, objects that cascade
through several lists in one request, maps that must go on agreeing with each
other, and figures that are silently wrong when one of them slips. The
specifications here say what must hold after every request and check it for
every short trace; the proofs say it for every trace.

## Inventory

| Component | Source | State | Operations | What makes it correct | Here |
|---|---|---|---|---|---|
| LRU cache | `caches/lru_variants.*`, `cache.h`, `caches/cache_object.h` | capacity, `_currentSize`, recency list, index into it, request and file counters | lookup, hit, admit, evict, evict_return, setSize | bytes exact and within capacity; index and list agree; evicts the least recent and no more than needed | `LRUCache` |
| FIFO, Filter, ThLRU, ExpLRU | `caches/lru_variants.*` | as LRU, and the filter's counts | override hit, lookup or admit | admission rule; order of eviction | `WebCacheSim` |
| Main loop | `webcachesim.cpp` | reqs, hits, their bytes | one turn per line of the trace | the report is what the policy would do | `WebCacheSim` |
| S4LRU | `caches/lru_variants.*` | four LRU segments | lookup (moves up), admit, segment_admit (demotes) | an object is in one segment; demotion loses nothing above the bottom | `S4LRU` |
| Consistent hash | `consistent_hash/*` | ring (sorted list, map of virtual nodes), maps of files | add_real_node, find_nearest_node, look_up; for CHUE initial_virtual_node, add_real_node_assign | list and map agree; no virtual node lost; the search finds the nearest | `ConsistentHash`, `NearestNode` |
| CH, CHUE clusters | `caches/cluster_variants.*` | n LRU caches and a ring | init_mapper, request, report | a file stays on one server; servers do not disturb each other; what share of the ring each has | `CHCluster`, `CHClusterServers` |
| CHF cluster | `caches/cluster_variants.*` | n filter caches and a ring | as CH | as CH | not modelled |
| Shuffler (SF) | `caches/cluster_variants.*` | CH and per-window statistics | request, update (moves an arc of the ring) | ring stays sorted and agrees with its tables; which way a moved arc goes | `Shuffler`, `Ranks` |
| Shuffler Matrix (SFM) | `caches/cluster_variants.*`, `double_queue_node/*` | CH, counter stacks, request queue | request, update (reassigns a virtual node) | counter stacks are stack distances; virtual nodes stay partitioned; one moves only for more hits | `ShufflerM`, `CounterStack`, `Ranks` |
| Greedy-dual: GD, GDS, GDSF, LRUK, LFUDA | `caches/gd_variants.*` | value map, index, age L | lookup, hit, admit, evict | values never below L; evicts the least value; values mean what the policy says | `GreedyDual` |
| AdaptSize | `caches/lru_variants.*` | LRU, statistics, countdown | lookup (reconfigures), admit | statSize matches the statistics kept; counts fade as the smoothing says; reconfigurations come on time | `AdaptSize` |
| trace_clean | `trace_clean/*` | counts and sizes of the files seen | one pass over a trace | one size for a file; keeps the requests it should | `TraceClean` |
| trace_processor | `trace_processor/*` | a ring of its own, requests by virtual node | one pass over each of two traces | the requests it rewrites land where it says on the cluster's ring | `TraceProcessor` |
| Other trace tools | `trace_parser/*`, `trace_generator/*` | a pass over a file | rewrite, draw at random | | not modelled |
| Factory, CpuMonitor, scripts, headers | `cache.h`, `caches/CpuMonitor.cpp`, `scripts/*` ... | none over time | | | not modelled |

Interaction is by call only: the main loop calls `lookup` then `admit` on a
single cache, or `request` on a cluster; a cluster asks its `consistent_hash`
for the server and calls `lookup` and `admit` of that server's `LRUCache`;
S4LRU does the same with its segments. Policies of the LRU family inherit
`LRUCache` and override one or two methods. Each request runs to its end
before the next is read, so one action of a specification is one request.

## Modules

**LRUCache** is the class as a data type: a record with the object's fields and
one operator per method. `_cacheList` is a sequence, `_cacheMap` the set of its
keys (its iterators are the first cells with that key, see `Cell`), an object is
its id and size together, as in `CacheObject`. `MakeRoom` is the eviction loop:
the number of evictions after which the loop's condition first fails. Bytes
are natural numbers: `uint64_t` does not overflow for capacities that exist,
and a count that went below zero shows as a type error.

**WebCacheSim** is the main loop over LRU, FIFO, Filter, ThLRU and ExpLRU, the
policy being a variable chosen initially. `RequestHit`, `RequestMissAdmit` and
`RequestMissReject` are one turn of the loop each: reading the line, `lookup`
with its counting, and `admit` with the evictions it needs. ExpLRU draws a
random number, which is a choice here. The abstract specification is Mattson's
stack model, which keeps every object ever placed in one stack and calls a
request a hit when the stack down to the object fits the cache. It has no
evictions and no byte count, so it is an independent account of what the hits
should be. **StackModel** has the model as operators on a record, its state;
**RecencyStack** is the specification of which that record is the variable, and
`WebCacheSim` instantiates it for `ImplementsStack`.

**S4LRU** is the segmented cache under the same loop. `segment_admit` calls
itself for the segment below; it is unrolled, `AdmitTo3` down to `AdmitTo0`, so
that no recursion is left but that of the loop, a function of its turns.

**NearestNode** is the binary search of `find_nearest_node` step by step.
**ConsistentHash** is the class as a data type. The hash function is a
parameter: `FreePositions` are the positions the ports tried by
`add_real_node` may end up at, whatever they hash to. `Nearest` is the
search's result, which the first module shows the search to compute.

`InitialVirtualNode` and `AddRealNodeAssign` are the other way to build a ring,
CHUE's: virtual nodes are placed by a formula, each a quarter of the remaining
way to the end, and dealt to the servers by number afterwards.

**CHCluster** is `CHCache` and `CHCacheUE`: the ring and an array of `LRUCache`
records. `AddServer` is a turn of the loop of CH's `init_mapper`;
`PlaceVirtualNodes` and `AssignServer` are the five calls of CHUE's.
`RequestHit` and `RequestMiss` are a request, which looks the file up in the
ring, records it in the ring's maps, and goes to one server. CHUE always adds
four servers, so the module assumes n to be at least 4 for it: with fewer,
requests go past the end of `caches_list`. **CHClusterServers** says with the
operators of `StackModel` that each server, seen alone, takes the steps of a
stack model or none.

**ShufflerM** is `ShufflerM` (SFM): `RequestPlain`, `RequestSampled` and
`RequestUpdate` are `request()` for a request that is not sampled, one that is,
and the last of a window, which includes `update()` and `reset()`. Its parts
are modules of their own. **CounterStack** is the fragment map of a virtual
node or server and the arrays it is copied to. `Following` is the code's
`find` and two increments; when `find` fails, the increment of `end()` is
undefined, and the two results libstdc++ can give (the last element or the one
before it, which depends on the shape of the tree) are a choice. **Ranks** is
the rank of the servers as fractions, with the NaN of an idle server. The
optimizer's second loop walks the window backwards with three queues; what the
queues do is pair each request with the last one before it of another group,
which is how `MovedDistance` says it. Properties compare it with `PredictedHits`,
which counts distinct bytes by definition. The sampling rate, 10 in the code,
is a constant.

**Shuffler** is `Shuffler` (SF) with the same `Ranks`. `MoveNode` overwrites a
key of the map and the list in place; `Shuffled` is `update()`, with a choice
among equal gaps since `sort` is not stable. `init_mapper` adds four servers
whatever n is, and the module is about n = 4.

**GreedyDual** is `GreedyDualBase` with GDS, GDSF, LRUK and LFUDA under the same
loop, the policy being a variable. `_valueMap` is a sequence in the order of
the multimap, `Emplace` puts an entry after those of equal value, and
`AgeValue` is `ageValue()` of each class. The order of `lookup` and `ageValue`
is the code's: LRUK records the reference before the object is valued
(`Referenced`), GDSF and LFUDA count after it (`Counted`). Values are
multiples of a unit that every size divides. The history variable `since` says
when an object was last evicted, so that properties can speak of its requests
since then.

**AdaptSize** is `AdaptSizeCache` under the same loop. `Recorded` is `lookup()`
down to the call of `LRUCache::lookup()`: the countdown, and when it expires
with enough data the reconfiguration, which smooths the long-term counts, merges
the interval's, drops what is below 0.1, and only then is the request counted.
`Smoothed`, `Dropped`, `StatSize` and `Countdown` are its parts. The counts are
whole numbers of a unit that each reconfiguration divides by ten, so that 0.3,
0.7 and 0.1 are exact. What the golden-section search makes of the statistics is
left out but for its assertion (`Abort`): the parameter it finds is positive,
so any object of some size may be admitted or not. The history variables
`periods` and `scarceFor` count the requests between reconfigurations.

**TraceClean** is the tool of that name: `Cleaned` is the file it writes for a
trace and a threshold. It reads lines of time, id and size and writes lines of id
and size (`Written`), the format the simulator reads (`webcachesim.cpp:72`), so it
runs once, before the simulator. **CleanedTraces** relates the two: `Raw` is the
history of `WebCacheSim` as a trace with times, and the properties say what the
tool makes of it. **TraceProcessor** is the tool that gives requests of one server
ids of another: `Processed` are the lines it may write for a line. It reads and
writes the time as well, which has to be taken off before its output is simulated;
the model's lines are without it. The tool has a ring of its own, which
**ReplayedTraces** compares with the rings of `CHCluster`, where the traces it
writes are replayed.

The `MC*` modules hold the values of the constants for TLC. In each module an
operator that comes just before another and says in its name what it does
wrong (`HitInPlace`, `AnyPositions`) is a mutant: put in the place of the
definition after it, it must break the property it is listed with in
`PROJECT.json`. This shows that each property depends on that line of code.

## Runs

| Run | Checks | Instance |
|---|---|---|
| `WebCacheSim` | `TypeOK`, `SizeAccounting`, `IndexAgrees`, `FilterAdmission`, `CleanedTrace`, `ImplementsStack` | four ids, objects of size 0 to 3, capacities 2 and 4, five policies, traces of five lines; thresholds 0 to 3 |
| `S4LRU` | `TypeOK`, `SegmentsDisjoint`, `HitMovesUp`, `OnlyBottomLoses`, `HitKeepsAll` | six objects, three capacities in which an object fits a segment, all reachable arrangements |
| `S4LRUCrash` | `HitMovesUp`, violated | capacity 5, objects of size 2 |
| `NearestNode` | `SearchTypeOK`, `FindsNearest`, `Terminates` | every sorted list of up to five positions, repetitions included |
| `CHCluster` | `TypeOK`, `RingExact`, `UnevenRing`, `FilesStay`, `ReportAddsUp`, `ProcessedTrace`, `ServersAreLRU` | CH: two servers with two virtual nodes on five positions; CHUE: four servers with two or three virtual nodes on a ring of 16; three objects, traces of five lines |
| `ShufflerM` | `TypeOK`, `VnodesPartitioned`, `StacksExact`, `FragmentsCounted`, `MovesImprove` | two servers with two virtual nodes, all rings, three files of one or two bytes, windows of four, sampling of 1 and 2, traces of eight lines |
| `ShufflerMFind` | `FragmentFound`, violated | the same, each request sampled |
| `Shuffler` | `TypeOK`, `RingKept`, `LoadForMax` | four servers in every order, three files, windows of four, traces of eight lines |
| `ShufflerRelief` | `ReliefForMax`, violated | the same |
| `GreedyDual` | `TypeOK`, `MapsAgree`, `ValuesAged`, `GDIsLRU`, `KthReference`, `FrequencyExact` | four objects of size 1 and 2, capacities 2 and 3, five policies, K = 2, traces of six lines |
| `LFUDAVictim` | `LeastFrequentEvicted`, violated | the same, LFUDA only |
| `AdaptSize` | `TypeOK`, `StatSizeExact`, `StatsFade`, `Punctual` | three objects, capacities 1 and 2, first interval 4, later ones 2 or 4, postponements of 2, traces of eleven lines |

*Bounds.* In `WebCacheSim` five requests are enough for an object to be
admitted, hit, evicted by a larger one that evicts two, and admitted again; the
sizes make objects that need no room, fill the cache exactly, or exceed it. In
`S4LRU` the counters are left out of the view (nothing depends on them), so TLC
stops when it has seen every arrangement: the bound on the trace, 40, is never
the reason it stops. In `CHCluster` four of the five positions are taken, so
ports collide and the lookup wraps around at either end; five requests reach
evictions in each server after a hit. CHUE's ring of 2^32 positions is scaled
down to 16: its virtual nodes stop moving at the seventh instead of the 75th,
at position 12, three short of the end in both. Eight of them leave each server
one of its own, twelve leave the third server none, as 160 do on the real ring. `ProcessedTrace`
looks at each ring once, when it is complete, with every order in which its
virtual nodes can have been made, every pair of servers, none, half and all of the
virtual nodes to move, and every reference trace of the two files.
In `AdaptSize` the constants 500000 and 10000 are scaled down to 4 and 2 and a request
counts 10000 units, one factor of ten for each of four reconfigurations, so that eleven
requests see up to four reconfigurations: an object is counted, smoothed twice,
dropped and seen again, and a reconfiguration is postponed more than once. Any
two of the objects are too little data for the larger cache. In `ShufflerM` eight lines are two full
windows when each is sampled, so that the second starts from the lists, owners
and averaged counts the first left; four requests are enough to request a file
again with one file in between on either server, which decides whether a move
pays. In `Shuffler` gaps of 40 and 80 give moves of several positions, with
files hashed where they pass, and a second move from the moved ring. In
`GreedyDual` six requests are enough to admit, value anew twice, evict and
admit again next to another object, and with capacity 2 an object of size 2 is
rejected (`admit` compares with `>=`) while its requests are still counted.
`NearestNode` has more positions than the search has steps, and hash values
below, between, equal to and above them.

*Fairness.* Only `Terminates` needs it: weak fairness of the search's next
step, which is a function running on the program's only thread. The other
specifications state safety; a trace may end anywhere, which is why deadlock is
not checked for them.

*Findings.* `S4LRUCrash`: an object that segment 0 admits but that is larger
than a quarter of the cache kills the process at its first hit
(`lru_variants.cpp:514`): the segment above is emptied for it, `evict_return`
answers NULL and `segment_admit` dereferences it. `lru_variants.h:159` promises
that a hit on segment i goes to segment i+1. `ShufflerMFind`:
`find(last_access)` (`cluster_variants.cpp:817`, and `:701`) looks for a
fragment that starts at the last access. The request before that one started
it, and it is merged when that request's file is requested again, and never was
there when that request was for another virtual node; the third request in a
row for one file is enough. The iterator past the end is then incremented and
what it gives is erased, although the comment at `:819` says this never
happens. `StacksExact` and `MovesImprove` are therefore stated for windows in
which it did not. `ShufflerRelief`: `update` moves a virtual node of the least
loaded server into the gap before one of the most loaded, to take over a part
of it, but `look_up` serves from the node after the nearest
(`consistent_hash.cpp:132`), so the files of the gap were a third server's and
go to the most loaded one; `LoadForMax` is what holds. `LFUDAVictim`: LFUDA
counts a hit after `hit()` has valued the object with the old count
(`gd_variants.cpp:177` to `:182`), so an object requested twice is as good as
one requested once, and may be evicted before it; `README.md:105` calls the
policy least-frequently used with dynamic aging. What such a value is, one
request behind the count, is the second part of `FrequencyExact`.

*What trace_clean does.* `trace_clean/README.md:9` says that requests with a count of
no more than threshold are deleted. The code writes a request when the count, this
request included, is at least the threshold (`trace_clean.cpp:19`), and a first
request only for a threshold of 0. `CleanedTrace` says what this leaves of a trace,
and in its second part where README and code part: for thresholds of 0 and 1 the
files that should go do, and from 2 on a file requested exactly threshold times
keeps its last request. The property holds of the code as it is; it would fail if
the comparison were made what the README says.

*What CHUE and trace_processor do.* `UnevenRing` says which server owns what is
piled up at the end of CHUE's ring: the last one. With 40 virtual nodes per
server, as in the examples of the repository's README, uids 81 to 120 are all
there, and the third server is never sent a request.
`ProcessedTrace` holds for rings without collisions: `trace_processor` adds a virtual
node wherever its port hashes to (`trace_processor.cpp:113`), while the cluster
tries the next port, so one collision makes the rings differ. What it rewrites
keeps the size of the request replaced.

## Proofs

TLC's answers are for the instances above. The following hold for every value
of the constants that satisfies the modules' assumptions, and for traces of
every length.

* **ClassLemmas**: lemmas on the classes that the simulator, the clusters and S4LRU
  are built from. For `LRUCache`: `CacheInv` (fields typed, `_currentSize` exact
  and within capacity, index and list in agreement) is kept by `Lookup`,
  `Admit`, `Evict` and `SetSize`. `MakeRoomInv` is the termination argument of
  the eviction loop: the list gets shorter with each eviction, an empty list has
  no bytes, so some number of evictions makes room. Against the stack model:
  the list is a top part of the stack (`TopOf`), and `MakeRoomCuts` says that
  the object below where the loop cuts would not fit, so what stays is exactly
  the part of the stack that fits (`HitTop`, `AdmitTop`, `TopResident`). For
  `ConsistentHash`: a real node added on free positions keeps the list sorted,
  without repetitions and in step with the map, and leaves the other nodes what
  they have (`AddRealNodeInv`). It rests on `InOrderSorts`, that sorting by ranks
  sorts: the number of entries below a position grows from 0 to all of them and
  jumps only at entries (`RankExists`). The rings that the calls of
  `init_mapper` can build, of any number of servers, follow (`RingsBuilt`), and what the
  two loops of `update` over the ranks find (`MaxServerRanked`, `MinServerRanked`). `NearestFound` says that the search, as
  the function a lookup calls, ends at the nearest position of any sorted list.
  `UnevenPlaces` says where CHUE's virtual nodes are: each is a quarter of what
  is left further on, until there are fewer than four positions left.
  The module begins with what the prover has in place of induction. A set of
  numbers has a least element and a nonempty set of finite sets one of least
  cardinality (`LeastNat`, `LeastSet`); hence a set that holds 0 and with k-1 also
  k holds all numbers up to a bound (`UptoInduction`), and a function defined by
  recursion on the numbers exists (`RecursionExists`). Sums over a finite set are
  what their recursion says and depend only on the terms (`SumRemove`, `SumSame`,
  `SizeSumRemove`, `TotalRaise`).
* **WebCacheSimProofs**: `TypeCorrect`, `SizeAccountingCorrect`,
  `IndexCorrect` from the inductive invariant `IInv` (types, `CacheInv`, and
  that only requested objects are cached); `FilterCorrect`, which needs in
  addition that `_filter` counts the occurrences in the trace and that a
  cached object has been counted more than n times; and `StackImplemented`: the
  refinement of the stack model, step by step, for the five policies.
  `CleanedTraceHolds` is about the tool that precedes the simulator, for every
  trace and threshold. Its counters are recursive functions of the position
  (`CountersUpto`: the count of a file is its requests so far, its size that of the
  first one; `OutputUpto`: what has been written are the requests to keep, the i-th
  of them at place i), and `SeenUpto` says that each turn keeps both.
  The lines read (`Rows`) have a time and those written have none. Which files are
  left against the tool's README is `SeldomLeft`: every line written is of a
  request kept, and the last request of a file has all the others before it.
* **CHClusterProofs**: `TypeCorrect`, where what is at stake is that a request
  never goes to a server there is not (`SentToServer`); `RingExactCorrect`, from
  `AddRealNodeInv` and that a lookup changes neither list nor map;
  `UnevenRingCorrect`, by following how CHUE deals its positions, one server after
  the other; `FilesStayCorrect` and `ServersConsistent`, for both clusters,
  whatever the ring and the hash function. The inductive invariant adds to
  `FilesStay` that every server satisfies `CacheInv` and that nothing is cached
  or counted until the ring has all its servers: only then does a lookup depend
  on nothing that changes (`ServedBySame`), which is what keeps a file where it
  was first sent. `ReportCorrect` needs in addition that a file the ring has sent
  somewhere has been counted there. `ServersAreLRUCaches` is the refinement of one
  stack model per server: a request is a step of the server it goes to and
  none of the others. `ProcessedTraceHolds` compares two rings that were built apart:
  where no two virtual nodes fall on one position they hold the same positions
  (`AllMatched`), so sorting gives the same list (`SortedSame`, `HashOrderIs`) and
  the tool's search ends at the virtual node that serves the file (`ServingIs`). The
  virtual node it numbers after that one is the one whose server and number the
  cluster would give it (`Numbered`, `Unnumbered`).
* **RingProofs**: the ring, searched and moved. `SearchTypeCorrect` and
  `SearchCorrect` of the search, from the loop invariant that all positions before
  `low` are before the hash value and the one at `high` is not. `TypesHold`,
  `RingKeptHolds` and `LoadForMaxHolds` of Shuffler, whose invariant is
  `RingKept`, consistent caches and counts that are numbers. A virtual node is moved
  by `second * (1 - min_rank / max_rank) / 10` as an unsigned int, so the
  question is whether that stays short of the next virtual node: the ranks are
  fractions whose order the two loops find (`MaxOverFirst`, `FirstOverMin`,
  `MaxOverMin`), so the fraction of the gap is at most a tenth (`ShiftSmall`) and
  a list in which one entry has moved up by less than its gap is still
  increasing (`MovedIncreases`). That the last rank compared is 0/0 when a server
  was idle is allowed for. `MoveNodeServes` then says who serves a hash value
  before and after: they differ only between the old position and the new one, and
  there the file goes to the owner of the node after the one moved, which `Min2Max`
  chose because it belongs to the server of greatest rank.
* **S4LRUProofs**: `TypesHold`, `SegmentsDisjointHolds`, `OnlyBottomLosesHolds`,
  `HitMovesUpHolds`, `HitKeepsAllHolds`. The invariant holds between requests;
  the work is the cascade within one, where segments lend each other objects.
  While it lasts, what has come down into a segment is a part of what the
  segment above held when it began, and is more recent there than what was there
  before (`Shifted`). The segments do not get larger going up, so all of that
  fits the segment as a whole: as long as there is no room, the victim is
  one of the segment's own objects (`LastIsOwn`). Hence a segment that is given
  one of these objects always finds room for it without crashing, and what
  segment 0 evicts was in segment 0 (`AdmitsDemotes`, `DemotesAdmits`, from the
  bottom up). Only the object that was hit can be too large, and only for the
  segment just above segment 0, whose share has the remainder (`MoveUpInv`).
  `HitMovesUpHolds` and `HitKeepsAllHolds` are therefore stated for traces whose
  objects fit a quarter of the cache (`EachFits`), which is what the run
  `S4LRUCrash` violates. The other three hold also of the traces that crash.
* **AdaptSizeProofs**: `TypesHold`, `StatSizeExactHolds`, `PunctualHolds`,
  `StatsFadeHolds`, each from an invariant of its own. `StatisticsInv`: both maps
  hold positive counts of requested objects and statSize is the sum over their
  union, so that what a reconfiguration subtracts is what it drops
  (`SizesWithout`). `PunctualInv`: the countdown ends at a moment that is the
  interval and k postponements after the period's start (`CountdownInv`), and
  the moment before it, if any, was one when statistics were scarce; as
  `scarceFor` is the last such time, no smaller k would have done. `FadeInv`
  (`Fades`, `InInterval`): the interval's count of an object is its requests in
  the current period, and after a closed period with requests at least 0.7 of a
  request is kept of it, which `StatsFade` does not say but which is why one period
  of silence cannot drop it: 0.21 is left. The bound on a count is carried from
  period to period by multiplying both sides (`FadedFurther`). `Unit` need only be
  a multiple of 10 for this: further rounding makes counts smaller and 0.21
  stays above 0.1.
* **GreedyDualProofs**: `TypesHold`, `MapsAgreeHolds`, `ValuesAgedHolds`,
  `FrequencyExactHolds`, `GDIsLRUHolds`, `KthReferenceHolds`. `Consistent` says
  that `_valueMap` is in the order of its values and holds each object of the
  index once, and that the bytes are theirs; it is kept by each part of a
  request (`MakeRoomInv`, `CountedInv`, `ValuedInv`). Between the parts of a
  request the value of the object is out of date, so the invariant speaks of the
  other values (`Aged`). An object that is stored has been requested since its last
  eviction, one that is not has not, unless it is too large ever to be stored:
  this ties counts and values to the trace. `FrequencyStep` gives the value of the
  object just requested by its count before the request (`CountsExact`,
  `RequestCounted`). `RecencyOrder` compares
  any two entries of the map with the last requests of their objects, `RefsInv`
  says that the queue of an object holds the times of its last K requests.
* **ShufflerMProofs**: `TypesHold`, `VnodesPartitionedHolds`,
  `FragmentsCountedHolds`, `StacksExactHolds`, `MovesImproveHolds`. `Placed` says that the ring serves
  each position where a virtual node is, and that the lists are divided as the
  owners say. `Kept` adds consistent caches and that a stack has as many
  fragments as its virtual node has files, and one more: each request removes a
  fragment, unless it is the first of its file. `Exact` says where the
  fragments of a stack begin: at the last accesses of the files of its virtual
  node, and that each is worth the bytes of the files requested after it.
  `StacksExactHolds` assumes that each file has one size (`SizesFixed`), which
  `trace_clean` sees to, and speaks of windows in which `find` missed nothing, as
  `StacksExact` does. So does `MovesImproveHolds`, which adds the invariant
  `Windows`: the nodes of the window are those of its requests, and each kept the
  stack of its virtual node as it was then. The proof compares the optimizer's
  arithmetic with the hits of the window by definition (`PredictedHits`). The replay's
  stacks measure the window as the two servers see it (`ReplayFits`). What the optimizer
  adds to a distance, or takes off, is read from the stack of the last request of the
  other group, and is right because that group requested nothing since
  (`SpanUntilLast`) and groups without a virtual node in common share no file, so that
  their bytes add up (`SpanSplit`): the distance is that after the move (`MovedRight`).
  The hits of the other servers stay, so gains compare as hits do
  (`GainCounted`, `TargetImproves`).

Assumptions used: sizes are natural numbers and lines are pairs of an id and
a size (`LinesAssumption`), for the greedy-dual policies sizes that divide the unit
of the values, for AdaptSize finitely many lines
(a trace is finite); parameters are what `setPar` accepts; lists to
search are nonempty and sorted; hash values are finitely many (they are
`uint32_t`). No other property of the hash function is assumed.

Model-checked only: `Terminates`, which is liveness and out of the prover's reach.
The properties that runs find violated are of course not proved; the runs say where
they fail.

## Plan

1. Done: LRU, its family, S4LRU, AdaptSize, consistent hash, CH, CHUE, Shuffler,
   Shuffler Matrix, the greedy-dual family, trace_clean, trace_processor; proofs
   of the LRU family and its refinement, of the search, of both rings and the
   clusters, of S4LRU, of AdaptSize, of the greedy-dual family, of Shuffler, and of
   the lists, counter stacks and moves of Shuffler Matrix, of trace_clean and
   trace_processor.
2. No property of the runs is left to prove, but for `Terminates`.

## Not modelled

CHF: it indexes an array of `FilterCache` through a pointer to `LRUCache`
(`cluster_variants.cpp:169`), and what that does cannot be enumerated.
`trace_parser` and `trace_generator`: they rewrite or draw a trace line by line.
The queues of LRU-K, which also take references of objects never admitted
(`gd_variants.cpp:135`), grow with the trace; no bound on them is stated. Floating-point numerics (AdaptSize's hit-rate model, its rounding, the exact probability of
ExpLRU: any draw is allowed), wall-clock measurements, printing, files,
argument parsing, and the scripts. In `GreedyDual`, objects of size 0 (their
GDS value is infinite) and the rounding of values; in Shuffler and Shuffler Matrix
the rounding of ranks, and files whose size changes within a window.
