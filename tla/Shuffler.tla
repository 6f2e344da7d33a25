------------------------------ MODULE Shuffler ------------------------------
(***************************************************************************)
(* Shuffler (caches/cluster_variants.cpp) under the simulator's main loop: *)
(* LRU caches behind a consistent hash whose virtual nodes move.  At the   *)
(* end of each window a virtual node of the server of least rank is moved  *)
(* towards the one after it, which is of the server of greatest rank.      *)
(*                                                                         *)
(* init_mapper() adds four servers whatever the parameter "n" is; the      *)
(* module is about n = 4.  Ranks are fractions (see Ranks).                *)
(***************************************************************************)
EXTENDS LRUCache, ConsistentHash, Ranks

CONSTANTS
  Lines,          \* the objects a trace may request (of size 1 without filesize)
  Positions,      \* where ports may hash to on the ring
  HashFunctions,  \* MurMurHash of the ids: the functions to consider
  virtual_node, window_size,  \* the parameters "vnode" and "W"
  alpha,          \* the parameter "alpha", in percent
  cache_size,     \* the cacheSize argument, of one server
  MaxReqs         \* bound: the length of a trace

ASSUME LinesAssumption == Lines \subseteq Objects
ASSUME ParametersAssumption ==
  /\ Positions \subseteq Nat /\ IsFiniteSet(Positions)   \* uint32_t
  /\ HashFunctions \subseteq [Ids -> Nat]
  /\ virtual_node \in Nat \ {0} /\ window_size \in Nat \ {0}
  /\ alpha \in 0..100 /\ cache_size \in Nat /\ MaxReqs \in Nat

VARIABLES
  hashOf,       \* never changes
  chash,        \* Shuffler::chash
  caches_list,  \* Shuffler::caches_list
  counts,       \* request_count, hit_count and miss_count of each server
  cache_index_each_node,  \* the servers of the virtual nodes, in ring order
  position,     \* Shuffler::position
  reqs, hits,
  ranked        \* history: max_i and min_i of the last update()

vars == <<hashOf, chash, caches_list, counts, cache_index_each_node, position,
          reqs, hits, ranked>>

cache_number == 4
Servers == 0..(cache_number - 1)

OwnersInOrder(ring) == [i \in DOMAIN ring.list |-> ring.owner[ring.list[i]]]

NoCounts == [requests |-> 0, hits |-> 0, misses |-> 0]

Init ==
  /\ hashOf \in HashFunctions
  /\ chash \in Rings(cache_number, virtual_node, Positions)
  /\ cache_index_each_node = OwnersInOrder(chash)
  /\ caches_list = [s \in Servers |-> SetSize(NewCache, cache_size)]
  /\ counts = [s \in Servers |-> NoCounts]
  /\ position = 0
  /\ reqs = 0 /\ hits = 0
  /\ ranked = [max |-> 0, min |-> 0]

----------------------------------------------------------------------------
\* request(), up to the counts.
Destination(o) == CacheIndex(chash, hashOf[o.id])
LookedUp(o)    == LookUp(chash, o.id, hashOf[o.id])

Counted(o) ==
  LET s == Destination(o)
  IN  IF IsHit(caches_list[s], o)
      THEN [counts EXCEPT ![s].requests = @ + 1, ![s].hits = @ + 1]
      ELSE [counts EXCEPT ![s].requests = @ + 1, ![s].misses = @ + 1]

Serve(o) ==
  /\ reqs < MaxReqs
  /\ reqs' = reqs + 1
  /\ LET s == Destination(o)
     IN  IF IsHit(caches_list[s], o)
         THEN /\ caches_list' = [caches_list EXCEPT ![s] = Lookup(@, o)]
              /\ hits' = hits + 1
         ELSE /\ caches_list' = [caches_list EXCEPT ![s] = Admit(Lookup(@, o), o)]
              /\ hits' = hits
  /\ UNCHANGED <<hashOf, cache_index_each_node>>

----------------------------------------------------------------------------
Max2Min(max_i, min_i) ==
  {i \in 1..(Len(cache_index_each_node) - 1) :
     cache_index_each_node[i] = max_i /\ cache_index_each_node[i+1] = min_i}

\* min2max: the virtual nodes of the server of least rank that are followed
\* by one of the server of greatest rank; the last one of the list is not
\* looked at, though the ring wraps there.
Min2Max(max_i, min_i) ==
  {i \in 1..(Len(cache_index_each_node) - 1) :
     cache_index_each_node[i] = min_i /\ cache_index_each_node[i+1] = max_i}

Gap(ring, i) == ring.list[i+1] - ring.list[i]

ShiftOtherWay(gap, max_rank, min_rank) ==
  LET top == max_rank.num * min_rank.den
      bot == min_rank.num * max_rank.den
  IN  IF top = 0 THEN 0 ELSE (gap * (top + bot)) \div top

\* second * (1 - min_rank / max_rank) / 10 as an unsigned int.  0/0 is a NaN,
\* which the conversion makes 0 of on x86-64.
Shift(gap, max_rank, min_rank) ==
  LET top == max_rank.num * min_rank.den
      bot == min_rank.num * max_rank.den
  IN  IF top = 0 THEN 0 ELSE (gap * (top - bot)) \div (10 * top)

\* The key in the map and the entry of the list are overwritten in place.
MoveNode(ring, i, mid) ==
  LET old == ring.list[i]
  IN  [ring EXCEPT
         !.owner = [p \in (DOMAIN @ \ {old}) \cup {mid} |->
                      IF p = mid THEN @[old] ELSE @[p]],
         !.list[i] = mid]

\* update(): sort() may put any of the largest gaps first.
Shuffled(ring, rank) ==
  LET max_i   == MaxServer(rank)
      min_i   == MinServer(rank)
      min2max == Min2Max(max_i, min_i)
      widest  == {i \in min2max :
                    \A j \in min2max : Gap(ring, j) <= Gap(ring, i)}
  IN  IF min2max = {} THEN {ring}
      ELSE {MoveNode(ring, i, ring.list[i] + Shift(Gap(ring, i), rank[max_i],
                                                   rank[min_i])) :
            i \in widest}

Request(o) ==
  /\ Serve(o)
  /\ position + 1 < window_size
  /\ position' = position + 1
  /\ counts' = Counted(o)
  /\ chash' = LookedUp(o)
  /\ UNCHANGED ranked

\* The last request of a window, update() and reset().
RequestUpdate(o) ==
  /\ Serve(o)
  /\ position + 1 = window_size
  /\ position' = 0
  /\ counts' = [s \in Servers |-> NoCounts]
  /\ LET n    == Counted(o)
         rank == RanksOf(n, [i \in Servers |-> n[i].requests], alpha)
     IN  /\ chash' \in Shuffled(LookedUp(o), rank)
         /\ ranked' = [max |-> MaxServer(rank), min |-> MinServer(rank)]

Next == \E o \in Lines : Request(o) \/ RequestUpdate(o)

Spec == Init /\ [][Next]_vars

----------------------------------------------------------------------------
TypeOK ==
  /\ hashOf \in HashFunctions
  /\ chash.list \in Seq(Nat)
  /\ \A p \in DOMAIN chash.owner : chash.owner[p] \in Servers
  /\ caches_list \in [Servers -> LRUCaches]
  /\ counts \in [Servers -> [requests : Nat, hits : Nat, misses : Nat]]
  /\ position \in 0..(window_size - 1)
  /\ reqs \in 0..MaxReqs /\ hits \in 0..reqs
  /\ ranked \in [max : Servers, min : Servers]

\* However often virtual nodes are moved, the list is sorted, without two at
\* one position, and agrees with the map and with the table of owners made
\* when the ring was built.  The key of the map is overwritten in place, so
\* its order rests on this too.
RingKept ==
  /\ RingOf(chash, virtual_node)
  /\ OwnersInOrder(chash) = cache_index_each_node

\* cluster_variants.cpp:440-449 and :456: the server of least rank takes over
\* a part of "the hash space gap" up to a virtual node of the server of
\* greatest rank: files that change their server leave the one of greatest
\* rank for the one of least rank.
ReliefForMax ==
  [][\A id \in Ids :
       CacheIndex(chash', hashOf[id]) # CacheIndex(chash, hashOf[id]) =>
         /\ CacheIndex(chash, hashOf[id])  = ranked'.max
         /\ CacheIndex(chash', hashOf[id]) = ranked'.min]_vars

\* What happens instead: because look_up() serves from the node after the
\* nearest, the files of a moved arc go to the server of greatest rank.
LoadForMax ==
  [][\A id \in Ids :
       CacheIndex(chash', hashOf[id]) # CacheIndex(chash, hashOf[id]) =>
         /\ CacheIndex(chash', hashOf[id]) = ranked'.max
         /\ ranked'.max # ranked'.min]_vars
=============================================================================
