----------------------------- MODULE ShufflerM -----------------------------
(***************************************************************************)
(* ShufflerM, "Shuffler Matrix" (caches/cluster_variants.cpp), under the   *)
(* simulator's main loop: LRU caches behind a consistent hash, and at the  *)
(* end of each window an optimizer that gives one virtual node of the      *)
(* server of greatest rank to the one of least rank, if the stack          *)
(* distances it has counted say that more requests would have hit.         *)
(*                                                                         *)
(* One request() is one action.  Ranks are compared as fractions: the      *)
(* rounding of doubles is left out, their NaN is not.                      *)
(***************************************************************************)
EXTENDS LRUCache, ConsistentHash, CounterStack, Ranks

CONSTANTS
  Lines,          \* the objects a trace may request (of size 1 without filesize)
  Hashes,         \* the positions of the ring
  HashFunctions,  \* MurMurHash of the ids: the functions to consider
  SampleRates,    \* one request in how many is sampled: 10 in the code
  cache_number, virtual_node, window_size, threshold,  \* n, vnode, W, t
  alpha,          \* the parameter "alpha", in percent
  cache_size,     \* the cacheSize argument, of one server
  MaxReqs         \* bound: the length of a trace

ASSUME LinesAssumption == Lines \subseteq Objects
ASSUME ParametersAssumption ==
  /\ Hashes \subseteq Nat /\ IsFiniteSet(Hashes)   \* uint32_t
  /\ HashFunctions \subseteq [Ids -> Hashes]
  /\ SampleRates \subseteq Nat \ {0}
  /\ cache_number \in Nat \ {0, 1}    \* setPar(): assert(n > 1)
  /\ virtual_node \in Nat \ {0} /\ window_size \in Nat \ {0}
  /\ threshold \in Nat /\ alpha \in 0..100
  /\ cache_size \in Nat /\ MaxReqs \in Nat

VARIABLES
  sampling, hashOf,  \* never change
  chash,             \* ShufflerM::chash
  caches_list,       \* ShufflerM::caches_list
  counts,            \* request_count, hit_count and miss_count of each server
  vnodes,            \* vnode_index_for_each_real_node
  frag_arrs,         \* frag_arrs: a counter stack for each virtual node
  last_access,       \* last_access_on_each_virtual_node
  window,            \* the dequeue_nodes from head to pointer
  count, hits,
  sampled,           \* history: the requests sampled in the last window begun
  unfound            \* history: in that window, find() missed a fragment

vars == <<sampling, hashOf, chash, caches_list, counts, vnodes, frag_arrs,
          last_access, window, count, hits, sampled, unfound>>

Servers == 0..(cache_number - 1)
Vnodes  == 0..(cache_number * virtual_node - 1)

OwnerOf(ring, v) == ring.owner[ring.list[v + 1]]

NoCounts == [requests |-> 0, hits |-> 0, misses |-> 0]

Init ==
  /\ sampling \in SampleRates /\ hashOf \in HashFunctions
  /\ chash \in Rings(cache_number, virtual_node, Hashes)
  /\ caches_list = [s \in Servers |-> SetSize(NewCache, cache_size)]
  /\ counts = [s \in Servers |-> NoCounts]
  /\ vnodes = [s \in Servers |->
                 InOrder(SetToSeq({v \in Vnodes : OwnerOf(chash, v) = s}))]
  /\ frag_arrs = [v \in Vnodes |-> FreshStack]
  /\ last_access = [v \in Vnodes |-> [id \in Ids |-> NoAccess]]
  /\ window = <<>>
  /\ count = 0 /\ hits = 0
  /\ sampled = <<>> /\ unfound = FALSE

----------------------------------------------------------------------------
(* update(), on the requests w of a full window and the counts n.          *)

\* The ranks: misses are a part of the requests of the window, but usage is
\* that of request_count, which is averaged over the windows.
Rank(n) == RanksOf(n, [i \in Servers |-> n[i].hits + n[i].misses], alpha)

\* The requests of the window that are not the first for their file.
Again(w) == {k \in DOMAIN w : w[k].last # NoAccess}

\* The first loop: the window is replayed on a counter stack of each of the
\* servers in rivals.  replay[k] are the stacks after the first k requests;
\* picks are the outcomes of the increments of end().
Replay(w, rivals, picks) ==
  LET replay[k \in 0..Len(w)] ==
        IF k = 0 THEN [s \in rivals |-> FreshStack]
        ELSE IF w[k].rnode \notin rivals THEN replay[k-1]
        ELSE [replay[k-1] EXCEPT
                ![w[k].rnode] = Accessed(@, w[k].last, w[k].size, k - 1,
                                         k \in Again(w) /\ picks[k])]
  IN  replay

ReplayMisses(w, rivals, replay) ==
  \E k \in Again(w) : /\ w[k].rnode \in rivals
                      /\ ~Found(replay[k-1][w[k].rnode], w[k].last)

\* arr_rnode, c and c_vnode of request k.
ArrRnode(w, replay, k) == replay[k][w[k].rnode]
C(w, replay, k)        == CValue(ArrRnode(w, replay, k), w[k].last)
CVnode(w, k)           == CValue(w[k].arr, w[k].last)

MovedDistanceAlone(w, replay, v, min_i, k) ==
  LET ofMin   == {j \in DOMAIN w : w[j].rnode = min_i}
      moved   == {j \in DOMAIN w \ ofMin : w[j].vnode = v}
      last_v  == {j \in moved : j < k}
      since_v == IF last_v = {} THEN 0
                 ELSE CValue(w[Max(last_v)].arr, w[k].last)
  IN  CASE k \in moved -> CVnode(w, k)
        [] k \in ofMin -> C(w, replay, k) + since_v
        [] OTHER       -> C(w, replay, k) - since_v

\* The stack distance of request k if virtual node v were on min_i: the queues
\* pair it with the last request before it of the other group, whose counter
\* stack has what must be added or, on the server v leaves, taken off.
MovedDistance(w, replay, v, min_i, k) ==
  LET ofMin   == {j \in DOMAIN w : w[j].rnode = min_i}
      moved   == {j \in DOMAIN w \ ofMin : w[j].vnode = v}
      last_m  == {j \in ofMin : j < k}
      last_v  == {j \in moved : j < k}
      since_m == IF last_m = {} THEN 0
                 ELSE CValue(ArrRnode(w, replay, Max(last_m)), w[k].last)
      since_v == IF last_v = {} THEN 0
                 ELSE CValue(w[Max(last_v)].arr, w[k].last)
  IN  CASE k \in moved -> CVnode(w, k) + since_m
        [] k \in ofMin -> C(w, replay, k) + since_v
        [] OTHER       -> C(w, replay, k) - since_v

\* The requests of the two servers expected to hit; an unsigned difference
\* below zero is above every threshold.
Hits(w, replay, rivals) ==
  Cardinality({k \in Again(w) : /\ w[k].rnode \in rivals
                                /\ C(w, replay, k) < threshold})
MovedHits(w, replay, rivals, v, min_i) ==
  Cardinality({k \in Again(w) : /\ w[k].rnode \in rivals
                                /\ MovedDistance(w, replay, v, min_i, k)
                                     \in 0..(threshold - 1)})

\* The places in the list of max_i that "target" may end at: the first of the
\* greatest gain, if there is a gain.
Targets(w, replay, max_i, min_i) ==
  LET rivals == {max_i, min_i}
      list   == vnodes[max_i]
      SD     == [i \in DOMAIN list |->
                   MovedHits(w, replay, rivals, list[i], min_i)]
  IN  {i \in DOMAIN list : /\ SD[i] > Hits(w, replay, rivals)
                           /\ \A j \in DOMAIN list : SD[j] <= SD[i]
                           /\ \A j \in 1..(i-1) : SD[j] < SD[i]}

ReassignKeepsOld(lists, i, max_i, min_i) ==
  [lists EXCEPT ![min_i] = Append(@, lists[max_i][i])]

\* The lists after the target has changed hands.
Reassign(lists, i, max_i, min_i) ==
  LET given == [lists EXCEPT ![min_i] = Append(@, lists[max_i][i])]
  IN  [given EXCEPT ![max_i] = RemoveAt(@, i)]

\* reset(): a moving average of the requests, and nothing of the rest.
Halved(n) == [s \in Servers |-> [NoCounts EXCEPT !.requests =
                                                   n[s].requests \div 2]]

----------------------------------------------------------------------------
ServedVnode(o) == ServedAt(chash, hashOf[o.id])
Destination(o) == CacheIndex(chash, hashOf[o.id])
LookedUp(o)    == LookUp(chash, o.id, hashOf[o.id])

\* The part of request() that is the same for every request: the server is
\* asked, and the request is counted for it.
Counted(o) ==
  LET s == Destination(o)
  IN  [counts EXCEPT ![s].requests = @ + 1,
                     ![s].hits   = @ + IF IsHit(caches_list[s], o) THEN 1 ELSE 0,
                     ![s].misses = @ + IF IsHit(caches_list[s], o) THEN 0 ELSE 1]
Serve(o) ==
  /\ count < MaxReqs
  /\ count' = count + 1
  /\ LET s == Destination(o)
     IN  IF IsHit(caches_list[s], o)
         THEN /\ caches_list' = [caches_list EXCEPT ![s] = Lookup(@, o)]
              /\ hits' = hits + 1
         ELSE /\ caches_list' = [caches_list EXCEPT ![s] = Admit(Lookup(@, o), o)]
              /\ hits' = hits
  /\ UNCHANGED <<sampling, hashOf>>

\* The sampled part: the counter stack of the virtual node after the request,
\* and the node of the window that keeps a copy of it.
Stacked(o, beforeLast) ==
  Accessed(frag_arrs[ServedVnode(o)], last_access[ServedVnode(o)][o.id],
           o.size, Len(window), beforeLast)
Windowed(o, beforeLast) ==
  Append(window, [last  |-> last_access[ServedVnode(o)][o.id],
                  size  |-> o.size,
                  vnode |-> ServedVnode(o),
                  rnode |-> Destination(o),
                  arr   |-> Stacked(o, beforeLast)])
Misses(o) ==
  LET last == last_access[ServedVnode(o)][o.id]
  IN  last # NoAccess /\ ~Found(frag_arrs[ServedVnode(o)], last)

Record(o) ==
  sampled' = Append(IF window = <<>> THEN <<>> ELSE sampled,
                    [id |-> o.id, size |-> o.size, vnode |-> ServedVnode(o)])

RequestPlain(o) ==
  /\ Serve(o)
  /\ count % sampling # 0
  /\ counts' = Counted(o)
  /\ chash' = LookedUp(o)
  /\ UNCHANGED <<vnodes, frag_arrs, last_access, window, sampled, unfound>>

RequestSampled(o) ==
  /\ Serve(o)
  /\ count % sampling = 0 /\ Len(window) + 1 < window_size
  /\ counts' = Counted(o)
  /\ chash' = LookedUp(o)
  /\ \E beforeLast \in IF Misses(o) THEN BOOLEAN ELSE {FALSE} :
       /\ frag_arrs' = [frag_arrs EXCEPT
                          ![ServedVnode(o)] = Stacked(o, beforeLast)]
       /\ window' = Windowed(o, beforeLast)
  /\ last_access' = [last_access EXCEPT ![ServedVnode(o)][o.id] = Len(window)]
  /\ Record(o)
  /\ unfound' = (Misses(o) \/ (window # <<>> /\ unfound))
  /\ UNCHANGED vnodes

\* The last request of a window, and update().
RequestUpdate(o) ==
  /\ Serve(o)
  /\ count % sampling = 0 /\ Len(window) + 1 = window_size
  /\ LET max_i == MaxServer(Rank(Counted(o)))
         min_i == MinServer(Rank(Counted(o)))
     IN  \E beforeLast \in IF Misses(o) THEN BOOLEAN ELSE {FALSE} :
           LET w == Windowed(o, beforeLast)
           IN  \E picks \in [Again(w) -> BOOLEAN] :
                 LET replay  == Replay(w, {max_i, min_i}, picks)
                     targets == Targets(w, replay, max_i, min_i)
                 IN  /\ unfound' = \/ Misses(o) \/ (window # <<>> /\ unfound)
                                   \/ ReplayMisses(w, {max_i, min_i}, replay)
                     /\ IF targets = {}
                        THEN chash' = LookedUp(o) /\ UNCHANGED vnodes
                        ELSE \E i \in targets :
                               LET hash == chash.list[vnodes[max_i][i] + 1]
                               IN  /\ chash' = [LookedUp(o) EXCEPT
                                                  !.owner[hash] = min_i]
                                   /\ vnodes' = Reassign(vnodes, i,
                                                         max_i, min_i)
  /\ counts' = Halved(Counted(o))
  /\ frag_arrs' = [v \in Vnodes |-> FreshStack]
  /\ last_access' = [v \in Vnodes |-> [id \in Ids |-> NoAccess]]
  /\ window' = <<>>
  /\ Record(o)

Next == \E o \in Lines :
          RequestPlain(o) \/ RequestSampled(o) \/ RequestUpdate(o)

Spec == Init /\ [][Next]_vars

----------------------------------------------------------------------------
TypeOK ==
  /\ sampling \in SampleRates /\ hashOf \in HashFunctions
  /\ DOMAIN chash.owner \subseteq Hashes
  /\ \A p \in DOMAIN chash.owner : chash.owner[p] \in Servers
  /\ caches_list \in [Servers -> LRUCaches]
  /\ counts \in [Servers -> [requests : Nat, hits : Nat, misses : Nat]]
  /\ vnodes \in [Servers -> Seq(Vnodes)]
  /\ frag_arrs \in [Vnodes -> Stacks]
  /\ last_access \in [Vnodes -> [Ids -> {NoAccess} \cup (0..window_size)]]
  /\ Len(window) < window_size
  /\ count \in 0..MaxReqs /\ hits \in 0..count

\* The virtual nodes stay divided among the servers, window after window: each
\* is in the list of one server, once, and that is where the ring sends it.
VnodesPartitioned ==
  \A s \in Servers :
    /\ IsInjective(vnodes[s])
    /\ ToSet(vnodes[s]) = {v \in Vnodes : OwnerOf(chash, v) = s}

\* The sum of the sizes of the distinct files among the requests ks of w.
DistinctBytes(w, ks) ==
  MapThenSumSet(LAMBDA f : f.size,
                {[id |-> w[k].id, size |-> w[k].size] : k \in ks})

\* The counter stack of a virtual node says for every position of the window
\* how many bytes of distinct files were requested there since: the stack
\* distances of the paper.  It is what the optimizer works with, as long as
\* find() has not missed a fragment.
StacksExact ==
  ~unfound /\ window # <<>> =>
    \A v \in Vnodes : \A p \in 0..Len(window) :
      CValue(frag_arrs[v], p) =
        DistinctBytes(sampled, {k \in DOMAIN sampled :
                                  k > p /\ sampled[k].vnode = v})

\* A stack has one fragment for each file of its virtual node and the one at
\* its end, so it does not grow with the window; whether find() missed or not.
FragmentsCounted ==
  \A v \in Vnodes :
    Len(frag_arrs[v]) =
      1 + Cardinality({id \in Ids : last_access[v][id] # NoAccess})

\* cluster_variants.cpp:703, "next never be the end()": the position of the
\* last access is the start of a fragment, so that there is one after it.
FragmentFound == ~unfound

\* The hits of the window by definition, if own[v] were the server of each
\* virtual node v: a request hits when fewer than threshold bytes of distinct
\* files were requested of its server since the last request for its file.
PredictedHits(own) ==
  LET Before(k) == {j \in 1..(k-1) : sampled'[j].id = sampled'[k].id}
      Between(k) == {j \in Max(Before(k))..k :
                       own[sampled'[j].vnode] = own[sampled'[k].vnode]}
  IN  Cardinality({k \in DOMAIN sampled' :
                     /\ Before(k) # {}
                     /\ DistinctBytes(sampled', Between(k)) < threshold})

\* A virtual node changes hands only if the window just over would have had
\* more hits, and no other virtual node of the same server would have brought
\* more.
MovesImprove ==
  [][~unfound' =>
       LET before == [v \in Vnodes |-> OwnerOf(chash, v)]
           after  == [v \in Vnodes |-> OwnerOf(chash', v)]
       IN  \A v \in Vnodes : before[v] # after[v] =>
             /\ PredictedHits(after) > PredictedHits(before)
             /\ \A u \in Vnodes : before[u] = before[v] =>
                  PredictedHits([before EXCEPT ![u] = after[v]])
                    <= PredictedHits(after)]_vars
=============================================================================
