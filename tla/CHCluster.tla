----------------------------- MODULE CHCluster -----------------------------
(***************************************************************************)
(* CHCache and CHCacheUE (caches/cluster_variants.cpp) under the           *)
(* simulator's main loop: cache_number LRU caches behind one consistent    *)
(* hash.  init_mapper() builds the ring: CH gives each cache virtual nodes *)
(* of its own, CHUE places the virtual nodes, unevenly, and then deals     *)
(* them to four caches.  Then each line of the trace is one request().     *)
(***************************************************************************)
EXTENDS LRUCache, ConsistentHash

CONSTANTS
  Lines,       \* the lines a trace may hold
  Clusters,    \* the clusters to consider: the arguments cacheType, "n" and
               \* "vnode", and the positions of the ring files may hash to
  max_hash,    \* the last position of the ring: 4294967295
  CacheSizes,  \* the cacheSize arguments to consider, of one server
  MaxReqs      \* bound: the length of a trace

ASSUME LinesAssumption == Lines \subseteq Objects
ASSUME ParametersAssumption ==
  /\ CacheSizes \subseteq Nat /\ MaxReqs \in Nat /\ max_hash \in Nat \ 0..2
  /\ \A c \in Clusters :
       /\ c.cacheType \in {"CH", "CHUE"}
       /\ c.cache_number \in Nat \ {0, 1}    \* setPar(): assert(n > 1)
       /\ c.virtual_node \in Nat \ {0}
       /\ c.hashes \subseteq 0..max_hash
       \* CHCacheUE::init_mapper() adds four servers whatever "n" is; with
       \* fewer, requests go past the end of caches_list.
       /\ c.cacheType = "CHUE" => c.cache_number >= 4

VARIABLES
  cluster,      \* the arguments; never changes
  file_size,    \* whether the trace's sizes are used; else every size is 1
  hashOf,       \* MurMurHash of the ids; never changes
  chash,        \* chash
  caches_list,  \* caches_list
  reqs, hits,
  served        \* history: what each server was asked and answered

args == <<cluster, file_size, hashOf>>
vars == <<args, chash, caches_list, reqs, hits, served>>

Servers == 0..(cluster.cache_number - 1)

Init ==
  /\ cluster \in Clusters
  /\ file_size \in BOOLEAN
  /\ hashOf \in [Ids -> cluster.hashes]
  /\ chash = NewRing
  /\ \E cs \in CacheSizes :
       caches_list = [s \in Servers |-> SetSize(NewCache, cs)]
  /\ reqs = 0 /\ hits = 0
  /\ served = [s \in Servers |->
                [requests |-> <<>>, stack |-> <<>>, hits |-> 0, hitBytes |-> 0]]

\* The servers init_mapper() puts on the ring.
ServersToAdd == IF cluster.cacheType = "CH" THEN cluster.cache_number ELSE 4

\* One turn of the loop of CHCache::init_mapper().
AddServer ==
  /\ cluster.cacheType = "CH" /\ chash.realNodes < ServersToAdd
  /\ \E ps \in FreePositions(chash, cluster.virtual_node, cluster.hashes) :
       chash' = AddRealNode(chash, ps)
  /\ UNCHANGED <<args, caches_list, reqs, hits, served>>

\* The first call of CHCacheUE::init_mapper(), and each of the next four.
PlaceVirtualNodes ==
  /\ cluster.cacheType = "CHUE" /\ chash = NewRing
  /\ chash' = InitialVirtualNode(4 * cluster.virtual_node, max_hash)
  /\ UNCHANGED <<args, caches_list, reqs, hits, served>>

AssignServer ==
  /\ cluster.cacheType = "CHUE" /\ chash # NewRing
  /\ chash.realNodes < ServersToAdd
  /\ chash' = AddRealNodeAssign(chash, cluster.virtual_node,
                                1 + chash.realNodes * cluster.virtual_node)
  /\ UNCHANGED <<args, caches_list, reqs, hits, served>>

DestinationNearest(o) ==
  chash.owner[chash.list[Nearest(chash, hashOf[o.id]) + 1]]

\* The server request() sends o to.
Destination(o) == CacheIndex(chash, hashOf[o.id])

PlacedFirst(stack, o) == <<o>> \o RemoveFirst(stack, o)

\* A line is read and look_up() records where its file is served.
Read(o) ==
  /\ chash.realNodes = ServersToAdd
  /\ reqs < MaxReqs
  /\ reqs' = reqs + 1
  /\ chash' = LookUp(chash, o.id, hashOf[o.id])
  /\ UNCHANGED args

RequestHit(o) ==
  /\ Read(o)
  /\ LET s == Destination(o)
     IN  /\ IsHit(caches_list[s], o)
         /\ caches_list' = [caches_list EXCEPT ![s] = Lookup(@, o)]
         /\ served' = [served EXCEPT ![s].requests = Append(@, o),
                                     ![s].stack    = PlacedFirst(@, o),
                                     ![s].hits     = @ + 1,
                                     ![s].hitBytes = @ + o.size]
  /\ hits' = hits + 1

RequestMissLooksTwice(o) ==
  /\ Read(o)
  /\ LET s == Destination(o)
     IN  /\ ~IsHit(caches_list[s], o)
         /\ caches_list' = [caches_list EXCEPT
                              ![s] = Admit(Lookup(Lookup(@, o), o), o)]
         /\ served' = [served EXCEPT
                         ![s].requests = Append(@, o),
                         ![s].stack = IF o.size > caches_list[s].size THEN @
                                      ELSE PlacedFirst(@, o)]
  /\ UNCHANGED hits

RequestMiss(o) ==
  /\ Read(o)
  /\ LET s == Destination(o)
     IN  /\ ~IsHit(caches_list[s], o)
         /\ caches_list' = [caches_list EXCEPT ![s] = Admit(Lookup(@, o), o)]
         /\ served' = [served EXCEPT
                         ![s].requests = Append(@, o),
                         ![s].stack = IF o.size > caches_list[s].size THEN @
                                      ELSE PlacedFirst(@, o)]
  /\ UNCHANGED hits

ObjectOf(line) == IF file_size THEN line ELSE [line EXCEPT !.size = 1]

Next ==
  \/ AddServer \/ PlaceVirtualNodes \/ AssignServer
  \/ \E line \in Lines : \/ RequestHit(ObjectOf(line))
                         \/ RequestMiss(ObjectOf(line))

Spec == Init /\ [][Next]_vars

----------------------------------------------------------------------------
TypeOK ==
  /\ cluster \in Clusters
  /\ file_size \in BOOLEAN /\ hashOf \in [Ids -> cluster.hashes]
  /\ chash.realNodes \in 0..ServersToAdd
  /\ chash.list \in Seq(0..max_hash)
  /\ \A p \in DOMAIN chash.owner : chash.owner[p] \in Servers
  /\ caches_list \in [Servers -> LRUCaches]
  /\ reqs \in 0..MaxReqs /\ hits \in 0..reqs

\* However the ports collide, the two forms of the ring of CH agree and every
\* server has the virtual nodes it was given: none is lost to a later one.
RingExact ==
  cluster.cacheType = "CH" => RingOf(chash, cluster.virtual_node)

\* CHUE's ring: the virtual nodes keep a distance until they have come within
\* three of the end, where the rest of them pile up; what is piled up there
\* goes to the last server alone, all of a server's share of it too.
UnevenRing ==
  cluster.cacheType = "CHUE" =>
    UnevenRingOf(chash, cluster.virtual_node, max_hash)

\* A file lives on one server only, the one fileID_rnode_map reports and a
\* lookup would still answer: no other has counted or cached it.
FilesStay ==
  \A s \in Servers : \A id \in Ids :
    \/ id \in caches_list[s].uniqueFile
    \/ \E o \in caches_list[s].map : o.id = id
    => /\ id \in DOMAIN chash.fileRnode /\ chash.fileRnode[id] = s
       /\ CacheIndex(chash, hashOf[id]) = s

\* What is reported at the end agrees: each request, hit and file of the trace
\* is counted by one server, once.
ReportAddsUp ==
  /\ SumFunction([s \in Servers |-> served[s].hits]) = hits
  /\ SumFunction([s \in Servers |-> caches_list[s].requestNum]) = reqs
  /\ SumFunction([s \in Servers |-> Cardinality(caches_list[s].uniqueFile)])
       = Cardinality(DOMAIN chash.fileRnode)
=============================================================================
