-------------------------- MODULE CHClusterProofs --------------------------
(***************************************************************************)
(* The invariants of the consistent-hash clusters, for every set of lines, *)
(* every number of servers and of virtual nodes, every hash function and   *)
(* every length of trace, and what trace_processor makes of the traces     *)
(* they replay.                                                            *)
(***************************************************************************)
EXTENDS CHClusterServers, ReplayedTraces, ClassLemmas

USE LinesAssumption, ParametersAssumption

\* The object looked up for a line has an id and a size.
LEMMA ObjectOfLine ==
  ASSUME file_size \in BOOLEAN, NEW line \in Lines
  PROVE  ObjectOf(line) \in Objects
BY DEF ObjectOf, Objects

----------------------------------------------------------------------------
(***************************************************************************)
(* The inductive invariant: every server is a consistent cache, no file is *)
(* served before the ring is complete, and FilesStay.                      *)
(***************************************************************************)

Servable ==
  /\ cluster \in Clusters /\ file_size \in BOOLEAN
  /\ IsRing(chash) /\ chash.realNodes \in Nat
  /\ DOMAIN caches_list = Servers
  /\ \A s \in Servers : CacheInv(caches_list[s])

Unserved ==
  chash.realNodes # ServersToAdd =>
    \A s \in Servers : caches_list[s].map = {} /\ caches_list[s].uniqueFile = {}

IInv == Servable /\ Unserved /\ FilesStay

\* The invariant holds initially.
LEMMA InitIInv == Init => IInv
<1> SUFFICES ASSUME Init PROVE IInv
  OBVIOUS
<1>1. PICK cs \in CacheSizes :
        caches_list = [s \in Servers |-> SetSize(NewCache, cs)]
  BY DEF Init
<1>2. \A s \in Servers : /\ CacheInv(caches_list[s])
                         /\ caches_list[s].map = {}
                         /\ caches_list[s].uniqueFile = {}
  <2>1. cs \in Nat
    OBVIOUS
  <2> HIDE DEF Servers
  <2> QED BY <1>1, <2>1, FreshServer
<1>3. IsRing(chash) /\ chash.realNodes \in Nat
  BY DEF Init, NewRing, IsRing
<1>4. DOMAIN caches_list = Servers
  BY <1>1
<1> QED BY <1>2, <1>3, <1>4 DEF Init, IInv, Servable, Unserved, FilesStay

\* Building the ring serves nothing.
LEMMA BuildIInv ==
  ASSUME IInv, AddServer \/ PlaceVirtualNodes \/ AssignServer
  PROVE  IInv'
<1>1. /\ UNCHANGED <<cluster, file_size, hashOf, caches_list>>
      /\ chash.realNodes # ServersToAdd
  <2>0. chash.realNodes \in Nat /\ ServersToAdd \in Nat
    BY DEF IInv, Servable, ServersToAdd
  <2>1. CASE AddServer
    <3>1. chash.realNodes < ServersToAdd
      BY <2>1 DEF AddServer
    <3> QED BY <2>0, <2>1, <3>1 DEF AddServer, args
  <2>2. CASE PlaceVirtualNodes
    BY <2>2 DEF PlaceVirtualNodes, args, NewRing, ServersToAdd
  <2>3. CASE AssignServer
    <3>1. chash.realNodes < ServersToAdd
      BY <2>3 DEF AssignServer
    <3> QED BY <2>0, <2>3, <3>1 DEF AssignServer, args
  <2> QED BY <2>1, <2>2, <2>3
<1>2. IsRing(chash') /\ chash'.realNodes \in Nat
  <2>0. IsRing(chash) /\ chash.realNodes \in Nat
    BY DEF IInv, Servable
  <2>1. CASE AddServer
    <3>1. PICK ps : chash' = AddRealNode(chash, ps)
      BY <2>1 DEF AddServer
    <3>2. IsRing(chash')
      BY <2>0, <3>1 DEF AddRealNode, IsRing
    <3>3. chash'.realNodes = chash.realNodes + 1
      BY <2>0, <3>1 DEF AddRealNode, IsRing
    <3> QED BY <2>0, <3>2, <3>3
  <2>2. CASE PlaceVirtualNodes
    <3>1. IsRing(chash')
      BY <2>2 DEF PlaceVirtualNodes, InitialVirtualNode, NewRing, IsRing
    <3>2. chash'.realNodes = 0
      BY <2>2 DEF PlaceVirtualNodes, InitialVirtualNode, NewRing
    <3> QED BY <3>1, <3>2
  <2>3. CASE AssignServer
    <3>1. IsRing(chash')
      BY <2>0, <2>3 DEF AssignServer, AddRealNodeAssign, IsRing
    <3>2. chash'.realNodes = chash.realNodes + 1
      BY <2>0, <2>3 DEF AssignServer, AddRealNodeAssign, IsRing
    <3> QED BY <2>0, <3>1, <3>2
  <2> QED BY <2>1, <2>2, <2>3
<1>3. Servers' = Servers
  BY <1>1 DEF Servers
<1>4. \A s \in Servers : caches_list[s].map = {} /\ caches_list[s].uniqueFile = {}
  BY <1>1 DEF IInv, Unserved
<1>5. Servable'
  BY <1>1, <1>2, <1>3 DEF IInv, Servable
<1>6. Unserved' /\ FilesStay'
  BY <1>1, <1>3, <1>4 DEF Unserved, FilesStay
<1> QED BY <1>5, <1>6 DEF IInv

\* A request: the server the file is sent to counts it and may cache the
\* object; the other servers do not change, nor does the ring.
LEMMA RequestIInv ==
  ASSUME IInv, NEW o \in Objects, Read(o),
         NEW s, s = Destination(o),
         NEW d,
         s \in Servers =>
           /\ CacheInv(d) /\ d.map \subseteq caches_list[s].map \cup {o}
           /\ d.uniqueFile = caches_list[s].uniqueFile \cup {o.id},
         caches_list' = [caches_list EXCEPT ![s] = d]
  PROVE  IInv'
<1>0. Servable /\ Unserved /\ FilesStay
  BY DEF IInv
<1>1. /\ UNCHANGED <<cluster, file_size, hashOf>>
      /\ chash.realNodes = ServersToAdd
      /\ chash' = LookUp(chash, o.id, hashOf[o.id])
  BY DEF Read, args
<1>2. /\ IsRing(chash') /\ chash'.realNodes = chash.realNodes
      /\ chash'.fileRnode = Put(chash.fileRnode, {o.id}, s)
      /\ \A h : CacheIndex(chash', h) = CacheIndex(chash, h)
  <2>1. IsRing(chash)
    BY <1>0 DEF Servable
  <2>2. s = CacheIndex(chash, hashOf[o.id])
    BY DEF Destination
  <2>3. /\ IsRing(chash') /\ SameNodes(chash', chash)
        /\ Remembered(chash', chash, o.id, hashOf[o.id])
    BY <1>1, <2>1, LookUpRing
  <2>4. \A p : CacheIndex(chash', p) = CacheIndex(chash, p)
    BY <2>3, ServedBySame
  <2> QED BY <2>2, <2>3, <2>4 DEF SameNodes, Remembered
<1>3. Servers' = Servers /\ ServersToAdd' = ServersToAdd
  BY <1>1 DEF Servers, ServersToAdd
<1>4. /\ DOMAIN caches_list' = Servers
      /\ s \in Servers => caches_list'[s] = d
      /\ \A t \in Servers : t # s => caches_list'[t] = caches_list[t]
  BY <1>0 DEF Servable
<1>5. \A t \in Servers : CacheInv(caches_list'[t])
  BY <1>0, <1>4 DEF Servable
<1>6. Servable'
  BY <1>0, <1>1, <1>2, <1>3, <1>4, <1>5 DEF Servable
<1>7. Unserved'
  BY <1>1, <1>2, <1>3 DEF Unserved
<1>8. FilesStay'
  <2> SUFFICES ASSUME NEW t \in Servers, NEW id \in Ids,
                      \/ id \in caches_list'[t].uniqueFile
                      \/ \E x \in caches_list'[t].map : x.id = id
               PROVE  /\ id \in DOMAIN chash'.fileRnode
                      /\ chash'.fileRnode[id] = t
                      /\ CacheIndex(chash', hashOf'[id]) = t
    BY <1>3 DEF FilesStay
  <2>1. /\ id \in DOMAIN chash.fileRnode => id \in DOMAIN chash'.fileRnode
        /\ o.id \in DOMAIN chash'.fileRnode /\ chash'.fileRnode[o.id] = s
        /\ id \in DOMAIN chash.fileRnode /\ id # o.id =>
             chash'.fileRnode[id] = chash.fileRnode[id]
    BY <1>2 DEF Put
  <2>2. /\ CacheIndex(chash', hashOf'[id]) = CacheIndex(chash, hashOf[id])
        /\ CacheIndex(chash, hashOf[o.id]) = s
    BY <1>1, <1>2 DEF Destination
  <2>3. CASE id = o.id /\ t = s
    BY <2>1, <2>2, <2>3
  <2>4. CASE ~(id = o.id /\ t = s)
    <3>1. \/ id \in caches_list[t].uniqueFile
          \/ \E x \in caches_list[t].map : x.id = id
      BY <1>4, <2>4
    <3>2. /\ id \in DOMAIN chash.fileRnode /\ chash.fileRnode[id] = t
          /\ CacheIndex(chash, hashOf[id]) = t
      BY <1>0, <3>1 DEF FilesStay
    <3> QED BY <2>1, <2>2, <2>4, <3>2
  <2> QED BY <2>3, <2>4
<1> QED BY <1>6, <1>7, <1>8 DEF IInv

\* Every action keeps the invariant.
LEMMA NextIInv == IInv /\ [Next]_vars => IInv'
<1> SUFFICES ASSUME IInv, [Next]_vars PROVE IInv'
  OBVIOUS
<1>0. Servable
  BY DEF IInv
<1>1. CASE AddServer \/ PlaceVirtualNodes \/ AssignServer
  BY <1>1, BuildIInv
<1>2. ASSUME NEW o \in Objects, RequestHit(o) \/ RequestMiss(o)
      PROVE  IInv'
  <2> DEFINE s == Destination(o)
             c == caches_list[s]
             d == IF RequestHit(o) THEN Lookup(c, o) ELSE Admit(Lookup(c, o), o)
  <2>1. Read(o) /\ caches_list' = [caches_list EXCEPT ![s] = d]
    BY <1>2 DEF RequestHit, RequestMiss
  <2>2. s \in Servers =>
          /\ CacheInv(d) /\ d.map \subseteq c.map \cup {o}
          /\ d.uniqueFile = c.uniqueFile \cup {o.id}
    <3> SUFFICES ASSUME s \in Servers
                 PROVE  /\ CacheInv(d) /\ d.map \subseteq c.map \cup {o}
                        /\ d.uniqueFile = c.uniqueFile \cup {o.id}
      OBVIOUS
    <3>1. CacheInv(c)
      BY <1>0 DEF Servable
    <3>2. ~RequestHit(o) => o \notin c.map
      BY <1>2 DEF RequestMiss, IsHit
    <3> HIDE DEF c
    <3> QED BY <3>1, <3>2, ServeHit, ServeMiss
  <2> HIDE DEF d, s
  <2> QED BY <2>1, <2>2, RequestIInv DEF c, s
<1>3. CASE UNCHANGED vars
  BY <1>3 DEF vars, args, IInv, Servable, Unserved, FilesStay, Servers,
              ServersToAdd
<1> QED BY <1>0, <1>1, <1>2, <1>3, ObjectOfLine DEF Next, Servable

\* The invariant holds in every state.
LEMMA Invariant == Spec => []IInv
BY InitIInv, NextIInv, PTL DEF Spec

\* A file lives on one server only, however the ring was built and whatever
\* positions the files hash to.
THEOREM FilesStayCorrect == Spec => []FilesStay
<1>1. IInv => FilesStay
  BY DEF IInv
<1> QED BY <1>1, Invariant, PTL

\* Every server of the cluster keeps its byte count exact and within its
\* capacity and its index in step with its list.
THEOREM ServersConsistent == Spec => [](\A s \in Servers : CacheInv(caches_list[s]))
<1>1. IInv => \A s \in Servers : CacheInv(caches_list[s])
  BY DEF IInv, Servable
<1> QED BY <1>1, Invariant, PTL

----------------------------------------------------------------------------
(***************************************************************************)
(* Each server implements the stack model, on its own requests.            *)
(***************************************************************************)

StacksIInv ==
  /\ served \in [Servers -> [requests : Seq(Objects), stack : Seq(Objects),
                             hits : Nat, hitBytes : Nat]]
  /\ \A s \in Servers : TopOf(caches_list[s], served[s].stack)

\* The stacks are empty when the servers are.
LEMMA InitStacks == Init => StacksIInv
<1> SUFFICES ASSUME Init PROVE StacksIInv
  OBVIOUS
<1>1. PICK cs \in CacheSizes :
        caches_list = [s \in Servers |-> SetSize(NewCache, cs)]
  BY DEF Init
<1>2. /\ <<>> \in Seq(Objects)
      /\ served = [s \in Servers |->
               [requests |-> <<>>, stack |-> <<>>, hits |-> 0, hitBytes |-> 0]]
  BY DEF Init
<1>3. ASSUME NEW s \in Servers
      PROVE  TopOf(caches_list[s], served[s].stack)
  <2>1. /\ CacheInv(SetSize(NewCache, cs)) /\ SetSize(NewCache, cs).map = {}
        /\ caches_list[s] = SetSize(NewCache, cs) /\ served[s].stack = <<>>
    BY <1>1, <1>2, FreshServer
  <2> QED BY <2>1, EmptyTop
<1> QED BY <1>2, <1>3 DEF StacksIInv

\* What a request does to the stack of the server it is sent to.
StackServed(c, o, stack) ==
  IF o \in c.map \/ o.size <= c.size THEN OnTop(o, stack) ELSE stack

LEMMA ServeTop ==
  ASSUME NEW c, CacheInv(c), NEW o \in Objects, NEW stack, TopOf(c, stack)
  PROVE  /\ o \in c.map => TopOf(Lookup(c, o), StackServed(c, o, stack))
         /\ o \notin c.map =>
              TopOf(Admit(Lookup(c, o), o), StackServed(c, o, stack))
<1>1. /\ CacheInv(Count(c, o)) /\ Count(c, o).map = c.map
      /\ Count(c, o).size = c.size /\ TopOf(Count(c, o), stack)
  BY CountInv, CountTop
<1>2. CASE o \in c.map
  BY <1>1, <1>2, HitTop DEF Lookup, IsHit, StackServed
<1>3. CASE o \notin c.map /\ o.size <= c.size
  <2>1. TopOf(Admit(Count(c, o), o), OnTop(o, stack))
    BY <1>1, <1>3, AdmitTop
  <2> QED BY <1>3, <2>1 DEF Lookup, IsHit, StackServed
<1>4. CASE o \notin c.map /\ ~(o.size <= c.size)
  <2>1. o.size > Count(c, o).size
    BY <1>1, <1>4 DEF CacheInv, LRUCaches, Objects
  <2> QED BY <1>1, <1>4, <2>1 DEF Lookup, IsHit, Admit, StackServed
<1> QED BY <1>2, <1>3, <1>4

\* A request is served by one server, on top of its stack.
LEMMA RequestStacks ==
  ASSUME IInv, StacksIInv, NEW o \in Objects, RequestHit(o) \/ RequestMiss(o),
         NEW t \in Servers
  PROVE  /\ served'[t] \in [requests : Seq(Objects), stack : Seq(Objects),
                            hits : Nat, hitBytes : Nat]
         /\ DOMAIN served' = Servers
         /\ TopOf(caches_list'[t], served'[t].stack)
         /\ UNCHANGED caches_list[t].size
         /\ \/ Serves(served[t], served'[t], caches_list[t].size, TRUE, TRUE)
            \/ UNCHANGED <<served[t], caches_list[t].list>>
<1> DEFINE s == Destination(o)
           c == caches_list[t]
           m == served[t]
           n == served'[t]
<1>1. /\ CacheInv(c) /\ TopOf(c, m.stack) /\ DOMAIN caches_list = Servers
      /\ DOMAIN served = Servers
      /\ m \in [requests : Seq(Objects), stack : Seq(Objects),
                hits : Nat, hitBytes : Nat]
  BY DEF IInv, Servable, StacksIInv
<1>2. CASE t # s
  <2>1. caches_list'[t] = c /\ n = m /\ DOMAIN served' = Servers
    BY <1>1, <1>2 DEF RequestHit, RequestMiss
  <2> QED BY <1>1, <2>1
<1>3. CASE t = s
  <2>1. o.size \in Nat /\ c.size \in Nat
    BY <1>1 DEF Objects, CacheInv, LRUCaches
  <2>2. Resident(m.stack, c.size) = c.map
    BY <1>1, TopResident
  <2>3. /\ DOMAIN served' = Servers
        /\ n = [m EXCEPT !.requests = Append(m.requests, o),
                         !.stack = n.stack, !.hits = n.hits,
                         !.hitBytes = n.hitBytes]
        /\ n.stack = StackServed(c, o, m.stack)
        /\ \/ /\ o \in c.map /\ caches_list'[t] = Lookup(c, o)
              /\ n.hits = m.hits + 1 /\ n.hitBytes = m.hitBytes + o.size
           \/ /\ o \notin c.map /\ caches_list'[t] = Admit(Lookup(c, o), o)
              /\ n.hits = m.hits /\ n.hitBytes = m.hitBytes
    <3> HIDE DEF m
    <3>1. CASE RequestHit(o)
      <4>1. /\ o \in c.map /\ caches_list'[t] = Lookup(c, o)
            /\ served' = [served EXCEPT
                 ![t] = [m EXCEPT !.requests = Append(m.requests, o),
                                  !.stack    = PlacedFirst(m.stack, o),
                                  !.hits     = m.hits + 1,
                                  !.hitBytes = m.hitBytes + o.size]]
        BY <1>1, <1>3, <3>1 DEF RequestHit, IsHit, m
      <4> QED BY <1>1, <4>1 DEF StackServed, PlacedFirst, OnTop
    <3>2. CASE RequestMiss(o)
      <4>1. /\ o \notin c.map /\ caches_list'[t] = Admit(Lookup(c, o), o)
            /\ served' = [served EXCEPT
                 ![t] = [m EXCEPT !.requests = Append(m.requests, o),
                                  !.stack    = IF o.size > c.size THEN m.stack
                                               ELSE PlacedFirst(m.stack, o)]]
        BY <1>1, <1>3, <3>2 DEF RequestMiss, IsHit, m
      <4>2. StackServed(c, o, m.stack)
              = IF o.size > c.size THEN m.stack ELSE PlacedFirst(m.stack, o)
        BY <2>1, <4>1 DEF StackServed, PlacedFirst, OnTop
      <4>3. /\ DOMAIN served' = Servers
            /\ n = [m EXCEPT !.requests = Append(m.requests, o),
                             !.stack    = StackServed(c, o, m.stack)]
        BY <1>1, <4>1, <4>2
      <4> HIDE DEF n
      <4> QED BY <1>1, <4>1, <4>3
    <3> QED BY <3>1, <3>2
  <2> HIDE DEF m, n, c, s
  <2>4. /\ m.requests \in Seq(Objects) /\ m.stack \in Seq(Objects)
        /\ m.hits \in Nat /\ m.hitBytes \in Nat /\ IsInjective(m.stack)
    BY <1>1 DEF TopOf
  <2>5. /\ Append(m.requests, o) \in Seq(Objects)
        /\ Len(Append(m.requests, o)) > Len(m.requests)
        /\ Last(Append(m.requests, o)) = o
    <3>1. /\ Append(m.requests, o) \in Seq(Objects)
          /\ Len(Append(m.requests, o)) = Len(m.requests) + 1
          /\ Append(m.requests, o)[Len(m.requests) + 1] = o
          /\ Len(m.requests) \in Nat
      BY <2>4, AppendProperties
    <3> QED BY <3>1 DEF Last
  <2>6. n.stack \in Seq(Objects)
    BY <2>3, <2>4, OnTopType DEF StackServed
  <2>7. n.requests = Append(m.requests, o)
    BY <1>1, <2>3
  <2>8. n \in [requests : Seq(Objects), stack : Seq(Objects),
               hits : Nat, hitBytes : Nat]
    <3>1. n.hits \in Nat /\ n.hitBytes \in Nat
      BY <2>1, <2>3, <2>4
    <3> QED BY <1>1, <2>3, <2>5, <2>6, <3>1
  <2>9. TopOf(caches_list'[t], n.stack)
    BY <1>1, <2>3, ServeTop
  <2>10. caches_list'[t].size = c.size
    <3>1. CacheInv(Lookup(c, o)) /\ Lookup(c, o).map = c.map
          /\ Lookup(c, o).size = c.size
      BY <1>1, LookupInv
    <3>2. o \notin c.map => Admit(Lookup(c, o), o).size = c.size
      <4> DEFINE d == Lookup(c, o)
      <4> HIDE DEF d
      <4>1. CacheInv(d) /\ d.map = c.map /\ d.size = c.size
        BY <3>1 DEF d
      <4>2. o \notin c.map => Admit(d, o).size = c.size
        BY <4>1, AdmitInv
      <4> QED BY <4>2 DEF d
    <3> QED BY <2>3, <3>1, <3>2
  <2>11. Serves(m, n, c.size, TRUE, TRUE)
    <3>1. CASE o \in c.map
      <4>1. ModelHit(m, n, o, c.size, TRUE)
        BY <2>2, <2>3, <3>1 DEF ModelHit, StackServed
      <4> QED BY <2>5, <2>7, <4>1 DEF Serves
    <3>2. CASE o \notin c.map
      <4>1. ModelMiss(m, n, o, c.size, TRUE)
        BY <2>1, <2>2, <2>3, <3>2 DEF ModelMiss, StackServed
      <4> QED BY <2>5, <2>7, <4>1 DEF Serves
    <3> QED BY <3>1, <3>2
  <2> QED BY <2>3, <2>8, <2>9, <2>10, <2>11 DEF m, n, c
<1> QED BY <1>2, <1>3

\* What every step does to each server.
ServersStep ==
  \A s \in Servers :
    /\ UNCHANGED caches_list[s].size
    /\ \/ Serves(served[s], served'[s], caches_list[s].size, TRUE, TRUE)
       \/ UNCHANGED <<served[s], caches_list[s].list>>

\* Every step keeps the stacks, and is one of theirs or none.
LEMMA NextStacks ==
  IInv /\ StacksIInv /\ [Next]_vars => StacksIInv' /\ ServersStep
<1> SUFFICES ASSUME IInv, StacksIInv, [Next]_vars
             PROVE  StacksIInv' /\ ServersStep
  OBVIOUS
<1>1. ASSUME NEW o \in Objects, RequestHit(o) \/ RequestMiss(o)
      PROVE  StacksIInv' /\ ServersStep
  <2>1. Servers' = Servers
    BY <1>1 DEF RequestHit, RequestMiss, Read, args, Servers
  <2>2. ServersStep
    BY <1>1, RequestStacks DEF ServersStep
  <2>3. \A s \in Servers :
          /\ served'[s] \in [requests : Seq(Objects), stack : Seq(Objects),
                             hits : Nat, hitBytes : Nat]
          /\ TopOf(caches_list'[s], served'[s].stack)
    BY <1>1, RequestStacks
  <2>4. DOMAIN served' = Servers /\ served' = [s \in Servers |-> served'[s]]
    BY <1>1 DEF RequestHit, RequestMiss, StacksIInv
  <2> QED BY <2>1, <2>2, <2>3, <2>4 DEF StacksIInv
<1>2. CASE UNCHANGED <<cluster, caches_list, served>>
  BY <1>2 DEF StacksIInv, ServersStep, Servers
<1>3. ASSUME NEW line \in Lines PROVE ObjectOf(line) \in Objects
  BY ObjectOfLine DEF IInv, Servable
<1> QED BY <1>1, <1>2, <1>3
        DEF Next, AddServer, PlaceVirtualNodes, AssignServer, args, vars

\* Each server of a cluster is an LRU cache of the requests sent to it: it hits
\* and evicts as the stack model does with them, and nothing else happens to
\* it, however many servers there are and whatever the ring sends where.
THEOREM ServersAreLRUCaches == Spec => ServersAreLRU
<1>1. Init => \A s \in Servers : served[s] = NewModel
  BY DEF Init, NewModel
<1>2. IInv /\ StacksIInv /\ [Next]_vars => [ServersStep]_vars
  BY NextStacks
<1> QED BY <1>1, <1>2, Invariant, InitStacks, NextStacks, PTL
        DEF Spec, ServersAreLRU, ServersStep

----------------------------------------------------------------------------
(***************************************************************************)
(* The ring of CH.                                                         *)
(***************************************************************************)

RingIInv ==
  /\ cluster \in Clusters
  /\ cluster.cacheType = "CH" =>
       IsRing(chash) /\ RingInv(chash, cluster.virtual_node, max_hash)

\* The invariant of the ring holds initially.
LEMMA InitRingIInv == Init => RingIInv
<1> SUFFICES ASSUME Init PROVE RingIInv
  OBVIOUS
<1>1. cluster \in Clusters /\ chash = NewRing
  BY DEF Init
<1>2. IsRing(chash)
  BY <1>1 DEF NewRing, IsRing
<1>3. cluster.virtual_node \in Nat /\ max_hash \in Nat
  BY <1>1
<1>4. RingInv(chash, cluster.virtual_node, max_hash)
  BY <1>1, <1>3, NewRingInv
<1> QED BY <1>1, <1>2, <1>4 DEF RingIInv

\* Only the fields a ring is made of matter.
LEMMA SameRing ==
  ASSUME NEW q, NEW r, SameNodes(q, r), NEW n, NEW m, RingInv(r, n, m)
  PROVE  RingInv(q, n, m)
BY DEF SameNodes, RingInv, RingOf

\* Every action keeps the invariant of the ring.
LEMMA NextRingIInv == RingIInv /\ [Next]_vars => RingIInv'
<1> SUFFICES ASSUME RingIInv, [Next]_vars PROVE RingIInv'
  OBVIOUS
<1>0. cluster \in Clusters /\ cluster' = cluster
  BY DEF RingIInv, Next, AddServer, PlaceVirtualNodes, AssignServer,
         RequestHit, RequestMiss, Read, args, vars
<1> SUFFICES ASSUME cluster.cacheType = "CH"
             PROVE  /\ IsRing(chash')
                    /\ RingInv(chash', cluster.virtual_node, max_hash)
  BY <1>0 DEF RingIInv
<1> DEFINE n == cluster.virtual_node
<1>1. IsRing(chash) /\ RingInv(chash, n, max_hash)
  BY DEF RingIInv
<1>2. n \in Nat /\ cluster.hashes \in SUBSET (0..max_hash) /\ max_hash \in Nat
  BY <1>0
<1> HIDE DEF n
<1>3. CASE AddServer
  <2>1. PICK ps \in FreePositions(chash, n, cluster.hashes) :
          chash' = AddRealNode(chash, ps)
    BY <1>3 DEF AddServer, n
  <2>2. /\ chash'.realNodes = chash.realNodes + 1
        /\ chash'.owner = Put(chash.owner, ToSet(ps), chash.realNodes)
        /\ chash'.list = WithPositions(chash.list, ps)
        /\ IsRing(chash')
    BY <1>1, <2>1 DEF AddRealNode, IsRing
  <2>3. RingInv(chash', n, max_hash)
    BY <1>1, <1>2, <2>2, AddRealNodeInv
  <2> QED BY <2>2, <2>3 DEF n
<1>4. ASSUME NEW o, Read(o)
      PROVE  IsRing(chash') /\ RingInv(chash', n, max_hash)
  <2>1. chash' = LookUp(chash, o.id, hashOf[o.id])
    BY <1>4 DEF Read
  <2>2. IsRing(chash') /\ SameNodes(chash', chash)
    BY <1>1, <2>1, LookUpRing
  <2> QED BY <1>1, <2>2, SameRing
<1>5. CASE chash' = chash
  BY <1>1, <1>5 DEF n
<1> QED BY <1>3, <1>4, <1>5 DEF Next, PlaceVirtualNodes, AssignServer,
        RequestHit, RequestMiss, vars, n

\* The list and the map of CH's ring agree, however the ports collide, and no
\* server loses a virtual node to a later one.
THEOREM RingExactCorrect == Spec => []RingExact
<1>1. RingIInv => RingExact
  BY DEF RingIInv, RingInv, RingExact
<1> QED BY <1>1, InitRingIInv, NextRingIInv, PTL DEF Spec

----------------------------------------------------------------------------
(***************************************************************************)
(* The ring of CHUE.                                                       *)
(***************************************************************************)

UnevenIInv ==
  /\ cluster \in Clusters
  /\ cluster.cacheType = "CHUE" =>
       \/ chash = NewRing
       \/ /\ IsRing(chash)
          /\ DealtRing(chash, UnevenPositions(4 * cluster.virtual_node, max_hash),
                       cluster.virtual_node, max_hash)

\* Every action keeps the invariant of CHUE's ring.
LEMMA NextUnevenIInv == UnevenIInv /\ [Next]_vars => UnevenIInv'
<1> SUFFICES ASSUME UnevenIInv, [Next]_vars PROVE UnevenIInv'
  OBVIOUS
<1>0. cluster \in Clusters /\ cluster' = cluster
  BY DEF UnevenIInv, Next, AddServer, PlaceVirtualNodes, AssignServer,
         RequestHit, RequestMiss, Read, args, vars
<1> DEFINE n == cluster.virtual_node
           ps == UnevenPositions(4 * n, max_hash)
           Dealt(r) == IsRing(r) /\ DealtRing(r, ps, n, max_hash)
<1> SUFFICES ASSUME cluster.cacheType = "CHUE"
             PROVE  chash' = NewRing \/ Dealt(chash')
  BY <1>0 DEF UnevenIInv
<1>1. /\ chash = NewRing \/ Dealt(chash)
      /\ n \in Nat \ {0} /\ max_hash \in Nat /\ max_hash >= 3
  BY <1>0 DEF UnevenIInv
<1> HIDE DEF n, ps, Dealt
<1>2. CASE PlaceVirtualNodes
  <2>1. chash' = InitialVirtualNode(4 * n, max_hash)
    BY <1>2 DEF PlaceVirtualNodes, n
  <2> QED BY <1>1, <2>1, PlacedRing DEF Dealt, ps
<1>3. CASE AssignServer
  <2>1. /\ chash' = AddRealNodeAssign(chash, n, 1 + chash.realNodes * n)
        /\ chash # NewRing /\ chash.realNodes < 4
    BY <1>3 DEF AssignServer, n, ServersToAdd
  <2>2. IsRing(chash) /\ DealtRing(chash, ps, n, max_hash)
    BY <1>1, <2>1 DEF Dealt
  <2>3. IsRing(chash') /\ DealtRing(chash', ps, n, max_hash)
    BY <2>1, <2>2, AssignedRing
  <2> QED BY <2>3 DEF Dealt
<1>4. ASSUME NEW o, Read(o) PROVE Dealt(chash')
  <2>1. chash' = LookUp(chash, o.id, hashOf[o.id]) /\ chash.realNodes = 4
    BY <1>4 DEF Read, ServersToAdd
  <2>2. chash # NewRing
    BY <2>1 DEF NewRing
  <2>3. IsRing(chash) /\ DealtRing(chash, ps, n, max_hash)
    BY <1>1, <2>2 DEF Dealt
  <2>4. IsRing(chash') /\ SameNodes(chash', chash)
    BY <2>1, <2>3, LookUpRing
  <2>5. DealtRing(chash', ps, n, max_hash)
    BY <2>3, <2>4 DEF DealtRing, SameNodes
  <2> QED BY <2>4, <2>5 DEF Dealt
<1>5. CASE chash' = chash
  BY <1>1, <1>5
<1> QED BY <1>2, <1>3, <1>4, <1>5 DEF Next, AddServer, RequestHit,
        RequestMiss, vars

\* CHUE's ring is as uneven as it should be, for every number of virtual nodes
\* and length of the ring: virtual nodes share a position only near its end,
\* and the last server dealt one there owns it.
THEOREM UnevenRingCorrect == Spec => []UnevenRing
<1>1. Init => UnevenIInv
  BY DEF Init, UnevenIInv
<1>2. UnevenIInv => UnevenRing
  <2> SUFFICES ASSUME UnevenIInv, cluster.cacheType = "CHUE"
               PROVE  UnevenRingOf(chash, cluster.virtual_node, max_hash)
    BY DEF UnevenRing
  <2>1. CASE chash = NewRing
    BY <2>1 DEF UnevenRingOf, NewRing, Sorted, ToSet
  <2>2. CASE chash # NewRing
    BY <2>2, DealtIsUneven DEF UnevenIInv
  <2> QED BY <2>1, <2>2
<1> QED BY <1>1, <1>2, NextUnevenIInv, PTL DEF Spec

----------------------------------------------------------------------------
(***************************************************************************)
(* Types, and where a file is sent.                                        *)
(***************************************************************************)

TypeIInv ==
  /\ cluster \in Clusters
  /\ file_size \in BOOLEAN /\ hashOf \in [Ids -> cluster.hashes]
  /\ chash.realNodes \in 0..ServersToAdd
  /\ caches_list = [s \in Servers |-> caches_list[s]]
  /\ reqs \in 0..MaxReqs /\ hits \in 0..reqs

\* The positions of a ring and their owners.
LEMMA RingTypes ==
  ASSUME TypeIInv, RingIInv, UnevenIInv
  PROVE  /\ chash.list \in Seq(0..max_hash) /\ Sorted(chash.list)
         /\ ToSet(chash.list) = DOMAIN chash.owner
         /\ \A p \in DOMAIN chash.owner : chash.owner[p] \in Servers
         /\ chash.realNodes = ServersToAdd => chash.list # <<>>
<1> DEFINE n == cluster.virtual_node
<1>0. /\ cluster \in Clusters /\ cluster.cacheType \in {"CH", "CHUE"}
      /\ n \in Nat \ {0} /\ cluster.cache_number \in Nat \ {0, 1}
      /\ cluster.cacheType = "CHUE" => cluster.cache_number >= 4
  BY DEF TypeIInv
<1> HIDE DEF n
<1>1. CASE cluster.cacheType = "CH"
  <2>1. /\ RingOf(chash, n) /\ chash.list \in Seq(0..max_hash)
        /\ \A p \in DOMAIN chash.owner :
             chash.owner[p] \in 0..(chash.realNodes - 1)
        /\ chash.realNodes \in 0..cluster.cache_number
    BY <1>1 DEF RingIInv, RingInv, TypeIInv, ServersToAdd, n
  <2>2. \A p \in DOMAIN chash.owner : chash.owner[p] \in Servers
    BY <1>0, <2>1 DEF Servers
  <2>3. ASSUME chash.realNodes = ServersToAdd PROVE chash.list # <<>>
    <3>1. 0 \in 0..(chash.realNodes - 1)
      BY <1>0, <1>1, <2>3 DEF ServersToAdd
    <3>2. Cardinality({p \in DOMAIN chash.owner : chash.owner[p] = 0}) = n
      BY <2>1, <3>1 DEF RingOf
    <3>3. {p \in DOMAIN chash.owner : chash.owner[p] = 0} # {}
      BY <1>0, <3>2, FS_EmptySet
    <3>4. ToSet(chash.list) # {}
      BY <2>1, <3>3 DEF RingOf
    <3> QED BY <3>4 DEF ToSet
  <2> QED BY <2>1, <2>2, <2>3 DEF RingOf
<1>2. CASE cluster.cacheType = "CHUE"
  <2> DEFINE ps == UnevenPositions(4 * n, max_hash)
  <2> HIDE DEF ps
  <2>1. CASE chash = NewRing
    <3>1. chash.list = <<>> /\ chash.owner = <<>> /\ chash.realNodes = 0
      BY <2>1 DEF NewRing
    <3>2. ServersToAdd # 0
      BY <1>2 DEF ServersToAdd
    <3> QED BY <3>1, <3>2 DEF Sorted, ToSet
  <2>2. CASE DealtRing(chash, ps, n, max_hash)
    <3>1. /\ UnevenRingOf(chash, n, max_hash)
          /\ chash.list \in Seq(0..max_hash)
      BY <2>2, DealtIsUneven
    <3>2. \A p \in DOMAIN chash.owner : chash.owner[p] \in Servers
      BY <1>0, <1>2, <2>2 DEF DealtRing, Servers
    <3>3. chash.list # <<>>
      <4>1. ps # <<>> /\ ps \in Seq(0..max_hash) /\ 1 \in DOMAIN ps
        BY <2>2 DEF DealtRing, UnevenlyPlaced
      <4>2. ToSet(ps) # {}
        BY <4>1 DEF ToSet
      <4>3. ToSet(chash.list) # {}
        BY <3>1, <4>2, <2>2 DEF UnevenRingOf, DealtRing
      <4> QED BY <4>3 DEF ToSet
    <3> QED BY <3>1, <3>2, <3>3 DEF UnevenRingOf
  <2> QED BY <1>2, <2>1, <2>2 DEF UnevenIInv, n, ps
<1> QED BY <1>0, <1>1, <1>2

\* Every file of the trace is sent to a server there is.
LEMMA SentToServer ==
  ASSUME TypeIInv, RingIInv, UnevenIInv, chash.realNodes = ServersToAdd,
         NEW o \in Objects
  PROVE  Destination(o) \in Servers
<1> DEFINE h == hashOf[o.id]
           i == Nearest(chash, h)
           N == Len(chash.list)
<1>1. h \in Nat
  BY DEF TypeIInv, Objects
<1> HIDE DEF h
<1>2. /\ chash.list \in Seq(0..max_hash) /\ Sorted(chash.list)
      /\ ToSet(chash.list) = DOMAIN chash.owner
      /\ \A p \in DOMAIN chash.owner : chash.owner[p] \in Servers
      /\ chash.list # <<>>
  BY RingTypes
<1>3. chash.list \in Seq(Nat) /\ N \in Nat \ {0} /\ DOMAIN chash.list = 1..N
  BY <1>2
<1>4. i \in 0..(N - 1)
  BY <1>1, <1>2, <1>3, NearestFound
<1>5. ServedAt(chash, h) + 1 \in 1..N
  <2> HIDE DEF i
  <2>1. (IF i + 1 >= N THEN 0 ELSE i + 1) + 1 \in 1..N
    BY <1>3, <1>4
  <2> QED BY <2>1 DEF ServedAt, i
<1>6. chash.list[ServedAt(chash, h) + 1] \in DOMAIN chash.owner
  BY <1>2, <1>3, <1>5 DEF ToSet
<1> QED BY <1>2, <1>6 DEF Destination, CacheIndex, h

\* The types hold initially.
LEMMA InitTypeIInv == Init => TypeIInv
<1> SUFFICES ASSUME Init PROVE TypeIInv
  OBVIOUS
<1>1. chash.realNodes = 0
  BY DEF Init, NewRing
<1>2. ServersToAdd \in Nat
  BY DEF Init, ServersToAdd
<1>3. caches_list = [s \in Servers |-> caches_list[s]]
  BY DEF Init
<1> QED BY <1>1, <1>2, <1>3 DEF Init, TypeIInv

\* Every action keeps them.
LEMMA NextTypeIInv == IInv /\ TypeIInv /\ [Next]_vars => TypeIInv'
<1> SUFFICES ASSUME IInv, TypeIInv, [Next]_vars PROVE TypeIInv'
  OBVIOUS
<1>0. /\ IsRing(chash) /\ cluster \in Clusters /\ ServersToAdd \in Nat
      /\ chash.realNodes \in 0..ServersToAdd /\ reqs \in 0..MaxReqs
      /\ hits \in 0..reqs /\ caches_list = [s \in Servers |-> caches_list[s]]
  BY DEF IInv, Servable, TypeIInv, ServersToAdd
<1>1. UNCHANGED args
  BY DEF Next, AddServer, PlaceVirtualNodes, AssignServer, RequestHit,
         RequestMiss, Read, vars
<1>2. Servers' = Servers /\ ServersToAdd' = ServersToAdd
  BY <1>1 DEF args, Servers, ServersToAdd
<1>3. CASE AddServer \/ PlaceVirtualNodes \/ AssignServer
  <2>1. chash'.realNodes \in 0..ServersToAdd
    <3>1. CASE AddServer
      <4>1. PICK ps : chash' = AddRealNode(chash, ps)
        BY <3>1 DEF AddServer
      <4>2. chash'.realNodes = chash.realNodes + 1
        BY <1>0, <4>1, AddRealNodeFields
      <4>3. chash.realNodes < ServersToAdd
        BY <3>1 DEF AddServer
      <4> QED BY <1>0, <4>2, <4>3
    <3>2. CASE PlaceVirtualNodes
      <4>1. chash'.realNodes = 0
        BY <3>2 DEF PlaceVirtualNodes, InitialVirtualNode, NewRing
      <4> QED BY <1>0, <4>1
    <3>3. CASE AssignServer
      <4>1. chash'.realNodes = chash.realNodes + 1
        BY <1>0, <3>3 DEF AssignServer, AddRealNodeAssign, IsRing
      <4>2. chash.realNodes < ServersToAdd
        BY <3>3 DEF AssignServer
      <4> QED BY <1>0, <4>1, <4>2
    <3> QED BY <1>3, <3>1, <3>2, <3>3
  <2>2. UNCHANGED <<caches_list, reqs, hits>>
    BY <1>3 DEF AddServer, PlaceVirtualNodes, AssignServer
  <2> QED BY <1>0, <1>1, <1>2, <2>1, <2>2 DEF TypeIInv, args
<1>4. ASSUME NEW o, RequestHit(o) \/ RequestMiss(o) PROVE TypeIInv'
  <2>1. /\ chash' = LookUp(chash, o.id, hashOf[o.id])
        /\ reqs' = reqs + 1 /\ reqs < MaxReqs
        /\ hits' = hits \/ hits' = hits + 1
    BY <1>4 DEF RequestHit, RequestMiss, Read
  <2>2. chash'.realNodes = chash.realNodes
    BY <1>0, <2>1, LookUpRing DEF SameNodes
  <2>3. reqs' \in 0..MaxReqs /\ hits' \in 0..reqs'
    BY <1>0, <2>1
  <2>4. PICK d : caches_list' = [caches_list EXCEPT ![Destination(o)] = d]
    BY <1>4 DEF RequestHit, RequestMiss
  <2>5. caches_list' = [s \in Servers |-> caches_list'[s]]
    <3> DEFINE t == Destination(o)
    <3> HIDE DEF t
    <3>1. caches_list' = [caches_list EXCEPT ![t] = d]
      BY <2>4 DEF t
    <3> QED BY <1>0, <3>1
  <2> QED BY <1>0, <1>1, <1>2, <2>2, <2>3, <2>5 DEF TypeIInv, args
<1>5. CASE UNCHANGED vars
  BY <1>0, <1>1, <1>2, <1>5 DEF TypeIInv, vars, args
<1> QED BY <1>3, <1>4, <1>5 DEF Next

\* The variables of a cluster keep their types: the ring has positions of its
\* own only, and none is owned by a server there is not.
THEOREM TypeCorrect == Spec => []TypeOK
<1>1. IInv /\ TypeIInv /\ RingIInv /\ UnevenIInv => TypeOK
  <2> SUFFICES ASSUME IInv, TypeIInv, RingIInv, UnevenIInv PROVE TypeOK
    OBVIOUS
  <2>1. caches_list \in [Servers -> LRUCaches]
    <3>1. \A s \in Servers : caches_list[s] \in LRUCaches
      BY DEF IInv, Servable, CacheInv
    <3> QED BY <3>1 DEF TypeIInv
  <2> QED BY <2>1, RingTypes DEF TypeIInv, TypeOK
<1>2. Init => UnevenIInv
  BY DEF Init, UnevenIInv
<1> QED BY <1>1, <1>2, Invariant, InitTypeIInv, NextTypeIInv, InitRingIInv,
        NextRingIInv, NextUnevenIInv, PTL DEF Spec

----------------------------------------------------------------------------
(***************************************************************************)
(* What is reported at the end: the sums over the servers.                 *)
(***************************************************************************)

HitsOf == [s \in Servers |-> served[s].hits]
RequestsOf == [s \in Servers |-> caches_list[s].requestNum]
FilesOf == [s \in Servers |-> Cardinality(caches_list[s].uniqueFile)]

\* A file is recorded where a server has counted it; StacksIInv has the types.
ReportIInv ==
  /\ \A id \in DOMAIN chash.fileRnode :
       /\ chash.fileRnode[id] \in Servers
       /\ id \in caches_list[chash.fileRnode[id]].uniqueFile
  /\ IsFiniteSet(DOMAIN chash.fileRnode)
  /\ \A s \in Servers : IsFiniteSet(caches_list[s].uniqueFile)
  /\ ReportAddsUp

\* The servers are finitely many.
LEMMA FiniteServers == cluster \in Clusters => IsFiniteSet(Servers)
<1> SUFFICES ASSUME cluster \in Clusters PROVE IsFiniteSet(Servers)
  OBVIOUS
<1>1. 0 \in Int /\ cluster.cache_number - 1 \in Int
  OBVIOUS
<1> QED BY <1>1, FS_Interval DEF Servers

\* Nothing is reported at first.
LEMMA InitReport == Init => ReportIInv
<1> SUFFICES ASSUME Init PROVE ReportIInv
  OBVIOUS
<1>1. PICK cs \in CacheSizes :
        caches_list = [s \in Servers |-> SetSize(NewCache, cs)]
  BY DEF Init
<1>2. \A s \in Servers : /\ caches_list[s].uniqueFile = {}
                         /\ caches_list[s].requestNum = 0
  <2>1. cs \in Nat
    OBVIOUS
  <2> HIDE DEF Servers
  <2> QED BY <1>1, <2>1, FreshServer
<1>3. \A s \in Servers : served[s].hits = 0
  BY DEF Init
<1>4. DOMAIN chash.fileRnode = {} /\ hits = 0 /\ reqs = 0
  BY DEF Init, NewRing
<1>5. IsFiniteSet(Servers)
  BY FiniteServers DEF Init
<1>6. IsFiniteSet({}) /\ Cardinality({}) = 0
  BY FS_EmptySet
<1>7. /\ \A s \in Servers : HitsOf[s] = 0 /\ RequestsOf[s] = 0 /\ FilesOf[s] = 0
      /\ DOMAIN HitsOf = Servers /\ DOMAIN RequestsOf = Servers
      /\ DOMAIN FilesOf = Servers
  BY <1>2, <1>3, <1>6 DEF HitsOf, RequestsOf, FilesOf
<1>8. /\ SumFunction(HitsOf) = 0 /\ SumFunction(RequestsOf) = 0
      /\ SumFunction(FilesOf) = 0
  BY <1>5, <1>7, TotalZero
<1>9. ReportAddsUp
  BY <1>4, <1>6, <1>8 DEF ReportAddsUp, HitsOf, RequestsOf, FilesOf
<1> QED BY <1>2, <1>4, <1>6, <1>9 DEF ReportIInv

\* Building the ring reports nothing.
LEMMA BuildReport ==
  ASSUME IInv, ReportIInv, AddServer \/ PlaceVirtualNodes \/ AssignServer
  PROVE  ReportIInv'
<1>1. UNCHANGED <<cluster, caches_list, served, reqs, hits>>
  BY DEF AddServer, PlaceVirtualNodes, AssignServer, args
<1>2. chash'.fileRnode = chash.fileRnode
  <2>0. IsRing(chash)
    BY DEF IInv, Servable
  <2>1. CASE AddServer
    BY <2>0, <2>1, AddRealNodeFields DEF AddServer
  <2>2. CASE PlaceVirtualNodes
    BY <2>2 DEF PlaceVirtualNodes, InitialVirtualNode, NewRing
  <2>3. CASE AssignServer
    BY <2>0, <2>3 DEF AssignServer, AddRealNodeAssign, IsRing
  <2> QED BY <2>1, <2>2, <2>3
<1>3. Servers' = Servers
  BY <1>1 DEF Servers
<1>4. ReportAddsUp'
  BY <1>1, <1>2, <1>3 DEF ReportIInv, ReportAddsUp
<1> QED BY <1>1, <1>2, <1>3, <1>4 DEF ReportIInv

\* What a request does to the counts of the server it is sent to, and to those
\* of the others.
LEMMA RequestCounts ==
  ASSUME IInv, StacksIInv, TypeIInv,
         NEW o \in Objects, RequestHit(o) \/ RequestMiss(o),
         NEW s \in Servers, s = Destination(o)
  PROVE  /\ caches_list'[s].requestNum = caches_list[s].requestNum + 1
         /\ caches_list'[s].uniqueFile = caches_list[s].uniqueFile \cup {o.id}
         /\ \E d \in {0, 1} : /\ served'[s].hits = served[s].hits + d
                              /\ hits' = hits + d
         /\ \A t \in Servers : t # s => /\ caches_list'[t] = caches_list[t]
                                        /\ served'[t] = served[t]
<1> DEFINE c == caches_list[s]
<1>1. /\ CacheInv(c) /\ DOMAIN caches_list = Servers /\ DOMAIN served = Servers
      /\ served[s] \in [requests : Seq(Objects), stack : Seq(Objects),
                        hits : Nat, hitBytes : Nat]
  BY DEF IInv, Servable, StacksIInv
<1>0. hits \in Nat /\ served[s].hits \in Nat
  BY <1>1 DEF TypeIInv
<1>2. \A t \in Servers : t # s => /\ caches_list'[t] = caches_list[t]
                                  /\ served'[t] = served[t]
  BY <1>1 DEF RequestHit, RequestMiss
<1>3. CASE RequestHit(o)
  <2>1. caches_list'[s] = Lookup(c, o)
    BY <1>1, <1>3 DEF RequestHit
  <2>2. served'[s].hits = served[s].hits + 1 /\ hits' = hits + 1
    BY <1>1, <1>3 DEF RequestHit
  <2> HIDE DEF c
  <2>3. /\ Lookup(c, o).requestNum = c.requestNum + 1
        /\ Lookup(c, o).uniqueFile = c.uniqueFile \cup {o.id}
    BY <1>1, ServeHit
  <2> QED BY <1>2, <2>1, <2>2, <2>3 DEF c
<1>4. CASE RequestMiss(o)
  <2>1. caches_list'[s] = Admit(Lookup(c, o), o) /\ o \notin c.map
    BY <1>1, <1>4 DEF RequestMiss, IsHit
  <2>2. served'[s].hits = served[s].hits + 0 /\ hits' = hits + 0
    BY <1>0, <1>1, <1>4 DEF RequestMiss
  <2> HIDE DEF c
  <2>3. /\ Admit(Lookup(c, o), o).requestNum = c.requestNum + 1
        /\ Admit(Lookup(c, o), o).uniqueFile = c.uniqueFile \cup {o.id}
    BY <1>1, <2>1, ServeMiss
  <2> QED BY <1>2, <2>1, <2>2, <2>3 DEF c
<1> QED BY <1>3, <1>4

\* A request is counted by one server, and its file by the one that has it.
LEMMA RequestReport ==
  ASSUME IInv, StacksIInv, TypeIInv, RingIInv, UnevenIInv, ReportIInv,
         IInv', StacksIInv',
         NEW o \in Objects, RequestHit(o) \/ RequestMiss(o)
  PROVE  ReportIInv'
<1> DEFINE s == Destination(o)
           files == chash.fileRnode
           new == caches_list[s].uniqueFile \cup {o.id}
<1>1. /\ UNCHANGED <<cluster, hashOf>> /\ chash.realNodes = ServersToAdd
      /\ chash' = LookUp(chash, o.id, hashOf[o.id]) /\ reqs' = reqs + 1
  BY DEF RequestHit, RequestMiss, Read, args
<1>2. s \in Servers /\ Servers' = Servers /\ IsFiniteSet(Servers)
  BY <1>1, SentToServer, FiniteServers DEF Servers, TypeIInv
<1>3. chash'.fileRnode = Put(files, {o.id}, s)
  <2>1. IsRing(chash)
    BY DEF IInv, Servable
  <2>2. Remembered(chash', chash, o.id, hashOf[o.id])
    BY <1>1, <2>1, LookUpRing
  <2> QED BY <2>2 DEF Remembered, Destination
<1>4. /\ caches_list'[s].requestNum = caches_list[s].requestNum + 1
      /\ caches_list'[s].uniqueFile = new
      /\ \E d \in {0, 1} : /\ served'[s].hits = served[s].hits + d
                           /\ hits' = hits + d
      /\ \A t \in Servers : t # s => /\ caches_list'[t] = caches_list[t]
                                     /\ served'[t] = served[t]
  BY <1>2, RequestCounts
<1>5. \A t \in Servers : /\ served[t].hits \in Nat /\ served'[t].hits \in Nat
                         /\ caches_list[t].requestNum \in Nat
                         /\ caches_list'[t].requestNum \in Nat
  BY <1>2 DEF IInv, Servable, CacheInv, LRUCaches, StacksIInv
<1>6. o.id \in DOMAIN files <=> o.id \in caches_list[s].uniqueFile
  <2>1. ASSUME o.id \in DOMAIN files PROVE o.id \in caches_list[s].uniqueFile
    <3>1. files[o.id] \in Servers /\ o.id \in caches_list[files[o.id]].uniqueFile
      BY <2>1 DEF ReportIInv
    <3>2. CacheIndex(chash, hashOf[o.id]) = files[o.id]
      BY <3>1 DEF IInv, FilesStay, Objects
    <3> QED BY <3>1, <3>2 DEF Destination
  <2>2. ASSUME o.id \in caches_list[s].uniqueFile PROVE o.id \in DOMAIN files
    BY <1>2, <2>2 DEF IInv, FilesStay, Objects
  <2> QED BY <2>1, <2>2
<1> HIDE DEF s, files, new
<1>7. /\ DOMAIN chash'.fileRnode = DOMAIN files \cup {o.id}
      /\ chash'.fileRnode[o.id] = s
      /\ \A id \in DOMAIN files : id # o.id => chash'.fileRnode[id] = files[id]
  BY <1>3 DEF Put
<1>8. /\ IsFiniteSet(DOMAIN files) /\ IsFiniteSet(caches_list[s].uniqueFile)
      /\ \A t \in Servers : IsFiniteSet(caches_list[t].uniqueFile)
      /\ \A id \in DOMAIN files : /\ files[id] \in Servers
                                  /\ id \in caches_list[files[id]].uniqueFile
      /\ ReportAddsUp
  BY <1>2 DEF ReportIInv, files
<1>9. IsFiniteSet(new) /\ IsFiniteSet(DOMAIN files \cup {o.id})
  BY <1>8, FS_AddElement DEF new
<1>10. \A t \in Servers : IsFiniteSet(caches_list'[t].uniqueFile)
  BY <1>4, <1>8, <1>9
<1>11. PICK d \in {0, 1} :
         /\ Cardinality(new) = Cardinality(caches_list[s].uniqueFile) + d
         /\ Cardinality(DOMAIN files \cup {o.id}) = Cardinality(DOMAIN files) + d
  <2>1. CASE o.id \in DOMAIN files
    <3>1. new = caches_list[s].uniqueFile /\ DOMAIN files \cup {o.id} = DOMAIN files
      BY <1>6, <2>1 DEF new
    <3>2. /\ Cardinality(DOMAIN files) \in Nat
          /\ Cardinality(caches_list[s].uniqueFile) \in Nat
      BY <1>8, FS_CardinalityType
    <3>3. /\ Cardinality(new) = Cardinality(caches_list[s].uniqueFile) + 0
          /\ Cardinality(DOMAIN files \cup {o.id}) = Cardinality(DOMAIN files) + 0
      BY <3>1, <3>2
    <3> QED BY <3>3
  <2>2. CASE o.id \notin DOMAIN files
    <3>1. /\ Cardinality(new) = Cardinality(caches_list[s].uniqueFile) + 1
          /\ Cardinality(DOMAIN files \cup {o.id}) = Cardinality(DOMAIN files) + 1
      BY <1>6, <1>8, <2>2, FS_AddElement DEF new
    <3> QED BY <3>1
  <2> QED BY <2>1, <2>2
<1>12. /\ HitsOf \in [Servers -> Nat] /\ RequestsOf \in [Servers -> Nat]
       /\ FilesOf \in [Servers -> Nat]
  BY <1>5, <1>8, FS_CardinalityType DEF HitsOf, RequestsOf, FilesOf
<1>13. /\ HitsOf' \in [Servers -> Nat] /\ RequestsOf' \in [Servers -> Nat]
       /\ FilesOf' \in [Servers -> Nat]
  BY <1>2, <1>5, <1>10, FS_CardinalityType DEF HitsOf, RequestsOf, FilesOf
<1>14. SumFunction(HitsOf') = hits'
  <2>1. PICK e \in {0, 1} : /\ served'[s].hits = served[s].hits + e
                            /\ hits' = hits + e
    BY <1>4
  <2>2. e \in Nat
    OBVIOUS
  <2>3. HitsOf'[s] = HitsOf[s] + e /\ \A t \in Servers : t # s => HitsOf'[t] = HitsOf[t]
    BY <1>2, <1>4, <2>1 DEF HitsOf
  <2>4. SumFunction(HitsOf') = SumFunction(HitsOf) + e
    <3> DEFINE w == HitsOf
               v == HitsOf'
    <3>1. /\ w \in [Servers -> Nat] /\ v \in [Servers -> Nat]
          /\ v[s] = w[s] + e /\ \A t \in Servers : t # s => v[t] = w[t]
      BY <1>12, <1>13, <2>2, <2>3
    <3> HIDE DEF w, v
    <3>2. SumFunction(v) = SumFunction(w) + e
      BY <1>2, <3>1, <2>2, TotalRaise
    <3> QED BY <3>2 DEF v, w
  <2> QED BY <1>8, <2>1, <2>4 DEF ReportAddsUp, HitsOf
<1>15. SumFunction(RequestsOf') = reqs'
  <2>1. PICK e \in Nat : e = 1
    OBVIOUS
  <2>2. /\ RequestsOf'[s] = RequestsOf[s] + e
        /\ \A t \in Servers : t # s => RequestsOf'[t] = RequestsOf[t]
    BY <1>2, <1>4, <2>1 DEF RequestsOf
  <2>3. SumFunction(RequestsOf') = SumFunction(RequestsOf) + e
    <3> DEFINE w == RequestsOf
               v == RequestsOf'
    <3>1. w \in [Servers -> Nat] /\ v \in [Servers -> Nat]
      BY <1>12, <1>13
    <3>2. v[s] = w[s] + e /\ \A t \in Servers : t # s => v[t] = w[t]
      BY <2>2
    <3> HIDE DEF w, v
    <3>3. SumFunction(v) = SumFunction(w) + e
      BY <1>2, <3>1, <3>2, TotalRaise
    <3> QED BY <3>3 DEF v, w
  <2> QED BY <1>1, <1>8, <2>1, <2>3 DEF ReportAddsUp, RequestsOf
<1>16. SumFunction(FilesOf') = Cardinality(DOMAIN chash'.fileRnode)
  <2>1. /\ FilesOf'[s] = FilesOf[s] + d
        /\ \A t \in Servers : t # s => FilesOf'[t] = FilesOf[t]
    BY <1>2, <1>4, <1>11 DEF FilesOf
  <2>2. d \in Nat
    OBVIOUS
  <2>3. SumFunction(FilesOf') = SumFunction(FilesOf) + d
    <3> DEFINE w == FilesOf
               v == FilesOf'
    <3>1. /\ w \in [Servers -> Nat] /\ v \in [Servers -> Nat]
          /\ v[s] = w[s] + d /\ \A t \in Servers : t # s => v[t] = w[t]
      BY <1>12, <1>13, <2>1, <2>2
    <3> HIDE DEF w, v
    <3>2. SumFunction(v) = SumFunction(w) + d
      BY <1>2, <3>1, <2>2, TotalRaise
    <3> QED BY <3>2 DEF v, w
  <2> QED BY <1>7, <1>8, <1>11, <2>3 DEF ReportAddsUp, FilesOf, files
<1>17. ReportAddsUp'
  BY <1>14, <1>15, <1>16 DEF ReportAddsUp, HitsOf, RequestsOf, FilesOf
<1>18. ASSUME NEW id \in DOMAIN chash'.fileRnode
       PROVE  /\ chash'.fileRnode[id] \in Servers
              /\ id \in caches_list'[chash'.fileRnode[id]].uniqueFile
  <2>1. CASE id = o.id
    BY <1>2, <1>4, <1>7, <2>1 DEF new
  <2>2. CASE id # o.id
    <3>1. /\ id \in DOMAIN files /\ chash'.fileRnode[id] = files[id]
          /\ files[id] \in Servers /\ id \in caches_list[files[id]].uniqueFile
      BY <1>7, <1>8, <2>2
    <3>2. id \in caches_list'[files[id]].uniqueFile
      BY <1>4, <3>1 DEF new
    <3> QED BY <3>1, <3>2
  <2> QED BY <2>1, <2>2
<1> QED BY <1>2, <1>7, <1>9, <1>10, <1>17, <1>18 DEF ReportIInv

\* The report adds up: each request, hit and file of the trace is counted by
\* one server, once, for every number of servers and length of trace.
THEOREM ReportCorrect == Spec => []ReportAddsUp
<1> DEFINE Inv == IInv /\ StacksIInv /\ TypeIInv /\ RingIInv /\ UnevenIInv
<1>1. Inv /\ ReportIInv /\ Inv' /\ [Next]_vars => ReportIInv'
  <2> SUFFICES ASSUME Inv, ReportIInv, Inv', [Next]_vars PROVE ReportIInv'
    OBVIOUS
  <2>1. CASE AddServer \/ PlaceVirtualNodes \/ AssignServer
    BY <2>1, BuildReport
  <2>2. ASSUME NEW o \in Objects, RequestHit(o) \/ RequestMiss(o)
        PROVE  ReportIInv'
    BY <2>2, RequestReport
  <2>3. CASE UNCHANGED vars
    BY <2>3 DEF vars, args, ReportIInv, ReportAddsUp, Servers
  <2> QED BY <2>1, <2>2, <2>3, ObjectOfLine DEF Next, IInv, Servable
<1>2. Init => UnevenIInv
  BY DEF Init, UnevenIInv
<1>3. ReportIInv => ReportAddsUp
  BY DEF ReportIInv
<1> QED BY <1>1, <1>2, <1>3, InitReport, Invariant, InitStacks, NextStacks,
        InitTypeIInv, NextTypeIInv, InitRingIInv, NextRingIInv,
        NextUnevenIInv, PTL DEF Spec

----------------------------------------------------------------------------
(***************************************************************************)
(* trace_processor.  Its ring is the cluster's: n virtual nodes for each   *)
(* of N servers, numbered server by server.                                *)
(***************************************************************************)

\* Sorted lists without repetitions and with the same entries are the same.
LEMMA SortedPrefix ==
  ASSUME NEW m \in Nat, NEW s \in Seq(0..m), NEW t \in Seq(0..m),
         Sorted(s), IsInjective(s), Sorted(t), IsInjective(t),
         ToSet(s) = ToSet(t)
  PROVE  Len(s) <= Len(t) /\ \A i \in 1..Len(s) : s[i] = t[i]
<1> DEFINE n == Len(s)
           P == {k \in 0..n : k <= Len(t) /\ \A i \in 1..k : s[i] = t[i]}
<1>1. /\ n \in Nat /\ Len(t) \in Nat /\ DOMAIN s = 1..n /\ DOMAIN t = 1..Len(t)
      /\ \A i \in 1..n : s[i] \in Nat
      /\ \A i \in 1..Len(t) : t[i] \in Nat
  OBVIOUS
<1>2. 0 \in P
  BY <1>1
<1>3. ASSUME NEW k \in 1..n, k - 1 \in P PROVE k \in P
  <2>1. k - 1 <= Len(t) /\ \A i \in 1..(k - 1) : s[i] = t[i]
    BY <1>3
  <2>2. PICK j \in 1..Len(t) : t[j] = s[k]
    <3>1. s[k] \in ToSet(t)
      BY <1>1 DEF ToSet
    <3> QED BY <1>1, <3>1 DEF ToSet
  <2>3. j >= k
    <3>1. ASSUME j \in 1..(k - 1) PROVE FALSE
      <4>1. s[j] = s[k] /\ j \in 1..n /\ j # k
        BY <1>1, <2>1, <2>2, <3>1
      <4> QED BY <1>1, <4>1 DEF IsInjective
    <3> QED BY <1>1, <2>2, <3>1
  <2>4. k \in 1..Len(t)
    BY <1>1, <2>3
  <2>5. PICK i \in 1..n : s[i] = t[k]
    <3>1. t[k] \in ToSet(s)
      BY <1>1, <2>4 DEF ToSet
    <3> QED BY <1>1, <3>1 DEF ToSet
  <2>6. i >= k
    <3>1. ASSUME i \in 1..(k - 1) PROVE FALSE
      <4>1. t[i] = t[k] /\ i \in 1..Len(t) /\ i # k
        BY <1>1, <2>1, <2>4, <2>5, <3>1
      <4> QED BY <1>1, <2>4, <4>1 DEF IsInjective
    <3> QED BY <1>1, <2>5, <3>1
  <2>7. t[k] <= t[j]
    BY <2>3, <2>4 DEF Sorted
  <2>8. s[k] <= s[i]
    BY <2>6 DEF Sorted
  <2>9. s[k] = t[k]
    <3>1. s[k] \in Nat /\ t[k] \in Nat /\ s[k] <= t[k] /\ t[k] <= s[k]
      BY <1>1, <2>2, <2>4, <2>5, <2>7, <2>8
    <3>2. \A x, y \in Nat : x <= y /\ y <= x => x = y
      OBVIOUS
    <3> QED BY <3>1, <3>2, Zenon
  <2>10. \A x \in 1..k : x = k \/ x \in 1..(k - 1)
    OBVIOUS
  <2>11. \A x \in 1..k : s[x] = t[x]
    BY <2>1, <2>9, <2>10
  <2>12. k \in 0..n /\ k <= Len(t)
    BY <1>1, <2>4
  <2> QED BY <2>11, <2>12
<1>4. P = 0..n
  <2>1. P \in SUBSET (0..n)
    OBVIOUS
  <2> HIDE DEF P
  <2> QED BY <1>1, <1>2, <1>3, <2>1, UptoInduction
<1>5. n \in P
  BY <1>1, <1>4
<1> QED BY <1>5

LEMMA SortedSame ==
  ASSUME NEW m \in Nat, NEW s \in Seq(0..m), NEW t \in Seq(0..m),
         Sorted(s), IsInjective(s), Sorted(t), IsInjective(t),
         ToSet(s) = ToSet(t)
  PROVE  s = t
<1>1. Len(s) <= Len(t) /\ \A i \in 1..Len(s) : s[i] = t[i]
  BY SortedPrefix
<1>2. Len(t) <= Len(s)
  BY SortedPrefix
<1>3. Len(s) = Len(t)
  BY <1>1, <1>2
<1> QED BY <1>1, <1>3

\* The j-th virtual node of server s is the (n * s + j)-th of all.
LEMMA Numbered ==
  ASSUME NEW n \in Nat \ {0}, NEW N \in Nat, NEW s \in 0..(N - 1),
         NEW j \in 0..(n - 1)
  PROVE  /\ n * s + j \in 0..(n * N - 1)
         /\ (n * s + j) \div n = s
<1>1. n * s \in Nat /\ n * N \in Nat /\ s \in Nat /\ j \in Nat
  OBVIOUS
<1>2. n * s + j \in 0..(n * N - 1)
  <2>1. n * (s + 1) <= n * N
    <3>1. N - (s + 1) \in Nat
      OBVIOUS
    <3>2. n * (N - (s + 1)) \in Nat
      BY <3>1
    <3>3. n * (N - (s + 1)) = n * N - n * (s + 1)
      OBVIOUS
    <3>4. n * (s + 1) \in Nat
      BY <1>1
    <3> QED BY <1>1, <3>2, <3>3, <3>4
  <2>2. n * (s + 1) = n * s + n
    BY <1>1
  <2> QED BY <1>1, <2>1, <2>2
<1>3. (n * s + j) \div n = s
  OBVIOUS
<1> QED BY <1>2, <1>3

LEMMA Unnumbered ==
  ASSUME NEW n \in Nat \ {0}, NEW N \in Nat, NEW v \in 0..(n * N - 1)
  PROVE  /\ v \div n \in 0..(N - 1) /\ v % n \in 0..(n - 1)
         /\ v = n * (v \div n) + (v % n)
<1>1. n * N \in Nat /\ v \in Nat
  OBVIOUS
<1>2. v % n \in 0..(n - 1)
  BY <1>1
<1>3. v = n * (v \div n) + (v % n) /\ v \div n \in Nat
  <2>1. v = n * (v \div n) + (v % n)
    BY <1>1
  <2>2. v \div n \in Nat
    BY <1>1
  <2> QED BY <2>1, <2>2
<1>4. v \div n \in 0..(N - 1)
  <2> DEFINE q == v \div n
  <2>1. n * q <= v /\ q \in Nat /\ v < n * N
    BY <1>1, <1>2, <1>3
  <2> HIDE DEF q
  <2>2. ASSUME q >= N PROVE FALSE
    <3>1. q - N \in Nat
      BY <2>1, <2>2
    <3>2. n * (q - N) \in Nat
      BY <3>1
    <3>3. n * (q - N) = n * q - n * N
      BY <2>1
    <3>4. n * q \in Nat
      BY <2>1
    <3> QED BY <1>1, <2>1, <3>2, <3>3, <3>4
  <2>3. q \in 0..(N - 1)
    BY <2>1, <2>2
  <2> QED BY <2>3 DEF q
<1> QED BY <1>2, <1>3, <1>4

\* The tool's virtual nodes at the positions of a ring, each server's at that
\* server's.
Matches(position, r, n, N) ==
  /\ position \in [0..(n * N - 1) -> DOMAIN r.owner]
  /\ IsInjective(position)
  /\ \A v \in 0..(n * N - 1) : r.owner[position[v]] = v \div n

\* No position of the ring is without one of them.
LEMMA AllMatched ==
  ASSUME NEW n \in Nat \ {0}, NEW N \in Nat, NEW m \in Nat,
         NEW r, RingInv(r, n, m), r.realNodes = N,
         NEW position, Matches(position, r, n, N), NEW p \in DOMAIN r.owner
  PROVE  \E v \in 0..(n * N - 1) : position[v] = p
<1> DEFINE s == r.owner[p]
           T == {q \in DOMAIN r.owner : r.owner[q] = s}
           f == [j \in 0..(n - 1) |-> position[n * s + j]]
<1>1. s \in 0..(N - 1) /\ p \in T
  BY DEF RingInv
<1>2. IsFiniteSet(T) /\ Cardinality(T) = n
  <2>1. Cardinality(T) = n
    BY <1>1 DEF RingInv, RingOf
  <2>2. DOMAIN r.owner \subseteq 0..m
    <3>1. ToSet(r.list) \subseteq 0..m
      BY DEF RingInv, ToSet
    <3> QED BY <3>1 DEF RingInv, RingOf
  <2>3. T \subseteq 0..m /\ IsFiniteSet(0..m)
    BY <2>2, FS_Interval
  <2> HIDE DEF T
  <2> QED BY <2>1, <2>3, FS_Subset
<1> HIDE DEF s
<1>3. \A j \in 0..(n - 1) : /\ n * s + j \in 0..(n * N - 1)
                            /\ (n * s + j) \div n = s
  BY <1>1, Numbered
<1>4. \A j \in 0..(n - 1) : position[n * s + j] \in T
  BY <1>3 DEF Matches
<1>5. \A i, j \in 0..(n - 1) : position[n * s + i] = position[n * s + j] => i = j
  <2> SUFFICES ASSUME NEW i \in 0..(n - 1), NEW j \in 0..(n - 1),
                      position[n * s + i] = position[n * s + j]
               PROVE  i = j
    OBVIOUS
  <2>1. /\ n * s + i \in DOMAIN position /\ n * s + j \in DOMAIN position
        /\ IsInjective(position)
    BY <1>3 DEF Matches
  <2>2. n * s + i = n * s + j
    BY <2>1 DEF IsInjective
  <2>3. n * s \in Nat
    BY <1>1
  <2> QED BY <2>2, <2>3
<1>6. f \in Injection(0..(n - 1), T)
  <2> HIDE DEF T
  <2>1. f \in [0..(n - 1) -> T]
    BY <1>4
  <2>2. \A i, j \in 0..(n - 1) : f[i] = f[j] => i = j
    BY <1>5
  <2> HIDE DEF f
  <2> QED BY <2>1, <2>2 DEF Injection, IsInjective
<1>7. IsFiniteSet(0..(n - 1)) /\ Cardinality(0..(n - 1)) = n
  BY FS_Interval
<1>8. f \in Surjection(0..(n - 1), T)
  <2> HIDE DEF f, T
  <2> QED BY <1>2, <1>6, <1>7, FS_Injection
<1>9. PICK j \in 0..(n - 1) : f[j] = p
  <2> HIDE DEF f, T
  <2> QED BY <1>1, <1>8 DEF Surjection
<1> QED BY <1>3, <1>9

\* The tool sorts them into the cluster's list.
LEMMA HashOrderIs ==
  ASSUME NEW n \in Nat \ {0}, NEW N \in Nat, NEW m \in Nat,
         NEW r, RingInv(r, n, m), r.realNodes = N,
         NEW position, Matches(position, r, n, N)
  PROVE  /\ Hashes(HashOrder(position)).list = r.list
         /\ \A i \in 1..Len(r.list) :
              LET v == HashOrder(position)[i].vnode_id
              IN  v \in 0..(n * N - 1) /\ position[v] = r.list[i]
<1> DEFINE k == n * N
           ps == [i \in 1..Cardinality(DOMAIN position) |-> position[i-1]]
           list == HashOrder(position)
<1>1. /\ r.list \in Seq(0..m) /\ Sorted(r.list) /\ IsInjective(r.list)
      /\ ToSet(r.list) = DOMAIN r.owner
  BY DEF RingInv, RingOf
<1>2. DOMAIN r.owner \subseteq 0..m
  <2>1. ToSet(r.list) \subseteq 0..m
    BY <1>1 DEF ToSet
  <2> QED BY <1>1, <2>1
<1>3. k \in Nat
  OBVIOUS
<1>4. /\ position \in [0..(k - 1) -> DOMAIN r.owner] /\ DOMAIN position = 0..(k - 1)
      /\ IsInjective(position)
  BY DEF Matches
<1> HIDE DEF k
<1>5. Cardinality(DOMAIN position) = k
  BY <1>3, <1>4, FS_Interval
<1>6. ps = [i \in 1..k |-> position[i-1]]
  BY <1>5
<1>7. \A i \in 1..k : i - 1 \in 0..(k - 1)
  BY <1>3
<1>8. ps \in [1..k -> 0..m] /\ ps \in Seq(0..m) /\ DOMAIN ps = 1..k
  <2>1. \A i \in 1..k : position[i-1] \in 0..m
    BY <1>2, <1>4, <1>7
  <2>2. ps \in [1..k -> 0..m]
    BY <1>6, <2>1
  <2> HIDE DEF ps
  <2>3. ps \in Seq(0..m)
    BY <1>3, <2>2
  <2> QED BY <2>2, <2>3
<1>9. \A i \in 1..k : ps[i] = position[i-1]
  BY <1>6
<1> HIDE DEF ps
<1>10. IsInjective(ps)
  <2>1. ASSUME NEW i \in 1..k, NEW j \in 1..k, ps[i] = ps[j] PROVE i = j
    <3>1. i - 1 = j - 1
      BY <1>4, <1>7, <1>9, <2>1 DEF IsInjective
    <3> QED BY <3>1
  <2> QED BY <1>8, <2>1 DEF IsInjective
<1>11. ToSet(ps) = DOMAIN r.owner
  <2>1. ASSUME NEW p \in DOMAIN r.owner PROVE p \in ToSet(ps)
    <3>1. PICK v \in 0..(k - 1) : position[v] = p
      BY AllMatched DEF k
    <3>2. v + 1 \in 1..k /\ (v + 1) - 1 = v
      BY <1>3
    <3>3. ps[v + 1] = p
      BY <1>9, <3>1, <3>2
    <3> QED BY <1>8, <3>2, <3>3 DEF ToSet
  <2>2. ASSUME NEW p \in ToSet(ps) PROVE p \in DOMAIN r.owner
    <3>1. PICK i \in 1..k : p = ps[i]
      BY <1>8 DEF ToSet
    <3> QED BY <1>4, <1>7, <1>9, <3>1
  <2> QED BY <2>1, <2>2
<1>12. InOrder(ps) = r.list
  <2>1. /\ InOrder(ps) \in Seq(0..m) /\ Sorted(InOrder(ps))
        /\ ToSet(InOrder(ps)) = ToSet(ps) /\ IsInjective(InOrder(ps))
    BY <1>8, <1>10, InOrderSorts
  <2>2. ToSet(InOrder(ps)) = ToSet(r.list)
    BY <1>1, <1>11, <2>1
  <2> QED BY <1>1, <2>1, <2>2, SortedSame
<1> DEFINE Vnode(i) == [vnode_hash |-> r.list[i],
                       vnode_id |-> CHOOSE v \in DOMAIN position :
                                      position[v] = r.list[i]]
<1>13. list = [i \in DOMAIN r.list |-> Vnode(i)]
  <2>1. <<>> \o r.list = r.list
    BY <1>1
  <2>2. list = <<>> \o [i \in DOMAIN r.list |-> Vnode(i)]
    BY <1>12, <2>1 DEF HashOrder, ps
  <2>3. DOMAIN r.list = 1..Len(r.list) /\ Len(r.list) \in Nat
    BY <1>1
  <2>4. [i \in DOMAIN r.list |-> Vnode(i)] \in Seq({Vnode(i) : i \in DOMAIN r.list})
    <3> HIDE DEF Vnode
    <3> QED BY <2>3
  <2> HIDE DEF list, Vnode
  <2>5. \A S : \A t \in Seq(S) : <<>> \o t = t
    OBVIOUS
  <2> QED BY <2>2, <2>4, <2>5
<1>14. DOMAIN r.list = 1..Len(r.list)
  BY <1>1
<1> HIDE DEF list
<1>15. DOMAIN list = DOMAIN r.list
  BY <1>13
<1>16. Hashes(list).list = r.list
  <2>1. Hashes(list).list = [i \in DOMAIN r.list |-> list[i].vnode_hash]
    BY <1>15 DEF Hashes
  <2>2. \A i \in DOMAIN r.list : list[i].vnode_hash = r.list[i]
    BY <1>13
  <2>3. Hashes(list).list = [i \in DOMAIN r.list |-> r.list[i]]
    BY <2>1, <2>2
  <2>4. r.list = [i \in DOMAIN r.list |-> r.list[i]]
    BY <1>1
  <2> QED BY <2>3, <2>4
<1>17. ASSUME NEW i \in 1..Len(r.list)
       PROVE  list[i].vnode_id \in 0..(k - 1) /\ position[list[i].vnode_id] = r.list[i]
  <2>1. list[i].vnode_id = CHOOSE v \in DOMAIN position : position[v] = r.list[i]
    BY <1>13, <1>14
  <2>2. r.list[i] \in DOMAIN r.owner
    BY <1>1, <1>14 DEF ToSet
  <2>3. \E v \in 0..(k - 1) : position[v] = r.list[i]
    BY <2>2, AllMatched DEF k
  <2> QED BY <1>4, <2>1, <2>3
<1> QED BY <1>16, <1>17 DEF list, k

\* The virtual node a request is counted for is where the cluster serves it.
LEMMA ServingIs ==
  ASSUME NEW n \in Nat \ {0}, NEW N \in Nat \ {0}, NEW m \in Nat,
         NEW r, RingInv(r, n, m), r.realNodes = N,
         NEW position, Matches(position, r, n, N), NEW h \in Nat
  PROVE  /\ Serving(HashOrder(position), h) \in 0..(n * N - 1)
         /\ position[Serving(HashOrder(position), h)]
              = r.list[ServedAt(r, h) + 1]
<1> DEFINE list == HashOrder(position)
           i == Nearest(r, h)
<1>1. /\ Hashes(list).list = r.list
      /\ \A j \in 1..Len(r.list) : /\ list[j].vnode_id \in 0..(n * N - 1)
                                   /\ position[list[j].vnode_id] = r.list[j]
  BY HashOrderIs
<1> HIDE DEF list
<1>2. ServedAt(Hashes(list), h) = ServedAt(r, h)
  <2>1. Nearest(Hashes(list), h) = Nearest(r, h)
    BY <1>1 DEF Nearest
  <2> QED BY <1>1, <2>1 DEF ServedAt
<1>3. r.list \in Seq(0..m) /\ Sorted(r.list) /\ r.list # <<>>
  <2>1. r.list \in Seq(0..m) /\ Sorted(r.list) /\ ToSet(r.list) = DOMAIN r.owner
    BY DEF RingInv, RingOf
  <2>2. 0 \in 0..(N - 1) /\ 0 \in 0..(n - 1)
    OBVIOUS
  <2>3. n * 0 + 0 \in 0..(n * N - 1)
    BY <2>2, Numbered
  <2>4. position[n * 0 + 0] \in DOMAIN r.owner
    BY <2>3 DEF Matches
  <2>5. ToSet(r.list) # {}
    BY <2>1, <2>4
  <2> QED BY <2>1, <2>5 DEF ToSet
<1>4. r.list \in Seq(Nat) /\ Len(r.list) \in Nat \ {0}
  BY <1>3
<1>5. i \in 0..(Len(r.list) - 1)
  BY <1>3, <1>4, NearestFound
<1>6. ServedAt(r, h) + 1 \in 1..Len(r.list)
  <2> HIDE DEF i
  <2>1. (IF i + 1 >= Len(r.list) THEN 0 ELSE i + 1) + 1 \in 1..Len(r.list)
    BY <1>4, <1>5
  <2> QED BY <2>1 DEF ServedAt, i
<1>7. Serving(list, h) = list[ServedAt(r, h) + 1].vnode_id
  BY <1>2 DEF Serving
<1> QED BY <1>1, <1>6, <1>7 DEF list

\* Where the cluster serves each file, the first X virtual nodes of a server
\* that serve one, X being the percentage of them, and the files of ref that
\* the virtual nodes of the same numbers of another server serve.
ServedAll(r, hash) == [id \in Ids |-> r.list[ServedAt(r, hash[id]) + 1]]
Moving(position, at, n, from, percent) ==
  {j \in 0..(n - 1) : /\ at = position[n * from + j]
                      /\ j < (n * percent) \div 100}
MovedTo(position, at, n, to, moving, ref) ==
  {id \in ref : \E j \in moving : at[id] = position[n * to + j]}

\* The lines that may be written.
Redirected(line, ids) ==
  IF ids = {} THEN {line} ELSE {[line EXCEPT !.id = id] : id \in ids}

LEMMA ProcessedIs ==
  ASSUME NEW n \in Nat \ {0}, NEW N \in Nat \ {0}, NEW m \in Nat,
         NEW r, RingInv(r, n, m), r.realNodes = N,
         NEW position, Matches(position, r, n, N),
         NEW hash \in [Ids -> Nat], NEW line, line.id \in Ids,
         NEW ref \in SUBSET Ids, NEW from \in 0..(N - 1), NEW to \in 0..(N - 1),
         NEW percent \in Nat, NEW At, At = ServedAll(r, hash),
         NEW moving, moving = Moving(position, At[line.id], n, from, percent),
         NEW ids, ids = MovedTo(position, At, n, to, moving, ref)
  PROVE  Processed(line, HashOrder(position), hash, ref, n, from, to, percent)
           = Redirected(line, ids)
<1> DEFINE list == HashOrder(position)
           X == (n * percent) \div 100
           v == Serving(list, hash[line.id])
           j0 == v % n
           drawn == RefRequests(list, hash, ref, Counterpart(v, n, from, to))
<1>1. ASSUME NEW id \in Ids
      PROVE  /\ Serving(list, hash[id]) \in 0..(n * N - 1)
             /\ position[Serving(list, hash[id])] = At[id]
  <2>1. hash[id] \in Nat
    OBVIOUS
  <2> HIDE DEF list
  <2>2. At[id] = r.list[ServedAt(r, hash[id]) + 1]
    BY DEF ServedAll
  <2> QED BY <2>1, <2>2, ServingIs DEF list
<1>2. X \in Nat
  <2>1. n * percent \in Nat
    OBVIOUS
  <2> QED BY <2>1
<1> HIDE DEF X
<1>3. /\ v \in 0..(n * N - 1) /\ position[v] = At[line.id]
      /\ v \in Nat
  <2>1. n * N \in Nat
    OBVIOUS
  <2> HIDE DEF list
  <2> QED BY <1>1, <2>1
<1>4. Processed(line, list, hash, ref, n, from, to, percent)
        = IF Moves(v, n, from, percent) /\ drawn # {}
          THEN {[line EXCEPT !.id = id] : id \in drawn} ELSE {line}
  BY DEF Processed
<1>5. \A p, q \in 0..(n * N - 1) : position[p] = position[q] => p = q
  BY DEF Matches, IsInjective
<1>6. /\ v \div n \in 0..(N - 1) /\ j0 \in 0..(n - 1) /\ v = n * (v \div n) + j0
  <2> HIDE DEF v
  <2> QED BY <1>3, Unnumbered
<1> HIDE DEF list, v, j0
<1>7. \A s \in 0..(N - 1) : \A j \in 0..(n - 1) :
        n * s + j \in 0..(n * N - 1) /\ (n * s + j) \div n = s
  BY Numbered
<1>8. \A j \in moving : j = j0 /\ v \div n = from /\ j0 < X
  <2> SUFFICES ASSUME NEW j \in moving
               PROVE  j = j0 /\ v \div n = from /\ j0 < X
    OBVIOUS
  <2>1. j \in 0..(n - 1) /\ At[line.id] = position[n * from + j] /\ j < X
    BY DEF X, Moving
  <2>2. n * from + j \in 0..(n * N - 1) /\ (n * from + j) \div n = from
    BY <1>7, <2>1
  <2>3. v = n * from + j
    BY <1>3, <1>5, <2>1, <2>2
  <2>4. v \div n = from
    BY <2>2, <2>3
  <2>5. n * from \in Nat
    OBVIOUS
  <2>6. j = j0
    BY <1>6, <2>1, <2>3, <2>4, <2>5
  <2> QED BY <2>1, <2>4, <2>6
<1>9. Moves(v, n, from, percent) <=> v \div n = from /\ j0 < X
  <2>1. Moves(v, n, from, percent) <=> v \div n = from /\ v < n * from + X
    BY DEF Moves, X
  <2>2. n * from \in Nat
    OBVIOUS
  <2>3. v \div n = from => (v < n * from + X <=> j0 < X)
    BY <1>2, <1>3, <1>6, <2>2
  <2> QED BY <2>1, <2>3
<1>10. CASE ~Moves(v, n, from, percent)
  <2>1. moving = {}
    BY <1>8, <1>9, <1>10
  <2>2. ids = {}
    BY <2>1 DEF MovedTo
  <2> QED BY <1>4, <1>10, <2>2 DEF list, Redirected
<1>11. CASE Moves(v, n, from, percent)
  <2>1. v \div n = from /\ j0 < X
    BY <1>9, <1>11
  <2>2. v = n * from + j0
    BY <1>6, <2>1
  <2>3. j0 \in moving
    BY <1>3, <1>6, <2>1, <2>2 DEF X, Moving
  <2>4. moving = {j0}
    BY <1>8, <2>3
  <2>5. Counterpart(v, n, from, to) = n * to + j0
    <3>1. /\ n * from \in Nat /\ n * to \in Nat /\ j0 \in Nat
          /\ n * (to - from) = n * to - n * from
      BY <1>6
    <3>2. Counterpart(v, n, from, to) = v + n * (to - from)
      BY DEF Counterpart
    <3> QED BY <2>2, <3>1, <3>2
  <2>6. n * to + j0 \in 0..(n * N - 1)
    BY <1>6, <1>7
  <2>7. drawn = {id \in ref : Serving(list, hash[id]) = n * to + j0}
    BY <2>5 DEF RefRequests
  <2>8. \A id \in ref : Serving(list, hash[id]) = n * to + j0
                          <=> At[id] = position[n * to + j0]
    BY <1>1, <1>5, <2>6
  <2>9. ids = {id \in ref : At[id] = position[n * to + j0]}
    BY <2>4 DEF MovedTo
  <2>10. drawn = ids
    BY <2>7, <2>8, <2>9
  <2> HIDE DEF drawn
  <2> QED BY <1>4, <1>11, <2>10 DEF list, Redirected
<1> QED BY <1>10, <1>11

\* The requests trace_processor gives other ids are those the cluster would
\* have sent to the virtual nodes to relieve, and go to their counterparts of
\* the other server: for every ring without collisions, number of servers and
\* virtual nodes, hash function, percentage and reference trace.
THEOREM ProcessedTraceHolds == Spec => []ProcessedTrace
<1>1. TypeIInv /\ RingIInv => ProcessedTrace
  <2> SUFFICES ASSUME TypeIInv, RingIInv, cluster.cacheType = "CH",
                      chash.realNodes = ServersToAdd,
                      NEW position \in VnodePositions
               PROVE  LET n          == cluster.virtual_node
                          list       == HashOrder(position)
                          At(id)     == chash.list[ServedAt(chash, hashOf[id]) + 1]
                          Node(s, j) == position[n * s + j]
                      IN  \A from, to \in Servers, percent \in Percents,
                             ref \in SUBSET Ids, line \in Lines :
                            LET moving == {j \in 0..(n - 1) :
                                             /\ At(line.id) = Node(from, j)
                                             /\ j < (n * percent) \div 100}
                                ids == {id \in ref :
                                          \E j \in moving : At(id) = Node(to, j)}
                            IN  Processed(line, list, hashOf, ref, n, from, to,
                                          percent)
                                  = IF ids = {} THEN {line}
                                    ELSE {[line EXCEPT !.id = id] : id \in ids}
    BY DEF ProcessedTrace
  <2> DEFINE n == cluster.virtual_node
             N == cluster.cache_number
             at == ServedAll(chash, hashOf)
  <2>1. /\ cluster \in Clusters /\ n \in Nat \ {0} /\ N \in Nat \ {0}
        /\ max_hash \in Nat /\ chash.realNodes = N /\ Servers = 0..(N - 1)
        /\ cluster.hashes \subseteq 0..max_hash
    BY DEF TypeIInv, ServersToAdd, Servers
  <2>2. RingInv(chash, n, max_hash)
    BY DEF RingIInv
  <2>3. hashOf \in [Ids -> Nat]
    <3>1. hashOf \in [Ids -> cluster.hashes]
      BY DEF TypeIInv
    <3> QED BY <2>1, <3>1
  <2>4. Matches(position, chash, n, N)
    <3>1. /\ position \in [0..(n * N - 1) -> DOMAIN chash.owner]
          /\ IsInjective(position)
          /\ \A v \in DOMAIN position : chash.owner[position[v]] = v \div n
      BY DEF VnodePositions
    <3> QED BY <3>1 DEF Matches
  <2> HIDE DEF n, N
  <2> SUFFICES ASSUME NEW from \in Servers, NEW to \in Servers,
                      NEW percent \in Percents, NEW ref \in SUBSET Ids,
                      NEW line \in Lines
               PROVE  LET At(id)     == chash.list[ServedAt(chash, hashOf[id]) + 1]
                          Node(s, j) == position[n * s + j]
                          moving == {j \in 0..(n - 1) :
                                       /\ At(line.id) = Node(from, j)
                                       /\ j < (n * percent) \div 100}
                          ids == {id \in ref :
                                    \E j \in moving : At(id) = Node(to, j)}
                      IN  Processed(line, HashOrder(position), hashOf, ref, n,
                                    from, to, percent)
                            = IF ids = {} THEN {line}
                              ELSE {[line EXCEPT !.id = id] : id \in ids}
    BY DEF n
  <2>5. /\ percent \in Nat /\ line.id \in Ids
        /\ from \in 0..(N - 1) /\ to \in 0..(N - 1)
        /\ n \in Nat \ {0} /\ N \in Nat \ {0} /\ max_hash \in Nat
        /\ chash.realNodes = N
    BY <2>1, PercentsAssumption DEF Objects
  <2>6. \A id \in Ids : at[id] = chash.list[ServedAt(chash, hashOf[id]) + 1]
    BY DEF ServedAll
  <2> HIDE DEF at
  <2> DEFINE moving == Moving(position, at[line.id], n, from, percent)
             ids == MovedTo(position, at, n, to, moving, ref)
  <2>7. moving = {j \in 0..(n - 1) :
                    /\ chash.list[ServedAt(chash, hashOf[line.id]) + 1]
                         = position[n * from + j]
                    /\ j < (n * percent) \div 100}
    BY <2>5, <2>6 DEF Moving
  <2>8. ids = {id \in ref :
                 \E j \in moving : chash.list[ServedAt(chash, hashOf[id]) + 1]
                                   = position[n * to + j]}
    <3> HIDE DEF moving
    <3> QED BY <2>6 DEF MovedTo
  <2>9. /\ moving = Moving(position, at[line.id], n, from, percent)
        /\ ids = MovedTo(position, at, n, to, moving, ref)
    OBVIOUS
  <2> HIDE DEF moving, ids
  <2>10. /\ n \in Nat \ {0} /\ N \in Nat \ {0} /\ max_hash \in Nat
         /\ RingInv(chash, n, max_hash) /\ chash.realNodes = N
         /\ Matches(position, chash, n, N)
         /\ hashOf \in [Ids -> Nat] /\ line.id \in Ids /\ ref \in SUBSET Ids
         /\ from \in 0..(N - 1) /\ to \in 0..(N - 1) /\ percent \in Nat
         /\ at = ServedAll(chash, hashOf)
    BY <2>2, <2>3, <2>4, <2>5 DEF at
  <2>11. Processed(line, HashOrder(position), hashOf, ref, n, from, to, percent)
           = Redirected(line, ids)
    BY <2>9, <2>10, ProcessedIs
  <2> QED BY <2>7, <2>8, <2>11 DEF Redirected
<1> QED BY <1>1, Invariant, InitTypeIInv, NextTypeIInv, InitRingIInv,
        NextRingIInv, PTL DEF Spec
=============================================================================
