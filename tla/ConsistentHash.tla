--------------------------- MODULE ConsistentHash ---------------------------
(***************************************************************************)
(* The class consistent_hash (consistent_hash/consistent_hash.{h,cpp}), as *)
(* operators on a record: a ring of positions, each a virtual node of some *)
(* real node, that real nodes are added to and files are looked up in.     *)
(* MurMurHash is a parameter: the position a file or a port hashes to.     *)
(*                                                                         *)
(* "owner" sends the positions in virtual_node_map to the cache_index of   *)
(* the virtual node there.  Indices count from 0 as in the code; sequences *)
(* count from 1.                                                           *)
(***************************************************************************)
EXTENDS Integers, FiniteSets, SequencesExt

NewRing == [list      |-> <<>>,  \* sorted_node_hash_list
            owner     |-> <<>>,  \* virtual_node_map
            uidHash   |-> <<>>,  \* uid_map_hash_value; uids start from 1
            realNodes |-> 0,     \* real_node_sum
            fileVnode |-> <<>>,  \* fileID_vnode_map
            fileRnode |-> <<>>]  \* fileID_rnode_map

\* map[k] = value, for every k of keys.
Put(map, keys, value) ==
  [k \in DOMAIN map \cup keys |-> IF k \in keys THEN value ELSE map[k]]

Sorted(s) == \A i, j \in 1..Len(s) : i <= j => s[i] <= s[j]

\* The position at index i is the first one at or after h on the ring: no
\* position lies between them, or all are before h and the ring wraps to 0.
NearestIn(s, h, i) ==
  \/ /\ s[i + 1] >= h
     /\ \A j \in 1..Len(s) : s[j] >= h => s[j] >= s[i + 1]
  \/ (\A j \in 1..Len(s) : s[j] < h) /\ i = 0

\* find_nearest_node(h).  Module NearestNode takes it step by step and shows
\* that its answer is the nearest node; among virtual nodes that share a
\* position it is the one the search comes upon.
Nearest(ring, h) ==
  LET At(i) == ring.list[i + 1]
      search[ends \in (0..Len(ring.list)) \X (0..Len(ring.list))] ==
        LET low  == ends[1]
            high == ends[2]
            mid  == (low + high) \div 2
        IN  IF low >= high THEN low
            ELSE IF At(mid) = h THEN mid
            ELSE IF At(mid) > h THEN search[<<low, mid>>]
            ELSE search[<<mid + 1, high>>]
  IN  IF h > Last(ring.list) THEN 0 ELSE search[<<0, Len(ring.list) - 1>>]

\* "virtual_node_index++" and "cross the zero": a file is served one virtual
\* node further than the nearest.
ServedAt(ring, h) ==
  LET next == Nearest(ring, h) + 1
  IN  IF next >= Len(ring.list) THEN 0 ELSE next

\* The pair look_up() returns ends in the cache to send the file to.
CacheIndex(ring, h) == ring.owner[ring.list[ServedAt(ring, h) + 1]]

\* What look_up(file) leaves behind in the two maps of files.
LookUp(ring, file, h) ==
  [ring EXCEPT !.fileVnode = Put(@, {file}, ServedAt(ring, h)),
               !.fileRnode = Put(@, {file}, CacheIndex(ring, h))]

AnyPositions(ring, k, hashes) == [1..k -> hashes]

\* The positions k virtual nodes may get: ports are tried until one hashes to
\* a position that is free.
FreePositions(ring, k, hashes) ==
  {ps \in [1..k -> hashes \ DOMAIN ring.owner] : IsInjective(ps)}

\* How many entries of s are less than p.
Below(s, p) == Cardinality({j \in DOMAIN s : s[j] < p})

\* s in order: at i is the i-th least entry.  (SortSeq() by ranks, so that it
\* can be reasoned about.)
InOrder(s) ==
  [i \in DOMAIN s |->
     CHOOSE p \in ToSet(s) : Below(s, p) < i /\ i <= Below(s, p + 1)]

\* push_back() and sort(), for one position after the other.
WithPositions(list, ps) == InOrder(list \o ps)

AddRealNodeFromOne(ring, ps) ==
  [ring EXCEPT !.realNodes = @ + 1,
               !.owner = Put(@, ToSet(ps), ring.realNodes + 1),
               !.list  = WithPositions(@, ps)]

\* add_real_node(ip, Len(ps)) for an ip it has not seen before.
AddRealNode(ring, ps) ==
  [ring EXCEPT !.realNodes = @ + 1,
               !.owner = Put(@, ToSet(ps), ring.realNodes),
               !.list  = WithPositions(@, ps)]

\* Each virtual node of initial_virtual_node() goes a quarter of the way from
\* the last one to max_hash, rounded down.
UnevenPositions(count, max_hash) ==
  LET position[k \in 1..count] ==
        LET last == IF k = 1 THEN 0 ELSE position[k-1]
        IN  last + (max_hash - last) \div 4
  IN  [k \in 1..count |-> position[k]]

\* initial_virtual_node(count): all of them belong to cache 0 at first.
InitialVirtualNode(count, max_hash) ==
  LET ps == UnevenPositions(count, max_hash)
  IN  [NewRing EXCEPT !.uidHash = ps,
                      !.owner = Put(@, ToSet(ps), 0),
                      !.list = WithPositions(<<>>, ps)]

AssignFromZero(ring, k, starting_id) ==
  LET uids == (starting_id - 1)..(starting_id + k - 2)
  IN  [ring EXCEPT
        !.owner = Put(@, {ring.uidHash[u] : u \in uids \ {0}}, ring.realNodes),
        !.realNodes = @ + 1]

\* add_real_node_assign(ip, k, starting_id) for an ip not seen before: the
\* positions of k virtual nodes become the new server's, whoever had them.
AddRealNodeAssign(ring, k, starting_id) ==
  LET uids == starting_id..(starting_id + k - 1)
  IN  [ring EXCEPT
        !.owner = Put(@, {ring.uidHash[u] : u \in uids}, ring.realNodes),
        !.realNodes = @ + 1]

\* The rings of the loops of init_mapper(): n new real nodes, k virtual nodes
\* each.
Rings(n, k, hashes) ==
  LET built[m \in 0..n] ==
        IF m = 0 THEN {NewRing}
        ELSE UNION {{AddRealNode(ring, ps) : ps \in FreePositions(ring, k, hashes)} :
                    ring \in built[m-1]}
  IN  built[n]

----------------------------------------------------------------------------
\* The list has exactly the positions of the map, each once and in order, and
\* each real node has n of them.
RingOf(ring, n) ==
  /\ Sorted(ring.list) /\ IsInjective(ring.list)
  /\ ToSet(ring.list) = DOMAIN ring.owner
  /\ \A s \in 0..(ring.realNodes - 1) :
       Cardinality({p \in DOMAIN ring.owner : ring.owner[p] = s}) = n

\* The list has the position of each virtual node, in order, and the map each
\* position once; virtual nodes share a position only at the end of the ring,
\* three short of max_hash, and the last server assigned one there owns it.
UnevenRingOf(ring, n, max_hash) ==
  /\ Sorted(ring.list) /\ ToSet(ring.list) = DOMAIN ring.owner
  /\ \A p \in DOMAIN ring.owner :
       LET uids     == {u \in DOMAIN ring.uidHash : ring.uidHash[u] = p}
           assigned == {u \in uids : u <= n * ring.realNodes}
       IN  /\ Cardinality({i \in DOMAIN ring.list : ring.list[i] = p})
                = Cardinality(uids)
           /\ Cardinality(uids) > 1 => p = max_hash - 3
           /\ ring.owner[p] = IF assigned = {} THEN 0
                              ELSE (Max(assigned) - 1) \div n
=============================================================================
