-------------------------- MODULE ShufflerMProofs --------------------------
(***************************************************************************)
(* The invariants of Shuffler Matrix for every number of servers and of    *)
(* virtual nodes, every ring init_mapper() may build, every window size    *)
(* and every trace: the virtual nodes stay divided, the stacks stay small, *)
(* the distances they give are the stack distances of the window, and what *)
(* changes hands would have brought the window more hits.                  *)
(***************************************************************************)
EXTENDS ShufflerM, ClassLemmas

(***************************************************************************)
(* The virtual nodes, divided among the servers.                           *)
(***************************************************************************)

\* SetToSeq() lists the elements of a finite set, each once.
LEMMA SetToSeqLists ==
  ASSUME NEW S, IsFiniteSet(S)
  PROVE  /\ SetToSeq(S) \in Seq(S) /\ ToSet(SetToSeq(S)) = S
         /\ IsInjective(SetToSeq(S))
<1>1. PICK f \in Bijection(1..Cardinality(S), S) : TRUE
  BY FS_CardinalityType DEF ExistsBijection
<1>2. f \in [1..Cardinality(S) -> S] /\ IsInjective(f)
  BY <1>1 DEF Bijection, Injection, IsInjective
<1> DEFINE s == SetToSeq(S)
<1>3. s \in [1..Cardinality(S) -> S] /\ IsInjective(s)
  BY <1>2 DEF SetToSeq
<1> HIDE DEF s
<1>4. s \in Injection(1..Cardinality(S), S)
  BY <1>3 DEF Injection, IsInjective
<1>5. Cardinality(S) \in Nat
  BY FS_CardinalityType
<1>6. IsFiniteSet(1..Cardinality(S)) /\ Cardinality(1..Cardinality(S)) = Cardinality(S)
  BY <1>5, CardInterval
<1>7. s \in Surjection(1..Cardinality(S), S)
  BY <1>4, <1>6, FS_Injection
<1>8. ToSet(s) = S
  BY <1>3, <1>7 DEF Surjection, ToSet
<1>9. s \in Seq(S)
  BY <1>3, <1>5
<1> QED BY <1>3, <1>8, <1>9 DEF s

\* Pushing a new entry at the end of a list without repetitions.
LEMMA AppendSet ==
  ASSUME NEW S, NEW s \in Seq(S), NEW e \in S
  PROVE  /\ Append(s, e) \in Seq(S) /\ ToSet(Append(s, e)) = ToSet(s) \cup {e}
         /\ IsInjective(s) /\ e \notin ToSet(s) => IsInjective(Append(s, e))
<1> DEFINE t == Append(s, e)
<1>1. /\ t \in Seq(S) /\ Len(t) = Len(s) + 1 /\ t[Len(s) + 1] = e
      /\ \A i \in 1..Len(s) : t[i] = s[i]
  BY AppendProperties
<1> HIDE DEF t
<1>2. /\ DOMAIN t = 1..(Len(s) + 1) /\ DOMAIN s = 1..Len(s) /\ Len(s) \in Nat
      /\ \A i \in DOMAIN t : i \in DOMAIN s \/ i = Len(s) + 1
      /\ \A i \in DOMAIN s : i \in DOMAIN t
      /\ Len(s) + 1 \in DOMAIN t
  BY <1>1, LenProperties
<1>3. ToSet(t) = ToSet(s) \cup {e}
  <2>1. \A i \in DOMAIN t : t[i] \in ToSet(s) \cup {e}
    BY <1>1, <1>2 DEF ToSet
  <2>2. e \in ToSet(t)
    BY <1>1, <1>2 DEF ToSet
  <2>3. \A i \in DOMAIN s : s[i] \in ToSet(t)
    BY <1>1, <1>2 DEF ToSet
  <2> QED BY <2>1, <2>2, <2>3 DEF ToSet
<1>4. ASSUME IsInjective(s), e \notin ToSet(s) PROVE IsInjective(t)
  <2>1. \A i \in DOMAIN s : s[i] # e
    BY <1>4 DEF ToSet
  <2>2. \A i, j \in DOMAIN t : t[i] = t[j] => i = j
    BY <1>1, <1>2, <1>4, <2>1 DEF IsInjective
  <2> QED BY <2>2 DEF IsInjective
<1> QED BY <1>1, <1>3, <1>4 DEF t

\* Each virtual node is in the list of the server that owns it, once.
Divided(lists, own) ==
  \A s \in Servers : /\ IsInjective(lists[s])
                     /\ ToSet(lists[s]) = {v \in Vnodes : own[v] = s}

\* One virtual node may be handed from a server to another, or to itself.
LEMMA ReassignDivides ==
  ASSUME NEW lists \in [Servers -> Seq(Vnodes)], NEW own \in [Vnodes -> Servers],
         Divided(lists, own), NEW a \in Servers, NEW b \in Servers,
         NEW i \in DOMAIN lists[a]
  PROVE  /\ Reassign(lists, i, a, b) \in [Servers -> Seq(Vnodes)]
         /\ Divided(Reassign(lists, i, a, b), [own EXCEPT ![lists[a][i]] = b])
<1> DEFINE v == lists[a][i]
           rest == RemoveAt(lists[a], i)
           new == Reassign(lists, i, a, b)
<1>1. /\ lists[a] \in Seq(Vnodes) /\ i \in 1..Len(lists[a]) /\ v \in Vnodes
      /\ lists[b] \in Seq(Vnodes)
      /\ Len(lists[a]) \in Nat
  OBVIOUS
<1>2. /\ rest \in Seq(Vnodes) /\ ToSet(rest) = ToSet(lists[a]) \ {v}
      /\ IsInjective(rest)
  BY <1>1, RemoveAtCells, RemoveAtSet DEF Divided
<1>3. v \in ToSet(lists[a]) /\ own[v] = a
  BY <1>1 DEF ToSet, Divided
\* Taking the entry off after one was pushed is the same as before.
<1>4. RemoveAt(Append(lists[a], v), i) = Append(rest, v)
  <2> DEFINE l == lists[a]
             m == Len(l)
             p == RemoveAt(Append(l, v), i)
             q == Append(rest, v)
  <2>1. l \in Seq(Vnodes) /\ v \in Vnodes /\ i \in 1..m /\ m \in Nat
    BY <1>1
  <2>2. /\ Append(l, v) \in Seq(Vnodes) /\ Len(Append(l, v)) = m + 1
        /\ Append(l, v)[m + 1] = v
        /\ \A j \in 1..m : Append(l, v)[j] = l[j]
    BY <2>1, AppendProperties
  <2>3. /\ rest \in Seq(Vnodes) /\ Len(rest) = m - 1
        /\ \A j \in 1..(m-1) : rest[j] = IF j < i THEN l[j] ELSE l[j+1]
    BY <2>1, RemoveAtCells
  <2> HIDE DEF rest, v
  <2>4. /\ q \in Seq(Vnodes) /\ Len(q) = m /\ q[m] = v
        /\ \A j \in 1..(m-1) : q[j] = rest[j]
    BY <2>1, <2>3, AppendProperties
  <2>5. i \in 1..Len(Append(l, v))
    BY <2>1, <2>2
  <2>6. /\ p \in Seq(Vnodes) /\ Len(p) = m
        /\ \A j \in 1..m : p[j] = IF j < i THEN Append(l, v)[j]
                                  ELSE Append(l, v)[j+1]
    <3> DEFINE t == Append(l, v)
    <3> HIDE DEF t
    <3>1. t \in Seq(Vnodes) /\ i \in 1..Len(t) /\ Len(t) = m + 1
      BY <2>2, <2>5 DEF t
    <3>2. /\ RemoveAt(t, i) \in Seq(Vnodes) /\ Len(RemoveAt(t, i)) = Len(t) - 1
          /\ \A j \in 1..(Len(t)-1) :
               RemoveAt(t, i)[j] = IF j < i THEN t[j] ELSE t[j+1]
      BY <3>1, RemoveAtCells
    <3>3. Len(t) - 1 = m
      BY <2>1, <3>1
    <3> QED BY <3>2, <3>3 DEF t
  <2> HIDE DEF p, q, m, l
  <2>7. ASSUME NEW j \in 1..m PROVE p[j] = q[j]
    <3>1. CASE j < i
      <4>1. j \in 1..(m-1)
        BY <2>1, <3>1
      <4>2. p[j] = l[j] /\ q[j] = l[j]
        BY <2>2, <2>3, <2>4, <2>6, <3>1, <4>1
      <4> QED BY <4>2
    <3>2. CASE ~(j < i) /\ j < m
      <4>1. j \in 1..(m-1) /\ j + 1 \in 1..m
        BY <2>1, <3>2
      <4>2. p[j] = l[j+1] /\ q[j] = l[j+1]
        BY <2>2, <2>3, <2>4, <2>6, <3>2, <4>1
      <4> QED BY <4>2
    <3>3. CASE ~(j < i) /\ j = m
      <4>1. p[j] = v /\ q[j] = v
        BY <2>2, <2>4, <2>6, <3>3
      <4> QED BY <4>1
    <3> QED BY <2>1, <3>1, <3>2, <3>3
  <2>8. p = q
    BY <2>1, <2>4, <2>6, <2>7, SeqEqual
  <2> QED BY <2>8 DEF p, q, l
<1> HIDE DEF v, rest
<1>5. /\ Append(rest, v) \in Seq(Vnodes)
      /\ ToSet(Append(rest, v)) = ToSet(lists[a])
      /\ IsInjective(Append(rest, v))
  <2>1. v \notin ToSet(rest) /\ ToSet(rest) \cup {v} = ToSet(lists[a])
    BY <1>2, <1>3
  <2>2. v \in Vnodes
    BY <1>1
  <2>3. rest \in Seq(Vnodes) /\ IsInjective(rest)
    BY <1>2
  <2>4. /\ Append(rest, v) \in Seq(Vnodes)
        /\ ToSet(Append(rest, v)) = ToSet(rest) \cup {v}
        /\ IsInjective(rest) /\ v \notin ToSet(rest) => IsInjective(Append(rest, v))
    BY <2>2, <2>3, AppendSet
  <2> QED BY <2>1, <2>3, <2>4
<1>6. CASE a = b
  <2>1. new = [lists EXCEPT ![a] = Append(rest, v)]
    BY <1>4, <1>6 DEF Reassign, v
  <2>2. [own EXCEPT ![v] = b] = own
    BY <1>1, <1>3, <1>6
  <2> HIDE DEF new
  <2>3. new \in [Servers -> Seq(Vnodes)] /\ Divided(new, own)
    BY <1>5, <2>1 DEF Divided
  <2> QED BY <2>2, <2>3 DEF new, v
<1>7. CASE a # b
  <2> DEFINE now == [own EXCEPT ![v] = b]
  <2>1. new = [lists EXCEPT ![b] = Append(lists[b], v), ![a] = rest]
    BY <1>7 DEF Reassign, v, rest
  <2> HIDE DEF new
  <2>2. v \notin ToSet(lists[b])
    BY <1>3, <1>7 DEF Divided
  <2>3. /\ Append(lists[b], v) \in Seq(Vnodes)
        /\ ToSet(Append(lists[b], v)) = ToSet(lists[b]) \cup {v}
        /\ IsInjective(Append(lists[b], v))
    BY <1>1, <2>2, AppendSet DEF Divided
  <2>4. /\ new \in [Servers -> Seq(Vnodes)]
        /\ new[a] = rest /\ new[b] = Append(lists[b], v)
        /\ \A s \in Servers \ {a, b} : new[s] = lists[s]
    BY <1>2, <1>7, <2>1, <2>3
  <2>5. now[v] = b /\ \A u \in Vnodes \ {v} : now[u] = own[u]
    BY <1>1
  <2> HIDE DEF now
  <2>6. ASSUME NEW s \in Servers
        PROVE  IsInjective(new[s]) /\ ToSet(new[s]) = {u \in Vnodes : now[u] = s}
    <3>1. CASE s = a
      <4>1. IsInjective(new[s]) /\ ToSet(new[s]) = {u \in Vnodes : own[u] = a} \ {v}
        BY <1>2, <2>4, <3>1 DEF Divided
      <4> QED BY <1>7, <2>5, <3>1, <4>1
    <3>2. CASE s = b
      <4>1. IsInjective(new[s]) /\ ToSet(new[s]) = {u \in Vnodes : own[u] = b} \cup {v}
        BY <2>3, <2>4, <3>2 DEF Divided
      <4> QED BY <1>1, <2>5, <3>2, <4>1
    <3>3. CASE s \in Servers \ {a, b}
      <4>1. IsInjective(new[s]) /\ ToSet(new[s]) = {u \in Vnodes : own[u] = s}
        BY <2>4, <3>3 DEF Divided
      <4>2. {u \in Vnodes : own[u] = s} = {u \in Vnodes : now[u] = s}
        BY <1>3, <2>5, <3>3
      <4> QED BY <4>1, <4>2
    <3> QED BY <3>1, <3>2, <3>3
  <2> QED BY <2>4, <2>6 DEF Divided, new, now, v
<1> QED BY <1>6, <1>7

----------------------------------------------------------------------------
(***************************************************************************)
(* The ring under update().                                                *)
(***************************************************************************)

\* A position for each virtual node, and a server for each position.
Served(r) ==
  /\ IsRing(r)
  /\ DOMAIN r.list = 1..(cache_number * virtual_node) /\ IsInjective(r.list)
  /\ ToSet(r.list) = DOMAIN r.owner /\ DOMAIN r.owner \subseteq Hashes
  /\ r.owner \in [DOMAIN r.owner -> Servers]

Owns(r) == [v \in Vnodes |-> OwnerOf(r, v)]

\* The indices of the virtual nodes are those of the list.
LEMMA VnodeIndices ==
  ASSUME NEW v
  PROVE  v \in Vnodes <=> v \in Int /\ v + 1 \in 1..(cache_number * virtual_node)
<1>1. cache_number * virtual_node \in Nat
  BY ParametersAssumption
<1> DEFINE n == cache_number * virtual_node
<1> HIDE DEF n
<1>2. v \in 0..(n - 1) <=> v \in Int /\ v + 1 \in 1..n
  <2>1. n \in Nat
    BY <1>1 DEF n
  <2> QED BY <2>1
<1> QED BY <1>2 DEF Vnodes, n

\* Every virtual node has a server.
LEMMA OwnsServers ==
  ASSUME NEW r, Served(r)
  PROVE  /\ Owns(r) \in [Vnodes -> Servers]
         /\ \A v \in Vnodes : r.list[v + 1] \in DOMAIN r.owner
<1>1. \A v \in Vnodes : r.list[v + 1] \in DOMAIN r.owner
  BY VnodeIndices DEF Served, ToSet
<1>2. \A v \in Vnodes : OwnerOf(r, v) \in Servers
  BY <1>1 DEF Served, OwnerOf
<1> QED BY <1>1, <1>2 DEF Owns

\* init_mapper() builds such a ring.
LEMMA RingsServed ==
  ASSUME NEW r \in Rings(cache_number, virtual_node, Hashes)
  PROVE  Served(r)
<1>1. PICK m \in Nat : Hashes \subseteq 0..m
  BY ParametersAssumption, FiniteBounded
<1>2. cache_number \in Nat /\ virtual_node \in Nat /\ Hashes \in SUBSET (0..m)
  BY <1>1, ParametersAssumption
<1>3. Ring(r, virtual_node, m, Hashes) /\ r.realNodes = cache_number
  BY <1>2, RingsBuilt
<1>6. r \in RingRecords(m, Hashes)
  BY <1>2, RingsBuilt
<1>4. IsRing(r) /\ r.owner \in [DOMAIN r.owner -> Nat]
  <2>1. IsRing(r) /\ r.owner \in UNION {[D -> Nat] : D \in SUBSET Hashes}
    BY <1>6 DEF RingRecords, IsRing
  <2> QED BY <2>1
<1>5. /\ DOMAIN r.list = 1..(cache_number * virtual_node)
      /\ IsInjective(r.list) /\ ToSet(r.list) = DOMAIN r.owner
      /\ DOMAIN r.owner \subseteq Hashes
      /\ \A p \in DOMAIN r.owner : r.owner[p] \in Servers
  BY <1>3 DEF Ring, RingInv, RingOf, Servers
<1> QED BY <1>4, <1>5 DEF Served

\* What update() makes of the ring.
Handed(r, v, b) == [r EXCEPT !.owner[r.list[v + 1]] = b]

\* A virtual node is handed over: the ring sends its position, and no other,
\* to the new server.
LEMMA HandOver ==
  ASSUME NEW r, Served(r), NEW v \in Vnodes, NEW b \in Servers
  PROVE  /\ Served(Handed(r, v, b))
         /\ Owns(Handed(r, v, b)) = [Owns(r) EXCEPT ![v] = b]
<1> DEFINE q == Handed(r, v, b)
           own == [r.owner EXCEPT ![r.list[v + 1]] = b]
<1>1. q = [r EXCEPT !.owner = own]
  BY DEF Handed
<1> HIDE DEF q
<1>2. r.list[v + 1] \in DOMAIN r.owner
  BY OwnsServers
<1>3. own \in [DOMAIN r.owner -> Servers] /\ DOMAIN own = DOMAIN r.owner
  BY <1>2 DEF Served
<1>4. /\ own[r.list[v + 1]] = b
      /\ \A p \in DOMAIN r.owner : p # r.list[v + 1] => own[p] = r.owner[p]
  BY <1>2
<1> HIDE DEF own
<1>5. q = [list |-> r.list, uidHash |-> r.uidHash, owner |-> own,
           realNodes |-> r.realNodes, fileVnode |-> r.fileVnode,
           fileRnode |-> r.fileRnode]
  <2>1. IsRing(r)
    BY DEF Served
  <2> QED BY <1>1, <2>1 DEF IsRing
<1>6. q.list = r.list /\ q.owner = own /\ IsRing(q)
  BY <1>5 DEF IsRing
<1>7. Served(q)
  BY <1>3, <1>6 DEF Served
<1>8. ASSUME NEW u \in Vnodes
      PROVE  OwnerOf(q, u) = IF u = v THEN b ELSE OwnerOf(r, u)
  <2>1. OwnerOf(q, u) = own[r.list[u + 1]] /\ OwnerOf(r, u) = r.owner[r.list[u + 1]]
    BY <1>6 DEF OwnerOf
  <2>2. CASE u = v
    BY <1>4, <2>1, <2>2
  <2>3. CASE u # v
    <3>1. u + 1 \in DOMAIN r.list /\ v + 1 \in DOMAIN r.list /\ u + 1 # v + 1
      BY <2>3, VnodeIndices DEF Served
    <3>2. r.list[u + 1] # r.list[v + 1]
      BY <3>1 DEF Served, IsInjective
    <3>3. r.list[u + 1] \in DOMAIN r.owner
      BY OwnsServers
    <3> QED BY <1>4, <2>1, <2>3, <3>2, <3>3
  <2> QED BY <2>2, <2>3
<1>9. Owns(q) = [Owns(r) EXCEPT ![v] = b]
  BY <1>8 DEF Owns
<1> QED BY <1>7, <1>9 DEF q

----------------------------------------------------------------------------
(***************************************************************************)
(* The first inductive invariant: the ring has a position for each virtual *)
(* node, and the lists follow it.                                          *)
(***************************************************************************)

Placed ==
  /\ Served(chash)
  /\ vnodes \in [Servers -> Seq(Vnodes)]
  /\ Divided(vnodes, Owns(chash))

\* The lists follow the ring exactly if they are divided by its owners.
LEMMA DividedByOwners ==
  Divided(vnodes, Owns(chash)) <=> VnodesPartitioned
<1>1. \A s \in Servers : {v \in Vnodes : Owns(chash)[v] = s}
                           = {v \in Vnodes : OwnerOf(chash, v) = s}
  BY DEF Owns
<1> QED BY <1>1 DEF Divided, VnodesPartitioned

\* init_mapper() pushes each virtual node on the list of its owner.
LEMMA InitPlaced == Init => Placed
<1> SUFFICES ASSUME Init PROVE Placed
  OBVIOUS
<1>1. Served(chash)
  BY RingsServed DEF Init
<1> DEFINE Of(s) == {v \in Vnodes : OwnerOf(chash, v) = s}
<1>2. vnodes = [s \in Servers |-> InOrder(SetToSeq(Of(s)))]
  BY DEF Init
<1>3. PICK m \in Nat : Vnodes = 0..m
  <2>1. cache_number * virtual_node - 1 \in Nat
    BY ParametersAssumption
  <2> QED BY <2>1 DEF Vnodes
<1>4. \A s \in Servers : Of(s) \in SUBSET Vnodes
  OBVIOUS
<1> HIDE DEF Of
<1>5. ASSUME NEW s \in Servers
      PROVE  /\ vnodes[s] \in Seq(Vnodes) /\ IsInjective(vnodes[s])
             /\ ToSet(vnodes[s]) = Of(s)
  <2> DEFINE l == SetToSeq(Of(s))
  <2>1. IsFiniteSet(Of(s))
    <3>1. IsFiniteSet(0..m)
      BY FS_Interval
    <3> QED BY <1>3, <1>4, <3>1, FS_Subset
  <2>2. l \in Seq(Of(s)) /\ ToSet(l) = Of(s) /\ IsInjective(l)
    BY <2>1, SetToSeqLists
  <2> HIDE DEF l
  <2>3. l \in Seq(0..m)
    <3>1. Of(s) \subseteq 0..m
      BY <1>3, <1>4
    <3> QED BY <2>2, <3>1
  <2>4. /\ InOrder(l) \in Seq(0..m) /\ ToSet(InOrder(l)) = ToSet(l)
        /\ IsInjective(l) => IsInjective(InOrder(l))
    BY <2>3, InOrderSorts
  <2>5. vnodes[s] = InOrder(l)
    BY <1>2 DEF l
  <2> QED BY <1>3, <2>2, <2>4, <2>5
<1>6. vnodes \in [Servers -> Seq(Vnodes)]
  BY <1>2, <1>5
<1>7. VnodesPartitioned
  BY <1>5 DEF VnodesPartitioned, Of
<1> QED BY <1>1, <1>6, <1>7, DividedByOwners DEF Placed

\* What a lookup leaves behind in the ring changes no owner.
LEMMA LookedUpServed ==
  ASSUME Served(chash), NEW o
  PROVE  /\ Served(LookedUp(o)) /\ Owns(LookedUp(o)) = Owns(chash)
         /\ LookedUp(o).list = chash.list
<1> DEFINE q == LookedUp(o)
<1>1. q = LookUp(chash, o.id, hashOf[o.id]) /\ IsRing(chash)
  BY DEF LookedUp, Served
<1> HIDE DEF q
<1>2. IsRing(q) /\ q.list = chash.list /\ q.owner = chash.owner
  BY <1>1, LookUpRing DEF SameNodes
<1>3. Served(q)
  BY <1>2 DEF Served
<1>4. \A v \in Vnodes : OwnerOf(q, v) = OwnerOf(chash, v)
  BY <1>2 DEF OwnerOf
<1> QED BY <1>2, <1>3, <1>4 DEF Owns, q

\* The counts have a rank for each server.
LEMMA RankedServers ==
  ASSUME DOMAIN counts = Servers, NEW o
  PROVE  /\ MaxServer(Rank(Counted(o))) \in Servers
         /\ MinServer(Rank(Counted(o))) \in Servers
<1>1. PICK n \in Nat : Servers = 0..n
  <2>1. cache_number - 1 \in Nat
    BY ParametersAssumption
  <2> QED BY <2>1 DEF Servers
<1>2. DOMAIN Counted(o) = Servers
  BY DEF Counted
<1>3. DOMAIN Rank(Counted(o)) = 0..n
  BY <1>1, <1>2 DEF Rank, RanksOf
<1> QED BY <1>1, <1>3, MaxServerRanked, MinServerRanked

\* update() hands one virtual node of a server to a server, or none.
LEMMA UpdateHands ==
  ASSUME DOMAIN counts = Servers, NEW o, RequestUpdate(o)
  PROVE  \/ chash' = LookedUp(o) /\ vnodes' = vnodes
         \/ \E a, b \in Servers : \E i \in DOMAIN vnodes[a] :
              /\ chash' = [LookedUp(o) EXCEPT
                             !.owner[chash.list[vnodes[a][i] + 1]] = b]
              /\ vnodes' = Reassign(vnodes, i, a, b)
<1> DEFINE a == MaxServer(Rank(Counted(o)))
           b == MinServer(Rank(Counted(o)))
<1>1. a \in Servers /\ b \in Servers
  BY RankedServers
<1>2. PICK w, replay :
        LET targets == Targets(w, replay, a, b)
        IN  IF targets = {}
            THEN chash' = LookedUp(o) /\ UNCHANGED vnodes
            ELSE \E i \in targets :
                   LET hash == chash.list[vnodes[a][i] + 1]
                   IN  /\ chash' = [LookedUp(o) EXCEPT !.owner[hash] = b]
                       /\ vnodes' = Reassign(vnodes, i, a, b)
  BY DEF RequestUpdate
<1> HIDE DEF a, b
<1>3. Targets(w, replay, a, b) \subseteq DOMAIN vnodes[a]
  BY DEF Targets
<1> QED BY <1>1, <1>2, <1>3

\* Every action keeps the lists with the ring.
LEMMA NextPlaced ==
  ASSUME DOMAIN counts = Servers, Placed, [Next]_vars
  PROVE  Placed'
<1>1. CASE UNCHANGED vars
  <2>1. chash' = chash /\ vnodes' = vnodes
    BY <1>1 DEF vars
  <2> QED BY <2>1 DEF Placed, Divided
<1>2. ASSUME NEW o, chash' = LookedUp(o), vnodes' = vnodes
      PROVE  Placed'
  <2>1. Served(chash') /\ Owns(chash') = Owns(chash)
    BY <1>2, LookedUpServed DEF Placed
  <2> QED BY <1>2, <2>1 DEF Placed, Divided
<1>3. ASSUME NEW o, RequestUpdate(o),
             NEW a \in Servers, NEW b \in Servers, NEW i \in DOMAIN vnodes[a],
             chash' = [LookedUp(o) EXCEPT
                         !.owner[chash.list[vnodes[a][i] + 1]] = b],
             vnodes' = Reassign(vnodes, i, a, b)
      PROVE  Placed'
  <2> DEFINE v == vnodes[a][i]
             q == LookedUp(o)
  <2>1. v \in Vnodes
    BY DEF Placed
  <2>2. Served(q) /\ Owns(q) = Owns(chash) /\ q.list = chash.list
    BY LookedUpServed DEF Placed
  <2>3. chash' = Handed(q, v, b)
    BY <1>3, <2>2 DEF Handed
  <2>4. Served(chash') /\ Owns(chash') = [Owns(chash) EXCEPT ![v] = b]
    <3> HIDE DEF q, v
    <3> QED BY <2>1, <2>2, <2>3, HandOver
  <2>5. /\ vnodes' \in [Servers -> Seq(Vnodes)]
        /\ Divided(vnodes', [Owns(chash) EXCEPT ![v] = b])
    <3>1. Owns(chash) \in [Vnodes -> Servers]
      BY OwnsServers DEF Placed
    <3> QED BY <1>3, <3>1, ReassignDivides DEF Placed
  <2> HIDE DEF v
  <2> QED BY <2>4, <2>5 DEF Placed, Divided
<1>4. ASSUME NEW o \in Lines, RequestPlain(o) \/ RequestSampled(o)
      PROVE  Placed'
  <2>1. chash' = LookedUp(o) /\ vnodes' = vnodes
    BY <1>4 DEF RequestPlain, RequestSampled
  <2> QED BY <1>2, <2>1
<1>5. ASSUME NEW o \in Lines, RequestUpdate(o)
      PROVE  Placed'
  BY <1>2, <1>3, <1>5, UpdateHands
<1> QED BY <1>1, <1>4, <1>5 DEF Next

----------------------------------------------------------------------------
(***************************************************************************)
(* The counter stacks.                                                     *)
(***************************************************************************)

Fragments == [start : Nat, bytes : Nat]

\* Raising the counts moves no fragment.
LEMMA RaisedStack ==
  ASSUME NEW stack \in Stacks, NEW from \in Int, NEW size \in Nat
  PROVE  /\ Raised(stack, from, size) \in Stacks
         /\ Len(Raised(stack, from, size)) = Len(stack)
         /\ \A i \in 1..Len(stack) :
              LET c == Raised(stack, from, size)[i]
              IN  /\ c.start = stack[i].start
                  /\ i >= from => c.bytes = stack[i].bytes + size
                  /\ i < from => c.bytes = stack[i].bytes
<1> DEFINE r == Raised(stack, from, size)
           RaisedCell(i) == IF i >= from THEN [stack[i] EXCEPT !.bytes = @ + size]
                      ELSE stack[i]
<1>1. /\ Len(stack) \in Nat /\ DOMAIN stack = 1..Len(stack)
      /\ \A i \in 1..Len(stack) : stack[i] \in Fragments
  BY LenProperties DEF Stacks, Fragments
<1>2. r = [i \in 1..Len(stack) |-> RaisedCell(i)]
  BY <1>1 DEF Raised
<1>3. ASSUME NEW i \in 1..Len(stack)
      PROVE  /\ RaisedCell(i) \in Fragments /\ RaisedCell(i).start = stack[i].start
             /\ i >= from => RaisedCell(i).bytes = stack[i].bytes + size
             /\ i < from => RaisedCell(i).bytes = stack[i].bytes
  BY <1>1 DEF Fragments
<1> HIDE DEF r, RaisedCell
<1>4. r \in [1..Len(stack) -> Fragments]
  BY <1>2, <1>3
<1>5. r \in Seq(Fragments) /\ Len(r) = Len(stack)
  BY <1>1, <1>4
<1> QED BY <1>2, <1>3, <1>5 DEF Stacks, Fragments, r

\* A fragment is pushed at the end.
LEMMA PushedStack ==
  ASSUME NEW stack \in Stacks, NEW position \in Nat
  PROVE  LET new == Append(stack, [start |-> position + 1, bytes |-> 0])
         IN  /\ new \in Stacks /\ Len(new) = Len(stack) + 1
             /\ Last(new).start = position + 1
             /\ new[Len(stack) + 1] = [start |-> position + 1, bytes |-> 0]
             /\ \A i \in 1..Len(stack) : new[i] = stack[i]
<1> DEFINE e == [start |-> position + 1, bytes |-> 0]
           new == Append(stack, e)
<1>1. e \in Fragments /\ e.start = position + 1
  BY DEF Fragments
<1> HIDE DEF e
<1>2. /\ new \in Seq(Fragments) /\ Len(new) = Len(stack) + 1
      /\ new[Len(stack) + 1] = e
      /\ \A i \in 1..Len(stack) : new[i] = stack[i]
  BY <1>1, AppendProperties DEF Stacks, Fragments
<1> HIDE DEF new
<1>3. Last(new) = e
  BY <1>2 DEF Last
<1> QED BY <1>1, <1>2, <1>3 DEF Stacks, Fragments, new, e

\* The fragments of new are those of the stack, raised, and one more.
FirstCells(stack, new, size, position) ==
  /\ new[Len(stack) + 1] = [start |-> position + 1, bytes |-> 0]
  /\ \A i \in 1..Len(stack) : /\ new[i].start = stack[i].start
                             /\ new[i].bytes = stack[i].bytes + size

\* They are those of the stack without the one at next, raised from there on,
\* and one more.
AgainCells(stack, new, next, size, position) ==
  /\ new[Len(stack)] = [start |-> position + 1, bytes |-> 0]
  /\ \A i \in 1..(Len(stack) - 1) :
       /\ i < next => new[i] = stack[i]
       /\ i >= next => /\ new[i].start = stack[i+1].start
                       /\ new[i].bytes = stack[i+1].bytes + size

\* A file without a last access adds a fragment.
LEMMA AccessedFirst ==
  ASSUME NEW stack \in Stacks, NEW size \in Nat, NEW position \in Nat,
         NEW beforeLast
  PROVE  LET new == Accessed(stack, NoAccess, size, position, beforeLast)
         IN  /\ new \in Stacks /\ Len(new) = Len(stack) + 1
             /\ Last(new).start = position + 1
             /\ FirstCells(stack, new, size, position)
<1> DEFINE r == Raised(stack, 1, size)
<1>1. /\ r \in Stacks /\ Len(r) = Len(stack)
      /\ \A i \in 1..Len(stack) : /\ r[i].start = stack[i].start
                                 /\ r[i].bytes = stack[i].bytes + size
  <2>1. \A i \in 1..Len(stack) : i >= 1
    BY LenProperties DEF Stacks
  <2> QED BY <2>1, RaisedStack
<1> HIDE DEF r
<1>2. Accessed(stack, NoAccess, size, position, beforeLast)
        = Append(r, [start |-> position + 1, bytes |-> 0])
  BY DEF Accessed, r
<1> DEFINE e == [start |-> position + 1, bytes |-> 0]
           new == Append(r, e)
<1>3. /\ new \in Stacks /\ Len(new) = Len(r) + 1
      /\ Last(new).start = position + 1 /\ new[Len(r) + 1] = e
      /\ \A i \in 1..Len(r) : new[i] = r[i]
  BY <1>1, PushedStack
<1> HIDE DEF new
<1>4. FirstCells(stack, new, size, position)
  BY <1>1, <1>3 DEF FirstCells
<1> QED BY <1>1, <1>2, <1>3, <1>4 DEF new

\* The fragment after the one of a file's last access is in the stack, and so
\* is what the increment of end() gives: a stack with a file has two fragments.
LEMMA FollowingInside ==
  ASSUME NEW stack \in Stacks, Len(stack) >= 2, NEW last,
         Last(stack).start # last, NEW beforeLast
  PROVE  Following(stack, last, beforeLast) \in 1..Len(stack)
<1>1. Len(stack) \in Nat /\ DOMAIN stack = 1..Len(stack)
  BY LenProperties DEF Stacks
<1>2. CASE Found(stack, last)
  <2> DEFINE k == CHOOSE i \in DOMAIN stack : stack[i].start = last
  <2>1. k \in 1..Len(stack) /\ stack[k].start = last
    BY <1>1, <1>2 DEF Found
  <2> HIDE DEF k
  <2>2. k # Len(stack)
    BY <2>1 DEF Last
  <2>3. Following(stack, last, beforeLast) = 1 + k
    BY <1>2 DEF Following, k
  <2>4. ASSUME NEW n \in Nat, NEW j \in 1..n, j # n PROVE 1 + j \in 1..n
    BY <2>4
  <2>5. 1 + k \in 1..Len(stack)
    BY <1>1, <2>1, <2>2, <2>4
  <2> QED BY <2>3, <2>5
<1>3. CASE ~Found(stack, last)
  <2>1. Following(stack, last, beforeLast)
          = Len(stack) - IF beforeLast THEN 1 ELSE 0
    BY <1>3 DEF Following
  <2>2. (IF beforeLast THEN 1 ELSE 0) \in {0, 1}
    OBVIOUS
  <2> QED BY <1>1, <2>1, <2>2
<1> QED BY <1>2, <1>3

\* A file with a last access replaces a fragment.
LEMMA AccessedAgain ==
  ASSUME NEW stack \in Stacks, Len(stack) >= 2, NEW last \in Nat,
         Last(stack).start # last,
         NEW size \in Nat, NEW position \in Nat, NEW beforeLast
  PROVE  LET new == Accessed(stack, last, size, position, beforeLast)
             next == Following(stack, last, beforeLast)
         IN  /\ new \in Stacks /\ Len(new) = Len(stack)
             /\ Last(new).start = position + 1
             /\ AgainCells(stack, new, next, size, position)
<1> DEFINE next == Following(stack, last, beforeLast)
           r == Raised(stack, next + 1, size)
           m == RemoveAt(r, next)
<1>1. next \in 1..Len(stack) /\ Len(stack) \in Nat
  BY FollowingInside, LenProperties DEF Stacks
<1> HIDE DEF next
<1>2. /\ r \in Stacks /\ Len(r) = Len(stack)
      /\ \A i \in 1..Len(stack) :
           /\ r[i].start = stack[i].start
           /\ i >= next + 1 => r[i].bytes = stack[i].bytes + size
           /\ i < next + 1 => r[i].bytes = stack[i].bytes
  <2>1. next + 1 \in Int
    BY <1>1
  <2> QED BY <2>1, RaisedStack
<1>6. \A i \in 1..Len(stack) : i < next + 1 => r[i] = stack[i]
  <2>1. \A i \in 1..Len(stack) : r[i] \in Fragments /\ stack[i] \in Fragments
    BY <1>2, ElementOfSeq DEF Stacks, Fragments
  <2>2. \A c, d \in Fragments : c.start = d.start /\ c.bytes = d.bytes => c = d
    BY DEF Fragments
  <2> QED BY <1>2, <2>1, <2>2
<1> HIDE DEF r
<1>3. /\ m \in Stacks /\ Len(m) = Len(stack) - 1
      /\ \A i \in 1..(Len(stack) - 1) : m[i] = IF i < next THEN r[i] ELSE r[i+1]
  <2>1. r \in Seq(Fragments) /\ next \in 1..Len(r)
    BY <1>1, <1>2 DEF Stacks, Fragments
  <2>2. /\ m \in Seq(Fragments) /\ Len(m) = Len(r) - 1
        /\ \A i \in 1..(Len(r) - 1) : m[i] = IF i < next THEN r[i] ELSE r[i+1]
    BY <2>1, RemoveAtCells
  <2> QED BY <1>2, <2>2 DEF Stacks, Fragments
<1>4. Accessed(stack, last, size, position, beforeLast)
        = Append(m, [start |-> position + 1, bytes |-> 0])
  BY DEF Accessed, NoAccess, Merge, next, r, m
<1> HIDE DEF m
<1>5. Len(m) + 1 = Len(stack)
  BY <1>1, <1>3
<1>7. ASSUME NEW i \in 1..(Len(stack) - 1)
      PROVE  /\ i < next => m[i] = stack[i]
             /\ i >= next => /\ m[i].start = stack[i+1].start
                             /\ m[i].bytes = stack[i+1].bytes + size
  <2>1. i \in 1..Len(stack) /\ i + 1 \in 1..Len(stack)
    BY <1>1
  <2>2. CASE i < next
    <3>1. m[i] = r[i]
      BY <1>3, <2>2
    <3>2. r[i] = stack[i]
      BY <1>1, <1>6, <2>1, <2>2
    <3> QED BY <1>1, <2>2, <3>1, <3>2
  <2>3. CASE ~(i < next)
    <3>1. m[i] = r[i+1]
      BY <1>3, <2>3
    <3>2. i + 1 >= next + 1
      BY <1>1, <2>3
    <3> QED BY <1>2, <2>1, <2>3, <3>1, <3>2
  <2> QED BY <2>2, <2>3
<1> DEFINE new == Append(m, [start |-> position + 1, bytes |-> 0])
<1>8. /\ new \in Stacks /\ Len(new) = Len(stack)
      /\ Last(new).start = position + 1
      /\ new[Len(stack)] = [start |-> position + 1, bytes |-> 0]
      /\ \A i \in 1..(Len(stack) - 1) : new[i] = m[i]
  BY <1>3, <1>5, PushedStack
<1> HIDE DEF new
<1>9. AgainCells(stack, new, next, size, position)
  BY <1>7, <1>8 DEF AgainCells
<1> QED BY <1>4, <1>8, <1>9 DEF new, next

\* A stack has a fragment for each file with a last access and one more, and
\* all of these accesses are before position n and before the last fragment.
StackCounts(stack, last, n) ==
  LET ids == {id \in Ids : last[id] # NoAccess}
  IN  /\ stack \in Stacks /\ last \in [Ids -> {NoAccess} \cup Nat]
      /\ IsFiniteSet(ids) /\ Len(stack) = 1 + Cardinality(ids)
      /\ \A id \in ids : last[id] < n /\ last[id] < Last(stack).start

\* A fresh stack counts no file.
LEMMA FreshCounts == StackCounts(FreshStack, [id \in Ids |-> NoAccess], 0)
<1>1. {id \in Ids : [i \in Ids |-> NoAccess][id] # NoAccess} = {}
  OBVIOUS
<1>2. FreshStack \in Stacks /\ Len(FreshStack) = 1
  BY DEF FreshStack, Stacks
<1>3. [id \in Ids |-> NoAccess] \in [Ids -> {NoAccess} \cup Nat]
  OBVIOUS
<1> QED BY <1>1, <1>2, <1>3, FS_EmptySet DEF StackCounts

\* A request for another virtual node leaves the counting as it is.
LEMMA CountsLater ==
  ASSUME NEW stack, NEW last, NEW n \in Nat, StackCounts(stack, last, n)
  PROVE  StackCounts(stack, last, n + 1)
<1>1. \A id \in Ids : last[id] # NoAccess => last[id] \in Nat
  BY DEF StackCounts
<1>2. \A i \in Nat : i < n => i < n + 1
  OBVIOUS
<1> QED BY <1>1, <1>2 DEF StackCounts

\* A request adds a fragment exactly if it is the first for its file.
LEMMA CountsAccessed ==
  ASSUME NEW stack, NEW last, NEW n \in Nat, StackCounts(stack, last, n),
         NEW id \in Ids, NEW size \in Nat, NEW beforeLast
  PROVE  StackCounts(Accessed(stack, last[id], size, n, beforeLast),
                     [last EXCEPT ![id] = n], n + 1)
<1> DEFINE ids == {i \in Ids : last[i] # NoAccess}
           later == [last EXCEPT ![id] = n]
           laterIds == {i \in Ids : later[i] # NoAccess}
           new == Accessed(stack, last[id], size, n, beforeLast)
<1>1. /\ stack \in Stacks /\ last \in [Ids -> {NoAccess} \cup Nat]
      /\ IsFiniteSet(ids) /\ Len(stack) = 1 + Cardinality(ids)
      /\ \A i \in ids : last[i] < n /\ last[i] < Last(stack).start
  BY DEF StackCounts
<1>2. /\ later \in [Ids -> {NoAccess} \cup Nat] /\ later[id] = n
      /\ \A i \in Ids \ {id} : later[i] = last[i]
  BY <1>1
<1> HIDE DEF later
<1>3. laterIds = ids \cup {id}
  BY <1>2 DEF NoAccess
<1>4. Cardinality(ids) \in Nat /\ IsFiniteSet(laterIds)
  <2>1. IsFiniteSet(ids)
    BY <1>1
  <2> HIDE DEF ids, laterIds
  <2> QED BY <1>3, <2>1, FS_CardinalityType, FS_AddElement
<1>5. new \in Stacks /\ Len(new) = 1 + Cardinality(laterIds)
      /\ Last(new).start = n + 1
  <2>1. CASE last[id] = NoAccess
    <3>1. id \notin ids
      BY <2>1
    <3>2. Cardinality(laterIds) = Cardinality(ids) + 1
      BY <1>1, <1>3, <3>1, FS_AddElement
    <3>3. new \in Stacks /\ Len(new) = Len(stack) + 1 /\ Last(new).start = n + 1
      BY <1>1, <2>1, AccessedFirst
    <3> HIDE DEF ids, laterIds, new
    <3> QED BY <1>1, <1>4, <3>2, <3>3
  <2>2. CASE last[id] # NoAccess
    <3>1. id \in ids /\ laterIds = ids
      BY <1>3, <2>2
    <3>2. last[id] \in Nat /\ last[id] < Last(stack).start
      BY <1>1, <2>2, <3>1
    <3>3. Cardinality(ids) # 0
      BY <1>1, <3>1, FS_EmptySet
    <3>4. Len(stack) >= 2 /\ Last(stack).start # last[id]
      <4> HIDE DEF ids
      <4>1. Len(stack) >= 2
        BY <1>1, <1>4, <3>3
      <4>2. Last(stack).start \in Nat
        <5>1. Len(stack) \in 1..Len(stack) /\ stack \in Seq(Fragments)
          BY <1>1, <4>1, LenProperties DEF Stacks, Fragments
        <5>2. Last(stack) \in Fragments
          BY <5>1, ElementOfSeq DEF Last
        <5> QED BY <5>2 DEF Fragments
      <4> QED BY <3>2, <4>1, <4>2
    <3>5. new \in Stacks /\ Len(new) = Len(stack) /\ Last(new).start = n + 1
      <4>1. PICK l \in Nat : l = last[id]
        BY <3>2
      <4>2. Last(stack).start # l /\ stack \in Stacks /\ Len(stack) >= 2
        BY <1>1, <3>4, <4>1
      <4> DEFINE new2 == Accessed(stack, l, size, n, beforeLast)
      <4>3. new2 \in Stacks /\ Len(new2) = Len(stack) /\ Last(new2).start = n + 1
        BY <4>2, AccessedAgain
      <4> QED BY <4>1, <4>3
    <3> QED BY <1>1, <3>1, <3>5
  <2> QED BY <2>1, <2>2
<1> HIDE DEF new
<1>6. ASSUME NEW i \in laterIds
      PROVE  later[i] < n + 1 /\ later[i] < Last(new).start
  <2>1. CASE i = id
    BY <1>2, <1>5, <2>1
  <2>2. CASE i # id
    <3>1. i \in ids /\ later[i] = last[i] /\ last[i] \in Nat
      BY <1>1, <1>2, <2>2
    <3>2. last[i] < n
      BY <1>1, <3>1
    <3> HIDE DEF ids, laterIds
    <3> QED BY <1>5, <3>1, <3>2
  <2> QED BY <2>1, <2>2
<1>7. StackCounts(new, later, n + 1)
  BY <1>2, <1>4, <1>5, <1>6 DEF StackCounts
<1> QED BY <1>7 DEF new, later

----------------------------------------------------------------------------
(***************************************************************************)
(* The second inductive invariant: every server is a consistent cache, and *)
(* every stack counts the files of its virtual node.                       *)
(***************************************************************************)

Counts == [requests : Nat, hits : Nat, misses : Nat]

Kept ==
  /\ sampling \in SampleRates /\ hashOf \in HashFunctions
  /\ caches_list \in [Servers -> LRUCaches]
  /\ \A s \in Servers : CacheInv(caches_list[s])
  /\ counts \in [Servers -> Counts]
  /\ frag_arrs \in [Vnodes -> Stacks]
  /\ last_access \in [Vnodes -> [Ids -> {NoAccess} \cup Nat]]
  /\ \A v \in Vnodes : StackCounts(frag_arrs[v], last_access[v], Len(window))
  /\ \E T : window \in Seq(T)
  /\ Len(window) < window_size
  /\ count \in 0..MaxReqs /\ hits \in 0..count

\* The second invariant holds initially.
LEMMA InitKept == Init => Kept
<1> SUFFICES ASSUME Init PROVE Kept
  OBVIOUS
<1>0. cache_size \in Nat /\ window_size \in Nat \ {0} /\ MaxReqs \in Nat
  BY ParametersAssumption
<1>1. /\ caches_list \in [Servers -> LRUCaches]
      /\ \A s \in Servers : CacheInv(caches_list[s])
  <2>1. CacheInv(SetSize(NewCache, cache_size))
    BY <1>0, NewCacheInv, CacheInvConsistent, SetSizeInv
  <2> QED BY <2>1 DEF Init, CacheInv
<1>2. counts \in [Servers -> Counts]
  BY DEF Init, NoCounts, Counts
<1>3. window = <<>> /\ Len(window) = 0 /\ window \in Seq({})
  BY DEF Init
<1>4. \A v \in Vnodes : StackCounts(frag_arrs[v], last_access[v], Len(window))
  BY <1>3, FreshCounts DEF Init
<1>5. /\ frag_arrs \in [Vnodes -> Stacks]
      /\ last_access \in [Vnodes -> [Ids -> {NoAccess} \cup Nat]]
  BY FreshCounts DEF Init, StackCounts
<1>6. count \in 0..MaxReqs /\ hits \in 0..count
  BY <1>0 DEF Init
<1>7. \E T : window \in Seq(T)
  BY <1>3, Zenon
<1> QED BY <1>0, <1>1, <1>2, <1>3, <1>4, <1>5, <1>6, <1>7 DEF Init, Kept

\* The server asked stays a consistent cache, and the others as they are.
LEMMA ServeKept ==
  ASSUME Kept, NEW o \in Lines, Serve(o)
  PROVE  /\ sampling' \in SampleRates /\ hashOf' \in HashFunctions
         /\ caches_list' \in [Servers -> LRUCaches]
         /\ \A s \in Servers : CacheInv(caches_list'[s])
         /\ count' \in 0..MaxReqs /\ hits' \in 0..count'
<1>1. o \in Objects
  BY LinesAssumption
<1> DEFINE s == Destination(o)
<1>2. ASSUME NEW c, CacheInv(c), NEW ls, ls = [caches_list EXCEPT ![s] = c]
      PROVE  ls \in [Servers -> LRUCaches] /\ \A t \in Servers : CacheInv(ls[t])
  <2> HIDE DEF s
  <2> QED BY <1>2 DEF Kept, CacheInv
<1>3. ASSUME NEW c, CacheInv(c)
      PROVE  /\ CacheInv(Lookup(c, o))
             /\ ~IsHit(c, o) => CacheInv(Admit(Lookup(c, o), o))
  <2>1. CacheInv(Lookup(c, o)) /\ Lookup(c, o).map = c.map
    BY <1>1, <1>3, LookupInv
  <2>2. ASSUME ~IsHit(c, o) PROVE CacheInv(Admit(Lookup(c, o), o))
    BY <1>1, <2>1, <2>2, AdmitInv DEF IsHit
  <2> QED BY <2>1, <2>2
<1>6. /\ sampling' = sampling /\ hashOf' = hashOf
      /\ count < MaxReqs /\ count' = count + 1
      /\ hits' = hits + 1 \/ hits' = hits
  BY DEF Serve
<1>7. /\ sampling' \in SampleRates /\ hashOf' \in HashFunctions
      /\ count' \in 0..MaxReqs /\ hits' \in 0..count'
  <2>1. MaxReqs \in Nat
    BY ParametersAssumption
  <2> QED BY <1>6, <2>1 DEF Kept
<1>4. CASE s \notin Servers
  <2>1. caches_list' = caches_list
    BY <1>4 DEF Serve, Kept
  <2> QED BY <1>7, <2>1 DEF Kept
<1>5. CASE s \in Servers
  <2>1. CacheInv(caches_list[s])
    BY <1>5 DEF Kept
  <2>2. \E c : CacheInv(c) /\ caches_list' = [caches_list EXCEPT ![s] = c]
    BY <1>3, <1>5, <2>1 DEF Serve, Kept
  <2> QED BY <1>2, <1>7, <2>2
<1> QED BY <1>4, <1>5

\* The request is counted for one server.
LEMMA CountedKept ==
  ASSUME counts \in [Servers -> Counts], NEW o
  PROVE  Counted(o) \in [Servers -> Counts]
<1> DEFINE s == Destination(o)
           h == IF IsHit(caches_list[s], o) THEN 1 ELSE 0
           m == IF IsHit(caches_list[s], o) THEN 0 ELSE 1
<1>1. h \in {0, 1} /\ m \in {0, 1}
  OBVIOUS
<1>2. Counted(o) = [counts EXCEPT ![s].requests = @ + 1, ![s].hits = @ + h,
                                  ![s].misses = @ + m]
  BY DEF Counted
<1> HIDE DEF s, h, m
<1>3. h \in Nat /\ m \in Nat
  BY <1>1
<1>4. CASE s \in Servers
  <2>1. PICK c \in Counts : c = counts[s]
    BY <1>4
  <2> DEFINE e == [requests |-> c.requests + 1, hits |-> c.hits + h,
                   misses |-> c.misses + m]
  <2>2. e \in Counts
    BY <1>3 DEF Counts
  <2>3. Counted(o) = [counts EXCEPT ![s] = e]
    BY <1>2, <1>4, <2>1 DEF Counts
  <2> HIDE DEF e
  <2> QED BY <2>2, <2>3
<1>5. CASE s \notin Servers
  BY <1>2, <1>5
<1> QED BY <1>4, <1>5

\* reset() leaves numbers.
LEMMA HalvedKept ==
  ASSUME NEW n \in [Servers -> Counts]
  PROVE  Halved(n) \in [Servers -> Counts]
<1>1. ASSUME NEW s \in Servers
      PROVE  [NoCounts EXCEPT !.requests = n[s].requests \div 2] \in Counts
  <2>1. n[s].requests \in Nat
    BY DEF Counts
  <2>2. n[s].requests \div 2 \in Nat
    BY <2>1
  <2> QED BY <2>2 DEF NoCounts, Counts
<1> QED BY <1>1 DEF Halved

\* What a sampled request makes of the stacks and of the last accesses.
StackedAt(o, beforeLast) ==
  [frag_arrs EXCEPT ![ServedVnode(o)] = Stacked(o, beforeLast)]
AccessedAt(o) == [last_access EXCEPT ![ServedVnode(o)][o.id] = Len(window)]

\* The sampled request is recorded at the end of the window, and the stack of
\* its virtual node counts it there.
LEMMA SampledKept ==
  ASSUME Kept, NEW o \in Lines, NEW beforeLast
  PROVE  /\ StackedAt(o, beforeLast) \in [Vnodes -> Stacks]
         /\ AccessedAt(o) \in [Vnodes -> [Ids -> {NoAccess} \cup Nat]]
         /\ \A v \in Vnodes :
              StackCounts(StackedAt(o, beforeLast)[v], AccessedAt(o)[v],
                          Len(Windowed(o, beforeLast)))
         /\ \E T : Windowed(o, beforeLast) \in Seq(T)
         /\ Len(Windowed(o, beforeLast)) = Len(window) + 1
<1> DEFINE n == Len(window)
           u == ServedVnode(o)
           arrs == StackedAt(o, beforeLast)
           accesses == AccessedAt(o)
           w == Windowed(o, beforeLast)
<1>1. o.id \in Ids /\ o.size \in Nat
  BY LinesAssumption DEF Objects
<1>2. PICK T : window \in Seq(T)
  BY DEF Kept
<1>3. n \in Nat /\ \E S : w \in Seq(S) /\ Len(w) = n + 1
  <2>1. PICK e : w = Append(window, e)
    BY DEF Windowed
  <2>2. window \in Seq(T \cup {e}) /\ e \in T \cup {e}
    BY <1>2
  <2>3. w \in Seq(T \cup {e}) /\ Len(w) = Len(window) + 1
    BY <2>1, <2>2, AppendProperties
  <2> QED BY <1>2, <2>3
<1>4. /\ frag_arrs \in [Vnodes -> Stacks]
      /\ last_access \in [Vnodes -> [Ids -> {NoAccess} \cup Nat]]
      /\ \A v \in Vnodes : StackCounts(frag_arrs[v], last_access[v], n)
  BY DEF Kept
<1> HIDE DEF n, u, w
<1>9. /\ arrs = [frag_arrs EXCEPT ![u] = Stacked(o, beforeLast)]
      /\ accesses = [last_access EXCEPT ![u] = [last_access[u] EXCEPT ![o.id] = n]]
  <2>1. arrs = [frag_arrs EXCEPT ![u] = Stacked(o, beforeLast)]
    BY DEF StackedAt, u
  <2>2. accesses = [last_access EXCEPT ![u][o.id] = n]
    BY DEF AccessedAt, n, u
  <2> QED BY <2>1, <2>2
<1>10. Stacked(o, beforeLast) = Accessed(frag_arrs[u], last_access[u][o.id],
                                         o.size, n, beforeLast)
  BY DEF Stacked, n, u
<1> HIDE DEF arrs, accesses
<1>5. ASSUME NEW v \in Vnodes
      PROVE  /\ arrs[v] = IF v = u THEN Accessed(frag_arrs[v], last_access[v][o.id],
                                                 o.size, n, beforeLast)
                          ELSE frag_arrs[v]
             /\ accesses[v] = IF v = u THEN [last_access[v] EXCEPT ![o.id] = n]
                              ELSE last_access[v]
             /\ StackCounts(arrs[v], accesses[v], n + 1)
  <2>1. arrs[v] = IF v = u THEN Accessed(frag_arrs[v], last_access[v][o.id],
                                         o.size, n, beforeLast)
                  ELSE frag_arrs[v]
    BY <1>4, <1>9, <1>10
  <2>2. accesses[v] = IF v = u THEN [last_access[v] EXCEPT ![o.id] = n]
                      ELSE last_access[v]
    BY <1>4, <1>9
  <2>3. CASE v = u
    <3>1. StackCounts(frag_arrs[v], last_access[v], n) /\ n \in Nat
      BY <1>3, <1>4
    <3>2. StackCounts(Accessed(frag_arrs[v], last_access[v][o.id], o.size, n, beforeLast),
                      [last_access[v] EXCEPT ![o.id] = n], n + 1)
      BY <1>1, <3>1, CountsAccessed
    <3>3. /\ arrs[v] = Accessed(frag_arrs[v], last_access[v][o.id], o.size, n, beforeLast)
          /\ accesses[v] = [last_access[v] EXCEPT ![o.id] = n]
      BY <2>1, <2>2, <2>3
    <3>4. StackCounts(arrs[v], accesses[v], n + 1)
      BY <3>2, <3>3, Zenon
    <3> QED BY <2>1, <2>2, <3>4, Zenon
  <2>4. CASE v # u
    BY <1>3, <1>4, <2>1, <2>2, <2>4, CountsLater
  <2> QED BY <2>1, <2>2, <2>3, <2>4
<1>6. arrs \in [Vnodes -> Stacks]
  <2>1. arrs = [v \in Vnodes |-> arrs[v]]
    BY <1>4, <1>9
  <2>2. \A v \in Vnodes : arrs[v] \in Stacks
    BY <1>5 DEF StackCounts
  <2> QED BY <2>1, <2>2
<1>7. accesses \in [Vnodes -> [Ids -> {NoAccess} \cup Nat]]
  <2>1. accesses = [v \in Vnodes |-> accesses[v]]
    BY <1>4, <1>9
  <2>2. \A v \in Vnodes : accesses[v] \in [Ids -> {NoAccess} \cup Nat]
    BY <1>5 DEF StackCounts
  <2> QED BY <2>1, <2>2
<1>8. /\ Len(w) = n + 1 /\ \E S : w \in Seq(S)
  BY <1>3
<1> QED BY <1>5, <1>6, <1>7, <1>8 DEF n, w, arrs, accesses

\* Every action keeps the second invariant.
LEMMA NextKept ==
  ASSUME Kept, [Next]_vars
  PROVE  Kept'
<1>0. window_size \in Nat \ {0}
  BY ParametersAssumption
<1>1. CASE UNCHANGED vars
  BY <1>1 DEF vars, Kept, StackCounts
<1>2. ASSUME NEW o \in Lines, RequestPlain(o) PROVE Kept'
  <2>1. /\ Serve(o) /\ counts' = Counted(o)
        /\ UNCHANGED <<frag_arrs, last_access, window>>
    BY <1>2 DEF RequestPlain
  <2>2. /\ sampling' \in SampleRates /\ hashOf' \in HashFunctions
        /\ caches_list' \in [Servers -> LRUCaches]
        /\ \A s \in Servers : CacheInv(caches_list'[s])
        /\ count' \in 0..MaxReqs /\ hits' \in 0..count'
    BY <2>1, ServeKept
  <2>3. counts' \in [Servers -> Counts]
    BY <2>1, CountedKept DEF Kept
  <2> QED BY <2>1, <2>2, <2>3 DEF Kept
<1>3. ASSUME NEW o \in Lines, RequestSampled(o) PROVE Kept'
  <2>1. /\ Serve(o) /\ counts' = Counted(o) /\ Len(window) + 1 < window_size
        /\ \E beforeLast : /\ frag_arrs' = StackedAt(o, beforeLast)
                            /\ window' = Windowed(o, beforeLast)
        /\ last_access' = AccessedAt(o)
    BY <1>3 DEF RequestSampled, StackedAt, AccessedAt
  <2>2. /\ sampling' \in SampleRates /\ hashOf' \in HashFunctions
        /\ caches_list' \in [Servers -> LRUCaches]
        /\ \A s \in Servers : CacheInv(caches_list'[s])
        /\ count' \in 0..MaxReqs /\ hits' \in 0..count'
    BY <2>1, ServeKept
  <2>3. counts' \in [Servers -> Counts]
    BY <2>1, CountedKept DEF Kept
  <2>4. /\ frag_arrs' \in [Vnodes -> Stacks]
        /\ last_access' \in [Vnodes -> [Ids -> {NoAccess} \cup Nat]]
        /\ \A v \in Vnodes : StackCounts(frag_arrs'[v], last_access'[v], Len(window'))
        /\ \E T : window' \in Seq(T)
        /\ Len(window') = Len(window) + 1
    BY <2>1, SampledKept
  <2>5. Len(window') < window_size
    BY <2>1, <2>4
  <2> QED BY <2>2, <2>3, <2>4, <2>5 DEF Kept
<1>4. ASSUME NEW o \in Lines, RequestUpdate(o) PROVE Kept'
  <2>1. /\ Serve(o) /\ counts' = Halved(Counted(o))
        /\ frag_arrs' = [v \in Vnodes |-> FreshStack]
        /\ last_access' = [v \in Vnodes |-> [id \in Ids |-> NoAccess]]
        /\ window' = <<>>
    BY <1>4 DEF RequestUpdate
  <2>2. /\ sampling' \in SampleRates /\ hashOf' \in HashFunctions
        /\ caches_list' \in [Servers -> LRUCaches]
        /\ \A s \in Servers : CacheInv(caches_list'[s])
        /\ count' \in 0..MaxReqs /\ hits' \in 0..count'
    BY <2>1, ServeKept
  <2>3. counts' \in [Servers -> Counts]
    BY <2>1, CountedKept, HalvedKept DEF Kept
  <2>4. Len(window') = 0 /\ window' \in Seq({})
    BY <2>1
  <2>5. \A v \in Vnodes : StackCounts(frag_arrs'[v], last_access'[v], Len(window'))
    BY <2>1, <2>4, FreshCounts
  <2>6. /\ frag_arrs' \in [Vnodes -> Stacks]
        /\ last_access' \in [Vnodes -> [Ids -> {NoAccess} \cup Nat]]
    BY <2>1, FreshCounts DEF StackCounts
  <2>7. \E T : window' \in Seq(T)
    BY <2>4, Zenon
  <2>8. Len(window') < window_size
    BY <1>0, <2>4
  <2> QED BY <2>2, <2>3, <2>5, <2>6, <2>7, <2>8 DEF Kept
<1> QED BY <1>1, <1>2, <1>3, <1>4 DEF Next

----------------------------------------------------------------------------
(***************************************************************************)
(* The stack distances.                                                    *)
(***************************************************************************)

\* Each file has one size: "distinct files" means nothing otherwise.
SizesFixed == \A a, b \in Lines : a.id = b.id => a.size = b.size

FileOf(q) == [id |-> q.id, size |-> q.size]

\* The files requested of v after position p of the window s.
FilesAfter(s, v, p) ==
  {FileOf(s[k]) : k \in {j \in DOMAIN s : j > p /\ s[j].vnode = v}}

\* A window of n requests.
Requests(s, n) == /\ n \in Nat /\ DOMAIN s = 1..n
                  /\ \A k \in 1..n : FileOf(s[k]) \in Lines

\* The last accesses are what the map says.
LastAccesses(last, s, v) ==
  /\ last \in [Ids -> {NoAccess} \cup Nat]
  /\ \A id \in Ids :
       LET ks == {k \in DOMAIN s : s[k].vnode = v /\ s[k].id = id}
       IN  IF ks = {} THEN last[id] = NoAccess
           ELSE last[id] + 1 \in ks /\ \A k \in ks : k <= last[id] + 1

\* A fragment starts at 0 and right after each last access.
Boundaries(stack, last) ==
  /\ stack[1].start = 0
  /\ \A i, j \in DOMAIN stack : i < j => stack[i].start < stack[j].start
  /\ \A i \in 2..Len(stack) :
       \E id \in Ids : last[id] # NoAccess /\ stack[i].start = last[id] + 1
  /\ \A id \in Ids : last[id] # NoAccess =>
       \E i \in 2..Len(stack) : stack[i].start = last[id] + 1

\* Each fragment has the distance of the position it starts at.
Measured(stack, s, v) ==
  \A i \in DOMAIN stack :
    stack[i].bytes = SizeSum(FilesAfter(s, v, stack[i].start))

\* The files after a position are finitely many, and have sizes.
LEMMA FilesSized ==
  ASSUME NEW s, NEW n, Requests(s, n), NEW v, NEW p
  PROVE  Sized(FilesAfter(s, v, p))
<1> DEFINE D == {j \in DOMAIN s : j > p /\ s[j].vnode = v}
           F == FilesAfter(s, v, p)
           f == [k \in D |-> FileOf(s[k])]
<1>1. D \in SUBSET (1..n) /\ n \in Nat
  BY DEF Requests
<1>2. IsFiniteSet(D)
  BY <1>1, CardInterval, FS_Subset
<1>3. f \in Surjection(D, F)
  <2>1. F = {FileOf(s[k]) : k \in D}
    BY DEF FilesAfter
  <2> HIDE DEF D, F
  <2> QED BY <2>1 DEF Surjection
<1>4. IsFiniteSet(F)
  <2> HIDE DEF D, F, f
  <2> QED BY <1>2, <1>3, FS_Surjection
<1>5. \A x \in F : x.size \in Nat
  <2>1. \A x \in F : x \in Lines
    BY <1>1 DEF FilesAfter, Requests
  <2> QED BY <2>1, LinesAssumption DEF Objects
<1> QED BY <1>4, <1>5 DEF Sized

\* A file was requested after p exactly if its last access was.
LEMMA FileSeen ==
  ASSUME SizesFixed, NEW s, NEW n, Requests(s, n), NEW v, NEW last,
         LastAccesses(last, s, v), NEW o \in Lines, NEW p \in Nat
  PROVE  /\ FileOf(o) \in FilesAfter(s, v, p)
              <=> last[o.id] # NoAccess /\ p <= last[o.id]
         /\ last[o.id] # NoAccess => last[o.id] \in Nat /\ last[o.id] < n
<1> DEFINE ks == {k \in DOMAIN s : s[k].vnode = v /\ s[k].id = o.id}
           l == last[o.id]
<1>1. o.id \in Ids /\ ks \in SUBSET (1..n) /\ n \in Nat
  BY LinesAssumption DEF Objects, Requests
<1>2. IF ks = {} THEN l = NoAccess
      ELSE l + 1 \in ks /\ \A k \in ks : k <= l + 1
  BY <1>1 DEF LastAccesses
<1>3. FileOf(o) = o
  BY LinesAssumption DEF Objects, FileOf
<1>4. \A k \in ks : FileOf(s[k]) = FileOf(o)
  <2> SUFFICES ASSUME NEW k \in ks PROVE FileOf(s[k]) = FileOf(o)
    OBVIOUS
  <2>1. FileOf(s[k]) \in Lines /\ FileOf(s[k]).id = o.id
    BY <1>1 DEF Requests, FileOf
  <2>2. FileOf(s[k]).size = o.size
    BY <2>1 DEF SizesFixed
  <2> QED BY <2>1, <2>2 DEF FileOf
<1>5. \A k \in 1..n : s[k].vnode = v /\ FileOf(s[k]) = FileOf(o) => k \in ks
  <2>1. \A k \in 1..n : FileOf(s[k]) = FileOf(o) => s[k].id = o.id
    BY DEF FileOf
  <2> QED BY <2>1 DEF Requests
<1>6. \A k \in ks : s[k].vnode = v /\ k \in DOMAIN s
  OBVIOUS
<1> HIDE DEF ks, l
<1>7. FileOf(o) \in FilesAfter(s, v, p) <=> \E k \in ks : k > p
  <2>1. ASSUME FileOf(o) \in FilesAfter(s, v, p) PROVE \E k \in ks : k > p
    <3>1. PICK k \in DOMAIN s : k > p /\ s[k].vnode = v /\ FileOf(o) = FileOf(s[k])
      BY <2>1 DEF FilesAfter
    <3> QED BY <1>5, <3>1 DEF Requests
  <2>2. ASSUME NEW k \in ks, k > p PROVE FileOf(o) \in FilesAfter(s, v, p)
    BY <1>4, <1>6, <2>2 DEF FilesAfter
  <2> QED BY <2>1, <2>2
<1>8. CASE ks = {}
  BY <1>2, <1>7, <1>8 DEF l
<1>9. CASE ks # {}
  <2>1. l + 1 \in ks /\ \A k \in ks : k <= l + 1
    BY <1>2, <1>9
  <2>2. PICK m \in 1..n : m = l + 1
    BY <1>1, <2>1
  <2>3. (\E k \in ks : k > p) <=> m > p
    <3>1. m \in ks /\ \A k \in ks : k <= m
      BY <2>1, <2>2
    <3> QED BY <1>1, <3>1
  <2>4. last[o.id] + 1 = m
    BY <2>2 DEF l
  <2>5. last[o.id] \in Int
    BY <1>1 DEF LastAccesses, NoAccess
  <2>6. /\ last[o.id] \in Nat /\ last[o.id] < n /\ last[o.id] # NoAccess
        /\ m > p <=> p <= last[o.id]
    BY <1>1, <2>4, <2>5 DEF NoAccess
  <2> QED BY <1>7, <2>3, <2>6
<1> QED BY <1>8, <1>9

\* The window t is the window s of n requests and the request q.
Grown(s, t, n, q) == /\ DOMAIN t = 1..(n + 1) /\ t[n + 1] = q
                     /\ \A k \in 1..n : t[k] = s[k]

\* What a request adds to the files after a position.
LEMMA FilesGrown ==
  ASSUME NEW s, NEW n, Requests(s, n), NEW t, NEW q, Grown(s, t, n, q),
         NEW v, NEW p \in 0..n
  PROVE  /\ q.vnode = v =>
              FilesAfter(t, v, p) = FilesAfter(s, v, p) \cup {FileOf(q)}
         /\ q.vnode # v => FilesAfter(t, v, p) = FilesAfter(s, v, p)
<1> DEFINE D == {j \in DOMAIN s : j > p /\ s[j].vnode = v}
           E == {j \in DOMAIN t : j > p /\ t[j].vnode = v}
<1>1. /\ n \in Nat /\ DOMAIN s = 1..n /\ DOMAIN t = 1..(n + 1) /\ t[n + 1] = q
      /\ \A k \in 1..n : t[k] = s[k]
  BY DEF Requests, Grown
<1>2. 1..(n + 1) = 1..n \cup {n + 1} /\ n + 1 > p /\ n + 1 \notin 1..n
  BY <1>1
<1>3. /\ D \subseteq 1..n
      /\ q.vnode = v => E = D \cup {n + 1}
      /\ q.vnode # v => E = D
  BY <1>1, <1>2
<1>4. /\ FilesAfter(s, v, p) = {FileOf(s[k]) : k \in D}
      /\ FilesAfter(t, v, p) = {FileOf(t[k]) : k \in E}
  BY DEF FilesAfter
<1> HIDE DEF D, E
<1>5. {FileOf(t[k]) : k \in D} = {FileOf(s[k]) : k \in D}
  BY <1>1, <1>3
<1>6. ASSUME q.vnode = v
      PROVE  {FileOf(t[k]) : k \in E} = {FileOf(s[k]) : k \in D} \cup {FileOf(q)}
  <2>1. E = D \cup {n + 1}
    BY <1>3, <1>6
  <2>2. {FileOf(t[k]) : k \in E} = {FileOf(t[k]) : k \in D} \cup {FileOf(t[n + 1])}
    BY <2>1
  <2> QED BY <1>1, <1>5, <2>2
<1>7. ASSUME q.vnode # v
      PROVE  {FileOf(t[k]) : k \in E} = {FileOf(s[k]) : k \in D}
  <2>1. E = D
    BY <1>3, <1>7
  <2> QED BY <1>5, <2>1
<1> QED BY <1>4, <1>6, <1>7

\* Nothing is requested after the last request.
LEMMA FilesAtEnd ==
  ASSUME NEW s, NEW n, Requests(s, n), NEW v
  PROVE  SizeSum(FilesAfter(s, v, n)) = 0
<1>1. n \in Nat /\ \A j \in DOMAIN s : ~(j > n)
  BY DEF Requests
<1>2. FilesAfter(s, v, n) = {}
  BY <1>1 DEF FilesAfter
<1>3. Sized({})
  BY FS_EmptySet DEF Sized
<1> QED BY <1>2, <1>3, SizeSumNat

\* A request is one more, and the window stays one of requests.
LEMMA RequestsGrown ==
  ASSUME NEW s, NEW n, Requests(s, n), NEW t, NEW q, Grown(s, t, n, q),
         FileOf(q) \in Lines
  PROVE  Requests(t, n + 1)
<1>1. n \in Nat /\ \A k \in 1..(n + 1) : k \in 1..n \/ k = n + 1
  BY DEF Requests
<1>2. \A k \in 1..(n + 1) : FileOf(t[k]) \in Lines
  BY <1>1 DEF Requests, Grown
<1> QED BY <1>1, <1>2 DEF Requests, Grown

\* The distances up to the last access of the file stay; those from there on
\* grow by its size.
LEMMA DistanceGrown ==
  ASSUME SizesFixed, NEW s, NEW n, Requests(s, n), NEW t, NEW q,
         Grown(s, t, n, q), NEW v, q.vnode = v, NEW o \in Lines, FileOf(q) = o,
         NEW last, LastAccesses(last, s, v), NEW p \in 0..n
  PROVE  /\ last[o.id] # NoAccess /\ p <= last[o.id] =>
              SizeSum(FilesAfter(t, v, p)) = SizeSum(FilesAfter(s, v, p))
         /\ ~(last[o.id] # NoAccess /\ p <= last[o.id]) =>
              SizeSum(FilesAfter(t, v, p)) = SizeSum(FilesAfter(s, v, p)) + o.size
<1> DEFINE F == FilesAfter(s, v, p)
           G == FilesAfter(t, v, p)
           seen == last[o.id] # NoAccess /\ p <= last[o.id]
<1>1. G = F \cup {o}
  BY FilesGrown
<1>2. FileOf(o) = o /\ o.size \in Nat
  BY LinesAssumption DEF Objects, FileOf
<1>3. o \in F <=> seen
  <2>1. p \in Nat
    BY DEF Requests
  <2> QED BY <1>2, <2>1, FileSeen
<1>4. Sized(F)
  BY FilesSized
<1> HIDE DEF F, G
<1>5. CASE o \in F
  <2>1. G = F
    BY <1>1, <1>5
  <2> QED BY <1>3, <1>5, <2>1 DEF F, G
<1>6. CASE o \notin F
  <2>1. SizeSum(F \cup {o}) = SizeSum(F) + o.size
    BY <1>2, <1>4, <1>6, SizeSumAdd
  <2> QED BY <1>1, <1>3, <1>6, <2>1 DEF F, G
<1> QED BY <1>5, <1>6

\* The map of last accesses after a request.
LEMMA LastGrown ==
  ASSUME NEW s, NEW n, Requests(s, n), NEW t, NEW q, Grown(s, t, n, q),
         NEW v, NEW last, LastAccesses(last, s, v), q.id \in Ids
  PROVE  /\ q.vnode = v => LastAccesses([last EXCEPT ![q.id] = n], t, v)
         /\ q.vnode # v => LastAccesses(last, t, v)
<1>1. /\ n \in Nat /\ DOMAIN s = 1..n /\ DOMAIN t = 1..(n + 1) /\ t[n + 1] = q
      /\ \A k \in 1..n : t[k] = s[k]
      /\ \A k \in 1..(n + 1) : k \in 1..n \/ k = n + 1
      /\ n + 1 \in 1..(n + 1) /\ \A k \in 1..n : k \in 1..(n + 1)
  BY DEF Requests, Grown
<1> DEFINE Of(id) == {k \in DOMAIN s : s[k].vnode = v /\ s[k].id = id}
           New(id) == {k \in DOMAIN t : t[k].vnode = v /\ t[k].id = id}
<1>2. /\ last \in [Ids -> {NoAccess} \cup Nat]
      /\ \A id \in Ids : IF Of(id) = {} THEN last[id] = NoAccess
                         ELSE last[id] + 1 \in Of(id) /\ \A k \in Of(id) : k <= last[id] + 1
  BY DEF LastAccesses
<1>3. \A id \in Ids :
        New(id) = IF q.vnode = v /\ id = q.id THEN Of(id) \cup {n + 1} ELSE Of(id)
  BY <1>1
<1>4. \A id \in Ids : Of(id) \subseteq 1..n
  BY <1>1
<1> HIDE DEF Of, New
<1>5. ASSUME q.vnode = v
      PROVE  LastAccesses([last EXCEPT ![q.id] = n], t, v)
  <2> DEFINE later == [last EXCEPT ![q.id] = n]
  <2>1. /\ later \in [Ids -> {NoAccess} \cup Nat]
        /\ later[q.id] = n /\ \A id \in Ids \ {q.id} : later[id] = last[id]
    BY <1>1, <1>2
  <2> HIDE DEF later
  <2>2. ASSUME NEW id \in Ids
        PROVE  IF New(id) = {} THEN later[id] = NoAccess
               ELSE later[id] + 1 \in New(id) /\ \A k \in New(id) : k <= later[id] + 1
    <3>1. CASE id = q.id
      <4>1. New(id) = Of(id) \cup {n + 1} /\ later[id] = n
        BY <1>3, <1>5, <2>1, <3>1
      <4>2. \A k \in Of(id) : k <= n + 1
        BY <1>1, <1>4
      <4>3. n + 1 <= n + 1
        BY <1>1
      <4> QED BY <4>1, <4>2, <4>3
    <3>2. CASE id # q.id
      BY <1>2, <1>3, <2>1, <3>2
    <3> QED BY <3>1, <3>2
  <2>3. LastAccesses(later, t, v)
    BY <2>1, <2>2 DEF LastAccesses, New
  <2> QED BY <2>3 DEF later
<1>6. ASSUME q.vnode # v PROVE LastAccesses(last, t, v)
  <2>1. \A id \in Ids : New(id) = Of(id)
    BY <1>3, <1>6
  <2>2. \A id \in Ids :
          IF New(id) = {} THEN last[id] = NoAccess
          ELSE last[id] + 1 \in New(id) /\ \A k \in New(id) : k <= last[id] + 1
    BY <1>2, <2>1
  <2> QED BY <1>2, <2>2 DEF LastAccesses, New
<1> QED BY <1>5, <1>6

\* The cells of a stack.
LEMMA StackCells ==
  ASSUME NEW stack \in Stacks
  PROVE  /\ Len(stack) \in Nat /\ DOMAIN stack = 1..Len(stack)
         /\ \A i \in 1..Len(stack) : stack[i].start \in Nat
<1>1. Len(stack) \in Nat /\ DOMAIN stack = 1..Len(stack)
  BY LenProperties DEF Stacks
<1>2. \A i \in 1..Len(stack) : stack[i] \in [start : Nat, bytes : Nat]
  BY ElementOfSeq DEF Stacks
<1> QED BY <1>1, <1>2

\* A request of v has a last request for its file.
LEMMA LastRequest ==
  ASSUME NEW s, NEW n, Requests(s, n), NEW v, NEW last,
         LastAccesses(last, s, v), NEW k \in 1..n, s[k].vnode = v
  PROVE  /\ s[k].id \in Ids /\ last[s[k].id] # NoAccess
         /\ \E m \in 1..n : /\ m = last[s[k].id] + 1 /\ k <= m
                            /\ s[m].vnode = v /\ s[m].id = s[k].id
<1> DEFINE id == s[k].id
           ks == {j \in DOMAIN s : s[j].vnode = v /\ s[j].id = id}
<1>1. DOMAIN s = 1..n
  BY DEF Requests
<1>2. id \in Ids
  <2>1. FileOf(s[k]) \in Objects /\ FileOf(s[k]).id = id
    BY LinesAssumption DEF Requests, FileOf
  <2> QED BY <2>1 DEF Objects
<1>3. k \in ks
  BY <1>1
<1>4. IF ks = {} THEN last[id] = NoAccess
      ELSE last[id] + 1 \in ks /\ \A j \in ks : j <= last[id] + 1
  BY <1>2 DEF LastAccesses
<1>5. last[id] + 1 \in ks /\ k <= last[id] + 1
  BY <1>3, <1>4
<1>6. last[id] # NoAccess
  <2>1. n \in Nat /\ last[id] + 1 \in 1..n
    BY <1>1, <1>5 DEF Requests
  <2>2. last[id] \in Int
    BY <1>2 DEF LastAccesses, NoAccess
  <2> QED BY <2>1, <2>2 DEF NoAccess
<1> QED BY <1>1, <1>2, <1>5, <1>6

\* The fragments of v start inside the window.
LEMMA StartsInside ==
  ASSUME NEW s, NEW n, Requests(s, n), NEW v, NEW last,
         LastAccesses(last, s, v), NEW stack \in Stacks, Boundaries(stack, last)
  PROVE  \A i \in 1..Len(stack) : stack[i].start \in 0..n
<1>1. n \in Nat /\ DOMAIN s = 1..n /\ Len(stack) \in Nat
  BY StackCells DEF Requests
<1>2. \A i \in 1..Len(stack) : i = 1 \/ i \in 2..Len(stack)
  BY <1>1
<1>3. stack[1].start \in 0..n
  BY <1>1 DEF Boundaries
<1>4. ASSUME NEW i \in 2..Len(stack) PROVE stack[i].start \in 0..n
  <2>1. PICK id \in Ids : last[id] # NoAccess /\ stack[i].start = last[id] + 1
    BY DEF Boundaries
  <2>2. last[id] + 1 \in DOMAIN s
    BY <2>1 DEF LastAccesses
  <2> QED BY <1>1, <2>1, <2>2
<1> QED BY <1>2, <1>3, <1>4

\* A request for another virtual node leaves the distances as they are.
LEMMA OtherExact ==
  ASSUME NEW s, NEW n, Requests(s, n), NEW t, NEW q, Grown(s, t, n, q),
         NEW v, q.vnode # v, NEW last, LastAccesses(last, s, v),
         NEW stack \in Stacks, Boundaries(stack, last), Measured(stack, s, v)
  PROVE  Measured(stack, t, v)
<1>1. \A i \in 1..Len(stack) : stack[i].start \in 0..n
  BY StartsInside
<1>2. DOMAIN stack = 1..Len(stack)
  BY StackCells
<1>3. ASSUME NEW i \in 1..Len(stack)
      PROVE  FilesAfter(t, v, stack[i].start) = FilesAfter(s, v, stack[i].start)
  BY <1>1, FilesGrown
<1> QED BY <1>2, <1>3 DEF Measured

\* The first request for a file of v.
LEMMA FirstExact ==
  ASSUME SizesFixed, NEW s, NEW n, Requests(s, n), NEW t, NEW q,
         Grown(s, t, n, q), NEW v, q.vnode = v, NEW o \in Lines, FileOf(q) = o,
         NEW last, LastAccesses(last, s, v), last[o.id] = NoAccess,
         NEW stack \in Stacks, Len(stack) >= 1, Boundaries(stack, last),
         Measured(stack, s, v),
         NEW new \in Stacks, Len(new) = Len(stack) + 1,
         FirstCells(stack, new, o.size, n)
  PROVE  /\ Boundaries(new, [last EXCEPT ![o.id] = n])
         /\ Measured(new, t, v)
<1> DEFINE later == [last EXCEPT ![o.id] = n]
           N == Len(stack)
<1>1. /\ n \in Nat /\ N \in Nat /\ N >= 1 /\ Len(new) = N + 1
      /\ DOMAIN stack = 1..N /\ DOMAIN new = 1..(N + 1)
  BY StackCells DEF Requests
<1>2. o.id \in Ids /\ o.size \in Nat
  BY LinesAssumption DEF Objects
<1>3. /\ later[o.id] = n /\ \A id \in Ids : id # o.id => later[id] = last[id]
  BY <1>2 DEF LastAccesses
<1>4. \A i \in 1..N : stack[i].start \in 0..n
  BY StartsInside
<1>5. /\ new[N + 1] = [start |-> n + 1, bytes |-> 0]
      /\ \A i \in 1..N : /\ new[i].start = stack[i].start
                         /\ new[i].bytes = stack[i].bytes + o.size
  BY DEF FirstCells
<1>6. new[N + 1].start = n + 1 /\ new[N + 1].bytes = 0
  BY <1>5
<1> HIDE DEF later, N
<1>7. /\ \A i \in 1..(N + 1) : i \in 1..N \/ i = N + 1
      /\ \A i \in 2..(N + 1) : i \in 2..N \/ i = N + 1
      /\ \A i \in 2..N : i \in 1..N /\ i \in 2..(N + 1)
      /\ 1 \in 1..N /\ N + 1 \in 2..(N + 1)
      /\ \A i \in 1..N : i < N + 1 /\ ~(N + 1 < i)
  BY <1>1
<1>8. /\ stack[1].start = 0
      /\ \A i, j \in 1..N : i < j => stack[i].start < stack[j].start
      /\ \A i \in 2..N :
           \E id \in Ids : last[id] # NoAccess /\ stack[i].start = last[id] + 1
      /\ \A id \in Ids : last[id] # NoAccess =>
           \E i \in 2..N : stack[i].start = last[id] + 1
  BY <1>1 DEF Boundaries, N
<1>9. ASSUME NEW i \in 1..(N + 1), NEW j \in 1..(N + 1), i < j
      PROVE  new[i].start < new[j].start
  <2>1. i \in 1..N
    BY <1>1, <1>9
  <2>2. CASE j \in 1..N
    BY <1>5, <1>8, <1>9, <2>1, <2>2
  <2>3. CASE j = N + 1
    <3>1. new[i].start \in 0..n /\ new[j].start = n + 1
      BY <1>4, <1>5, <1>6, <2>1, <2>3 DEF N
    <3> QED BY <1>1, <3>1
  <2> QED BY <1>7, <2>2, <2>3
<1>10. ASSUME NEW i \in 2..(N + 1)
       PROVE  \E id \in Ids : later[id] # NoAccess /\ new[i].start = later[id] + 1
  <2>1. CASE i \in 2..N
    <3>1. PICK id \in Ids : last[id] # NoAccess /\ stack[i].start = last[id] + 1
      BY <1>8, <2>1
    <3>2. id # o.id /\ new[i].start = stack[i].start
      BY <1>5, <1>7, <2>1, <3>1
    <3> QED BY <1>3, <3>1, <3>2
  <2>2. CASE i = N + 1
    BY <1>1, <1>2, <1>3, <1>6, <2>2 DEF NoAccess
  <2> QED BY <1>7, <2>1, <2>2
<1>11. ASSUME NEW id \in Ids, later[id] # NoAccess
       PROVE  \E i \in 2..(N + 1) : new[i].start = later[id] + 1
  <2>1. CASE id = o.id
    BY <1>3, <1>6, <1>7, <2>1
  <2>2. CASE id # o.id
    <3>1. later[id] = last[id]
      BY <1>3, <2>2
    <3>2. PICK i \in 2..N : stack[i].start = last[id] + 1
      BY <1>8, <1>11, <3>1
    <3> QED BY <1>5, <1>7, <3>1, <3>2
  <2> QED BY <2>1, <2>2
<1>12. Boundaries(new, later)
  <2>1. new[1].start = 0
    BY <1>5, <1>7, <1>8
  <2> QED BY <1>1, <1>9, <1>10, <1>11, <2>1 DEF Boundaries
<1>13. ASSUME NEW i \in 1..N
       PROVE  new[i].bytes = SizeSum(FilesAfter(t, v, new[i].start))
  <2>1. PICK p \in 0..n : p = stack[i].start
    BY <1>4 DEF N
  <2>2. SizeSum(FilesAfter(t, v, p)) = SizeSum(FilesAfter(s, v, p)) + o.size
    BY <2>1, DistanceGrown
  <2>3. stack[i].bytes = SizeSum(FilesAfter(s, v, p))
    BY <1>1, <2>1 DEF Measured, N
  <2> QED BY <1>5, <2>1, <2>2, <2>3
<1>14. new[N + 1].bytes = SizeSum(FilesAfter(t, v, new[N + 1].start))
  <2>1. Requests(t, n + 1)
    <3>1. FileOf(q) \in Lines
      OBVIOUS
    <3> QED BY <3>1, RequestsGrown
  <2> QED BY <1>6, <2>1, FilesAtEnd
<1>15. Measured(new, t, v)
  BY <1>1, <1>7, <1>13, <1>14 DEF Measured
<1> QED BY <1>12, <1>15 DEF later

\* After the fragment that starts at the last access of a file comes the one
\* that starts right after it.
LEMMA NextStarts ==
  ASSUME NEW last, NEW id \in Ids, NEW l \in Nat, l = last[id],
         NEW stack \in Stacks, Boundaries(stack, last), Found(stack, l),
         NEW beforeLast
  PROVE  LET next == Following(stack, l, beforeLast)
         IN  /\ next \in 2..Len(stack) /\ next - 1 \in 1..Len(stack)
             /\ stack[next - 1].start = l
             /\ stack[next].start = l + 1
<1> DEFINE k == CHOOSE i \in DOMAIN stack : stack[i].start = l
           next == Following(stack, l, beforeLast)
<1>1. /\ DOMAIN stack = 1..Len(stack) /\ Len(stack) \in Nat
      /\ \A i \in 1..Len(stack) : stack[i].start \in Nat
  BY StackCells
<1>2. k \in 1..Len(stack) /\ stack[k].start = l
  BY <1>1 DEF Found
<1>3. next = 1 + k
  BY DEF Following
<1> HIDE DEF k, next
<1>4. l \in Nat /\ \A i, j \in 1..Len(stack) : i < j => stack[i].start < stack[j].start
  BY <1>1 DEF Boundaries
<1>5. PICK i \in 2..Len(stack) : stack[i].start = l + 1
  BY DEF Boundaries, NoAccess
<1>6. i = k + 1
  <2>1. i \in 1..Len(stack) /\ i \in Int /\ k \in Int
    BY <1>1, <1>2
  <2>2. i # k
    BY <1>2, <1>4, <1>5
  <2>3. ~(i < k)
    <3>1. ASSUME i < k PROVE FALSE
      <4>1. stack[i].start < stack[k].start
        BY <1>2, <1>4, <2>1, <3>1
      <4> QED BY <1>2, <1>4, <1>5, <4>1
    <3> QED BY <3>1
  <2>4. ~(k + 1 < i)
    <3>1. ASSUME k + 1 < i PROVE FALSE
      <4>1. k + 1 \in 1..Len(stack) /\ k < k + 1
        BY <1>1, <1>2, <2>1, <3>1
      <4>2. stack[k].start < stack[k + 1].start
        BY <1>2, <1>4, <4>1
      <4>3. stack[k + 1].start < stack[i].start
        BY <1>4, <2>1, <3>1, <4>1
      <4>4. stack[k + 1].start \in Nat
        BY <1>1, <4>1
      <4> QED BY <1>2, <1>4, <1>5, <4>2, <4>3, <4>4
    <3> QED BY <3>1
  <2> QED BY <2>1, <2>2, <2>3, <2>4
<1>7. next = i /\ next - 1 = k
  BY <1>2, <1>3, <1>6
<1> QED BY <1>2, <1>5, <1>7 DEF next

\* Different files of v have different last accesses.
LEMMA LastsDiffer ==
  ASSUME NEW s, NEW v, NEW last, LastAccesses(last, s, v),
         NEW a \in Ids, NEW b \in Ids, a # b,
         last[a] # NoAccess, last[b] # NoAccess
  PROVE  last[a] + 1 # last[b] + 1
<1>1. \A id \in Ids : last[id] # NoAccess => s[last[id] + 1].id = id
  BY DEF LastAccesses
<1> QED BY <1>1

\* A further request for a file of v.
LEMMA AgainExact ==
  ASSUME SizesFixed, NEW s, NEW n, Requests(s, n), NEW t, NEW q,
         Grown(s, t, n, q), NEW v, q.vnode = v, NEW o \in Lines, FileOf(q) = o,
         NEW last, LastAccesses(last, s, v), last[o.id] # NoAccess,
         NEW stack \in Stacks, Boundaries(stack, last), Measured(stack, s, v),
         Found(stack, last[o.id]), NEW beforeLast,
         NEW new \in Stacks, Len(new) = Len(stack),
         AgainCells(stack, new, Following(stack, last[o.id], beforeLast),
                    o.size, n)
  PROVE  /\ Boundaries(new, [last EXCEPT ![o.id] = n])
         /\ Measured(new, t, v)
<1> DEFINE later == [last EXCEPT ![o.id] = n]
           N == Len(stack)
           l == last[o.id]
           next == Following(stack, l, beforeLast)
<1>1. o.id \in Ids /\ o.size \in Nat
  BY LinesAssumption DEF Objects
<1>2. l \in Nat /\ l < n
  <2>1. 0 \in Nat
    OBVIOUS
  <2> QED BY <2>1, FileSeen
<1>3. /\ next \in 2..N /\ next - 1 \in 1..N
      /\ stack[next - 1].start = l /\ stack[next].start = l + 1
  <2>1. PICK m \in Nat : m = l
    BY <1>2
  <2> DEFINE after == Following(stack, m, beforeLast)
  <2>2. /\ after \in 2..N /\ after - 1 \in 1..N
        /\ stack[after - 1].start = m /\ stack[after].start = m + 1
    <3>1. Found(stack, m) /\ m = last[o.id]
      BY <2>1
    <3> QED BY <1>1, <3>1, NextStarts
  <2> QED BY <2>1, <2>2
<1>4. /\ n \in Nat /\ N \in Nat /\ Len(new) = N
      /\ DOMAIN stack = 1..N /\ DOMAIN new = 1..N
  BY StackCells DEF Requests
<1>5. later[o.id] = n /\ \A id \in Ids : id # o.id => later[id] = last[id]
  BY <1>1 DEF LastAccesses
<1>6. \A i \in 1..N : stack[i].start \in 0..n
  BY StartsInside
<1>7. /\ new[N] = [start |-> n + 1, bytes |-> 0]
      /\ \A i \in 1..(N - 1) :
           /\ i < next => new[i] = stack[i]
           /\ i >= next => /\ new[i].start = stack[i+1].start
                           /\ new[i].bytes = stack[i+1].bytes + o.size
  BY DEF AgainCells
<1>8. new[N].start = n + 1 /\ new[N].bytes = 0
  BY <1>7
<1>9. /\ stack[1].start = 0
      /\ \A i, j \in 1..N : i < j => stack[i].start < stack[j].start
      /\ \A i \in 2..N :
           \E id \in Ids : last[id] # NoAccess /\ stack[i].start = last[id] + 1
      /\ \A id \in Ids : last[id] # NoAccess =>
           \E i \in 2..N : stack[i].start = last[id] + 1
  BY <1>4 DEF Boundaries
<1> HIDE DEF later, N, l, next
<1> DEFINE src(i) == IF i < next THEN i ELSE i + 1
<1>10. /\ \A i \in 1..N : i \in 1..(N-1) \/ i = N
       /\ \A i \in 2..N : i \in 2..(N-1) \/ i = N
       /\ \A i \in 2..(N-1) : i \in 1..(N-1) /\ i \in 2..N
       /\ N \in 2..N /\ 1 \in 1..(N-1) /\ 1 < next /\ 1 \in 1..N
  BY <1>3, <1>4
<1>11. ASSUME NEW i \in 1..(N - 1)
       PROVE  /\ src(i) \in 1..N /\ src(i) # next
              /\ new[i].start = stack[src(i)].start
  BY <1>3, <1>4, <1>7
<1>12. \A i, j \in 1..(N - 1) : i < j => src(i) < src(j)
  BY <1>3, <1>4
<1>13. \A i \in 2..(N - 1) : src(i) \in 2..N
  BY <1>3, <1>4
<1>14. \A j \in 2..N : j # next => \E i \in 2..(N - 1) : src(i) = j
  <2> SUFFICES ASSUME NEW j \in 2..N, j # next
               PROVE  \E i \in 2..(N - 1) : src(i) = j
    OBVIOUS
  <2>1. CASE j < next
    <3>1. j \in 2..(N-1) /\ src(j) = j
      BY <1>3, <1>4, <2>1
    <3> QED BY <3>1
  <2>2. CASE ~(j < next)
    <3>1. j - 1 \in 2..(N-1) /\ src(j - 1) = j
      BY <1>3, <1>4, <2>2
    <3> QED BY <3>1
  <2> QED BY <2>1, <2>2
<1>15. \A i \in 1..N : i # next => stack[i].start # l + 1
  <2>1. \A i \in 1..N : i < next \/ i = next \/ next < i
    BY <1>3
  <2>2. next \in 1..N
    BY <1>3, <1>4
  <2>3. l + 1 \in Nat /\ \A a \in Nat : a < l + 1 \/ l + 1 < a => a # l + 1
    BY <1>2
  <2> QED BY <1>3, <1>6, <1>9, <2>1, <2>2, <2>3
<1> HIDE DEF src
<1>16. ASSUME NEW i \in 1..N, NEW j \in 1..N, i < j
       PROVE  new[i].start < new[j].start
  <2>1. i \in 1..(N-1)
    BY <1>4, <1>16
  <2>2. CASE j \in 1..(N-1)
    BY <1>9, <1>11, <1>12, <1>16, <2>1, <2>2
  <2>3. CASE j = N
    <3>1. new[i].start \in 0..n /\ new[j].start = n + 1
      BY <1>6, <1>8, <1>11, <2>1, <2>3
    <3> QED BY <1>4, <3>1
  <2> QED BY <1>10, <2>2, <2>3
<1>17. ASSUME NEW i \in 2..N
       PROVE  \E id \in Ids : later[id] # NoAccess /\ new[i].start = later[id] + 1
  <2>1. CASE i \in 2..(N-1)
    <3>1. i \in 1..(N-1) /\ src(i) \in 2..N /\ src(i) # next
          /\ new[i].start = stack[src(i)].start
      BY <1>10, <1>11, <1>13, <2>1
    <3>2. PICK id \in Ids : last[id] # NoAccess /\ stack[src(i)].start = last[id] + 1
      BY <1>9, <3>1
    <3>3. id # o.id
      <4>1. stack[src(i)].start # l + 1
        BY <1>11, <1>15, <3>1
      <4> QED BY <3>2, <4>1 DEF l
    <3> QED BY <1>5, <3>1, <3>2, <3>3
  <2>2. CASE i = N
    BY <1>1, <1>4, <1>5, <1>8, <2>2 DEF NoAccess
  <2> QED BY <1>10, <2>1, <2>2
<1>18. ASSUME NEW id \in Ids, later[id] # NoAccess
       PROVE  \E i \in 2..N : new[i].start = later[id] + 1
  <2>1. CASE id = o.id
    BY <1>5, <1>8, <1>10, <2>1
  <2>2. CASE id # o.id
    <3>1. later[id] = last[id] /\ last[id] # NoAccess
      BY <1>5, <1>18, <2>2
    <3>2. PICK j \in 2..N : stack[j].start = last[id] + 1
      BY <1>9, <3>1
    <3>3. j # next
      <4>1. last[id] + 1 # last[o.id] + 1
        BY <1>1, <2>2, <3>1, LastsDiffer
      <4> QED BY <1>3, <3>2, <4>1 DEF l
    <3>4. PICK i \in 2..(N - 1) : src(i) = j
      BY <1>14, <3>3
    <3>5. i \in 2..N /\ new[i].start = stack[j].start
      BY <1>10, <1>11, <3>4
    <3> QED BY <3>1, <3>2, <3>5
  <2> QED BY <2>1, <2>2
<1>19. Boundaries(new, later)
  <2>1. new[1].start = 0
    BY <1>7, <1>9, <1>10
  <2> QED BY <1>4, <1>16, <1>17, <1>18, <2>1 DEF Boundaries
<1>20. ASSUME NEW i \in 1..(N - 1)
       PROVE  new[i].bytes = SizeSum(FilesAfter(t, v, new[i].start))
  <2>1. PICK p \in 0..n : p = new[i].start
    BY <1>6, <1>11
  <2>2. /\ p <= l => SizeSum(FilesAfter(t, v, p)) = SizeSum(FilesAfter(s, v, p))
        /\ ~(p <= l) =>
             SizeSum(FilesAfter(t, v, p)) = SizeSum(FilesAfter(s, v, p)) + o.size
    BY DistanceGrown DEF l
  <2>3. CASE i < next
    <3>1. i \in 1..N /\ (i = next - 1 \/ i < next - 1)
      BY <1>3, <1>4, <2>3
    <3>2. new[i] = stack[i]
      BY <1>7, <2>3
    <3>3. stack[i].start = l \/ stack[i].start < l
      BY <1>3, <1>9, <3>1
    <3>4. p <= l
      BY <1>2, <2>1, <3>2, <3>3
    <3>5. stack[i].bytes = SizeSum(FilesAfter(s, v, p))
      BY <1>4, <2>1, <3>1, <3>2 DEF Measured, N
    <3> QED BY <2>1, <2>2, <3>2, <3>4, <3>5
  <2>4. CASE ~(i < next)
    <3>1. i >= next /\ next < i + 1 /\ i + 1 \in 1..N /\ next \in 1..N
      BY <1>3, <1>4, <2>4
    <3>2. new[i].start = stack[i+1].start /\ new[i].bytes = stack[i+1].bytes + o.size
      BY <1>7, <3>1
    <3>3. l + 1 < p
      BY <1>3, <1>9, <2>1, <3>1, <3>2
    <3>4. ~(p <= l)
      BY <1>2, <2>1, <3>3
    <3>5. stack[i+1].bytes = SizeSum(FilesAfter(s, v, p))
      BY <1>4, <2>1, <3>1, <3>2 DEF Measured, N
    <3> QED BY <2>1, <2>2, <3>2, <3>4, <3>5
  <2> QED BY <2>3, <2>4
<1>21. new[N].bytes = SizeSum(FilesAfter(t, v, new[N].start))
  <2>1. Requests(t, n + 1)
    <3>1. FileOf(q) \in Lines
      OBVIOUS
    <3> QED BY <3>1, RequestsGrown
  <2> QED BY <1>8, <2>1, FilesAtEnd
<1>22. Measured(new, t, v)
  BY <1>4, <1>10, <1>20, <1>21 DEF Measured
<1> QED BY <1>19, <1>22 DEF later

\* Between two starts of fragments, no file's last access is missed.
LEMMA FilesBetween ==
  ASSUME SizesFixed, NEW s, NEW n, Requests(s, n), NEW v, NEW last,
         LastAccesses(last, s, v), NEW stack \in Stacks,
         Boundaries(stack, last), NEW p \in 0..n,
         NEW m \in 1..Len(stack), stack[m].start <= p,
         \A i \in 1..Len(stack) : stack[i].start <= p => i <= m
  PROVE  FilesAfter(s, v, stack[m].start) = FilesAfter(s, v, p)
<1> DEFINE b == stack[m].start
<1>1. /\ n \in Nat /\ DOMAIN s = 1..n /\ DOMAIN stack = 1..Len(stack)
      /\ Len(stack) \in Nat
  BY StackCells DEF Requests
<1>2. \A i \in 1..Len(stack) : stack[i].start \in 0..n
  BY StartsInside
<1>3. \A i, j \in 1..Len(stack) : i < j => stack[i].start < stack[j].start
  BY <1>1 DEF Boundaries
<1>4. ASSUME NEW f \in FilesAfter(s, v, p) PROVE f \in FilesAfter(s, v, b)
  <2>1. PICK k \in 1..n : f = FileOf(s[k]) /\ k > p /\ s[k].vnode = v
    BY <1>1 DEF FilesAfter
  <2>2. k > b
    BY <1>2, <2>1
  <2> QED BY <1>1, <2>1, <2>2 DEF FilesAfter
<1>5. ASSUME NEW f \in FilesAfter(s, v, b) PROVE f \in FilesAfter(s, v, p)
  <2>1. PICK k \in 1..n : f = FileOf(s[k]) /\ k > b /\ s[k].vnode = v
    BY <1>1 DEF FilesAfter
  <2>2. /\ s[k].id \in Ids /\ last[s[k].id] # NoAccess
        /\ \E j \in 1..n : /\ j = last[s[k].id] + 1 /\ k <= j
                           /\ s[j].vnode = v /\ s[j].id = s[k].id
    BY <2>1, LastRequest
  <2>3. PICK j \in 1..n : /\ j = last[s[k].id] + 1 /\ k <= j
                          /\ s[j].vnode = v /\ s[j].id = s[k].id
    BY <2>2
  <2>4. PICK i \in 2..Len(stack) : stack[i].start = j
    BY <2>2, <2>3 DEF Boundaries
  <2>5. i \in 1..Len(stack) /\ i \in Int /\ m \in Int
    BY <1>1
  <2>6. ~(i <= m)
    <3>1. ASSUME i <= m PROVE stack[i].start <= b
      <4>1. CASE i = m
        BY <1>2, <2>5, <4>1
      <4>2. CASE i < m
        <5>1. stack[i].start < b
          BY <1>3, <2>5, <4>2
        <5> QED BY <1>2, <2>5, <5>1
      <4> QED BY <2>5, <3>1, <4>1, <4>2
    <3> QED BY <1>2, <2>1, <2>3, <2>4, <3>1
  <2>7. j > p
    <3>1. ~(stack[i].start <= p)
      BY <2>5, <2>6
    <3> QED BY <1>1, <2>4, <3>1
  <2>8. FileOf(s[j]) = f
    <3>1. FileOf(s[j]) \in Lines /\ FileOf(s[k]) \in Lines
      BY DEF Requests
    <3>2. FileOf(s[j]).id = FileOf(s[k]).id
      BY <2>3 DEF FileOf
    <3>3. FileOf(s[j]).size = FileOf(s[k]).size
      BY <3>1, <3>2 DEF SizesFixed
    <3> QED BY <2>1, <3>2, <3>3 DEF FileOf
  <2> QED BY <1>1, <2>3, <2>7, <2>8 DEF FilesAfter
<1> QED BY <1>4, <1>5

\* After the last start of a fragment, no file is requested.
LEMMA FilesPastStarts ==
  ASSUME NEW s, NEW n, Requests(s, n), NEW v, NEW last,
         LastAccesses(last, s, v), NEW stack \in Stacks, Len(stack) >= 1,
         Boundaries(stack, last), NEW p \in 0..n, p >= Last(stack).start
  PROVE  SizeSum(FilesAfter(s, v, p)) = 0
<1>1. /\ n \in Nat /\ DOMAIN s = 1..n /\ DOMAIN stack = 1..Len(stack)
      /\ Len(stack) \in Nat /\ \A i \in 1..Len(stack) : stack[i].start \in Nat
  BY StackCells DEF Requests
<1>2. ASSUME NEW k \in 1..n, s[k].vnode = v, k > p PROVE FALSE
  <2>1. /\ s[k].id \in Ids /\ last[s[k].id] # NoAccess
        /\ \E j \in 1..n : /\ j = last[s[k].id] + 1 /\ k <= j
                           /\ s[j].vnode = v /\ s[j].id = s[k].id
    BY <1>2, LastRequest
  <2>2. PICK j \in 1..n : j = last[s[k].id] + 1 /\ k <= j
    BY <2>1
  <2>3. PICK i \in 2..Len(stack) : stack[i].start = j
    BY <2>1, <2>2 DEF Boundaries
  <2>4. i = Len(stack) \/ stack[i].start < stack[Len(stack)].start
    <3>1. ASSUME NEW N \in Nat, N >= 1, NEW x \in 2..N
          PROVE  /\ x \in 1..N /\ N \in 1..N
                 /\ x = N \/ x < N
      BY <3>1
    <3>2. \A x, y \in DOMAIN stack : x < y => stack[x].start < stack[y].start
      BY DEF Boundaries
    <3> QED BY <1>1, <3>1, <3>2
  <2>5. Last(stack).start = stack[Len(stack)].start
    BY DEF Last
  <2>6. Last(stack).start \in Nat /\ stack[i].start \in Nat
    <3>1. Len(stack) \in 1..Len(stack) /\ i \in 1..Len(stack)
      BY <1>1
    <3> QED BY <1>1, <2>5, <3>1
  <2>7. stack[i].start <= Last(stack).start
    BY <2>4, <2>5, <2>6
  <2> QED BY <1>2, <2>2, <2>3, <2>6, <2>7
<1>3. FilesAfter(s, v, p) = {}
  BY <1>1, <1>2 DEF FilesAfter
<1>4. Sized({})
  BY FS_EmptySet DEF Sized
<1> QED BY <1>3, <1>4, SizeSumNat

\* The binary search finds the distance of every position of the window.
LEMMA CValueExact ==
  ASSUME SizesFixed, NEW s, NEW n, Requests(s, n), NEW v, NEW last,
         LastAccesses(last, s, v), NEW stack \in Stacks, Len(stack) >= 1,
         Boundaries(stack, last), Measured(stack, s, v), NEW p \in 0..n
  PROVE  CValue(stack, p) = SizeSum(FilesAfter(s, v, p))
<1>1. CASE p >= Last(stack).start
  <2>1. CValue(stack, p) = 0
    BY <1>1 DEF CValue
  <2> QED BY <1>1, <2>1, FilesPastStarts
<1>2. CASE ~(p >= Last(stack).start)
  <2> DEFINE T == {1} \cup {i \in DOMAIN stack : stack[i].start <= p}
             m == Max(T)
  <2>1. DOMAIN stack = 1..Len(stack) /\ Len(stack) \in Nat /\ p \in Nat
    BY StackCells DEF Requests
  <2>2. T \in SUBSET (1..Len(stack)) /\ T # {}
    BY <2>1
  <2>3. T \in SUBSET Nat /\ \A i \in T : i <= Len(stack)
    BY <2>1, <2>2
  <2>4. CValue(stack, p) = stack[m].bytes
    BY <1>2 DEF CValue
  <2>5. \A i \in T : stack[i].start <= p
    BY <2>1 DEF Boundaries
  <2>6. \A i \in 1..Len(stack) : stack[i].start <= p => i \in T
    BY <2>1
  <2> HIDE DEF T
  <2>7. m \in T /\ \A i \in T : i <= m
    BY <2>1, <2>2, <2>3, MaxGreatest
  <2> HIDE DEF m
  <2>8. m \in 1..Len(stack) /\ stack[m].start <= p
        /\ \A i \in 1..Len(stack) : stack[i].start <= p => i <= m
    BY <2>2, <2>5, <2>6, <2>7
  <2>9. FilesAfter(s, v, stack[m].start) = FilesAfter(s, v, p)
    BY <2>8, FilesBetween
  <2>10. stack[m].bytes = SizeSum(FilesAfter(s, v, stack[m].start))
    BY <2>1, <2>8 DEF Measured
  <2> QED BY <2>4, <2>9, <2>10
<1> QED BY <1>1, <1>2

----------------------------------------------------------------------------
(***************************************************************************)
(* A stack that measures a window.                                         *)
(***************************************************************************)

\* stack is what the requests s of v make, last being its last accesses.
Measures(stack, last, s, v) ==
  /\ stack \in Stacks /\ Len(stack) >= 1
  /\ LastAccesses(last, s, v) /\ Boundaries(stack, last) /\ Measured(stack, s, v)

StackFits(stack, s, v) == \E last : Measures(stack, last, s, v)

\* A stack that measures a window tells the distance of every position.
LEMMA CValueFits ==
  ASSUME SizesFixed, NEW s, NEW n, Requests(s, n), NEW v, NEW stack,
         StackFits(stack, s, v), NEW p \in Nat
  PROVE  CValue(stack, p) = SizeSum(FilesAfter(s, v, p))
<1>1. PICK last : Measures(stack, last, s, v)
  BY DEF StackFits
<1>2. /\ stack \in Stacks /\ Len(stack) >= 1 /\ LastAccesses(last, s, v)
      /\ Boundaries(stack, last) /\ Measured(stack, s, v)
  BY <1>1 DEF Measures
<1>3. n \in Nat /\ DOMAIN s = 1..n
  BY DEF Requests
<1>4. CASE p <= n
  <2>1. p \in 0..n
    BY <1>3, <1>4
  <2> QED BY <1>2, <2>1, CValueExact
<1>5. CASE ~(p <= n)
  <2>1. Last(stack).start \in 0..n
    <3>1. \A i \in 1..Len(stack) : stack[i].start \in 0..n
      BY <1>2, StartsInside
    <3>2. Len(stack) \in 1..Len(stack)
      BY <1>2, StackCells
    <3> QED BY <3>1, <3>2 DEF Last
  <2>2. p >= Last(stack).start
    BY <1>3, <1>5, <2>1
  <2>3. CValue(stack, p) = 0
    BY <2>2 DEF CValue
  <2>4. \A j \in DOMAIN s : ~(j > p)
    BY <1>3, <1>5
  <2>5. FilesAfter(s, v, p) = {}
    BY <2>4 DEF FilesAfter
  <2>6. Sized({})
    BY FS_EmptySet DEF Sized
  <2> QED BY <2>3, <2>5, <2>6, SizeSumNat
<1> QED BY <1>4, <1>5

\* What a request q at position n makes of the stack of v, and of its last
\* accesses.
StackNow(stack, last, v, q, n, beforeLast) ==
  IF q.vnode = v THEN Accessed(stack, last[q.id], q.size, n, beforeLast) ELSE stack
LastNow(last, v, q, n) ==
  IF q.vnode = v THEN [last EXCEPT ![q.id] = n] ELSE last

\* As long as find() succeeds, a request leaves a stack that measures the
\* window with it.
LEMMA StackStep ==
  ASSUME SizesFixed, NEW s, NEW n, Requests(s, n), NEW t, NEW q,
         Grown(s, t, n, q), FileOf(q) \in Lines, NEW v, NEW stack, NEW last,
         Measures(stack, last, s, v), NEW beforeLast,
         q.vnode = v => last[q.id] = NoAccess \/ Found(stack, last[q.id])
  PROVE  Measures(StackNow(stack, last, v, q, n, beforeLast),
                  LastNow(last, v, q, n), t, v)
<1> DEFINE o == FileOf(q)
<1>1. /\ stack \in Stacks /\ Len(stack) >= 1 /\ LastAccesses(last, s, v)
      /\ Boundaries(stack, last) /\ Measured(stack, s, v)
  BY DEF Measures
<1>2. n \in Nat /\ o.id \in Ids /\ o.size \in Nat /\ o \in Lines
      /\ o.id = q.id /\ o.size = q.size /\ FileOf(q) = o
  BY LinesAssumption DEF Requests, Objects, FileOf
<1> HIDE DEF o
<1>3. CASE q.vnode # v
  <2>1. Measured(stack, t, v)
    BY <1>1, <1>3, OtherExact
  <2>2. LastAccesses(last, t, v)
    BY <1>1, <1>2, <1>3, LastGrown
  <2> QED BY <1>1, <1>3, <2>1, <2>2 DEF Measures, StackNow, LastNow
<1>4. ASSUME q.vnode = v PROVE LastAccesses(LastNow(last, v, q, n), t, v)
  <2>1. LastAccesses([last EXCEPT ![q.id] = n], t, v)
    BY <1>1, <1>2, <1>4, LastGrown
  <2> QED BY <1>4, <2>1 DEF LastNow
<1> DEFINE new == StackNow(stack, last, v, q, n, beforeLast)
<1>5. CASE q.vnode = v /\ last[o.id] = NoAccess
  <2> DEFINE made == Accessed(stack, NoAccess, o.size, n, beforeLast)
  <2>1. made = new
    BY <1>2, <1>5 DEF StackNow
  <2>2. /\ made \in Stacks /\ Len(made) = Len(stack) + 1
        /\ FirstCells(stack, made, o.size, n)
    BY <1>1, <1>2, AccessedFirst
  <2> HIDE DEF made, new
  <2>3. /\ new \in Stacks /\ Len(new) = Len(stack) + 1
        /\ FirstCells(stack, new, o.size, n)
    BY <2>1, <2>2
  <2>4. /\ Boundaries(new, [last EXCEPT ![o.id] = n])
        /\ Measured(new, t, v)
    BY <1>1, <1>2, <1>5, <2>3, FirstExact
  <2>5. Len(new) >= 1
    BY <1>1, <2>3, StackCells
  <2>6. LastNow(last, v, q, n) = [last EXCEPT ![o.id] = n]
    BY <1>2, <1>5 DEF LastNow
  <2> QED BY <1>4, <1>5, <2>3, <2>4, <2>5, <2>6 DEF Measures, new
<1>6. CASE q.vnode = v /\ last[o.id] # NoAccess
  <2>1. PICK l \in Nat : l = last[o.id]
    BY <1>1, <1>2, <1>6 DEF LastAccesses
  <2>2. Len(stack) >= 2 /\ Last(stack).start # l
    <3>1. PICK i \in 2..Len(stack) : stack[i].start = l + 1
      BY <1>1, <1>2, <1>6, <2>1 DEF Boundaries
    <3>2. Len(stack) \in Nat /\ DOMAIN stack = 1..Len(stack)
          /\ \A j \in 1..Len(stack) : stack[j].start \in Nat
      BY <1>1, StackCells
    <3>3. /\ i \in 1..Len(stack) /\ Len(stack) \in 1..Len(stack) /\ Len(stack) >= 2
          /\ i = Len(stack) \/ i < Len(stack)
      <4>1. ASSUME NEW N \in Nat, NEW x \in 2..N
            PROVE  x \in 1..N /\ N \in 1..N /\ N >= 2 /\ (x = N \/ x < N)
        OBVIOUS
      <4> QED BY <3>2, <4>1
    <3>4. \A x, y \in 1..Len(stack) : x < y => stack[x].start < stack[y].start
      BY <1>1, <3>2 DEF Boundaries
    <3>5. l + 1 <= stack[Len(stack)].start
      <4>1. CASE i = Len(stack)
        <5>1. stack[Len(stack)].start = l + 1
          BY <3>1, <4>1
        <5> QED BY <2>1, <5>1
      <4>2. CASE i # Len(stack)
        <5>1. i < Len(stack)
          BY <3>3, <4>2
        <5>2. stack[i].start < stack[Len(stack)].start
          BY <3>3, <3>4, <5>1
        <5>3. stack[i].start \in Nat /\ stack[Len(stack)].start \in Nat
          BY <3>2, <3>3
        <5> QED BY <2>1, <3>1, <5>2, <5>3
      <4> QED BY <4>1, <4>2
    <3>6. Last(stack).start = stack[Len(stack)].start
      BY DEF Last
    <3>7. stack[Len(stack)].start \in Nat
      BY <3>2, <3>3
    <3> QED BY <2>1, <3>3, <3>5, <3>6, <3>7
  <2> DEFINE next == Following(stack, l, beforeLast)
             made == Accessed(stack, l, o.size, n, beforeLast)
  <2>3. /\ made \in Stacks /\ Len(made) = Len(stack)
        /\ AgainCells(stack, made, next, o.size, n)
    BY <1>1, <1>2, <2>2, AccessedAgain
  <2>4. made = new /\ next = Following(stack, last[o.id], beforeLast)
    BY <1>2, <1>6, <2>1 DEF StackNow
  <2> HIDE DEF made, next, new
  <2>5. /\ new \in Stacks /\ Len(new) = Len(stack)
        /\ AgainCells(stack, new, Following(stack, last[o.id], beforeLast), o.size, n)
    BY <2>3, <2>4
  <2>6. Found(stack, last[o.id]) /\ q.vnode = v
    BY <1>2, <1>6
  <2>7. /\ Boundaries(new, [last EXCEPT ![o.id] = n])
        /\ Measured(new, t, v)
    BY <1>1, <1>2, <1>6, <2>5, <2>6, AgainExact
  <2>8. LastNow(last, v, q, n) = [last EXCEPT ![o.id] = n]
    BY <1>2, <1>6 DEF LastNow
  <2> QED BY <1>1, <1>4, <1>6, <2>5, <2>7, <2>8 DEF Measures, new
<1> QED BY <1>2, <1>3, <1>5, <1>6

----------------------------------------------------------------------------
(***************************************************************************)
(* The third inductive invariant: the last accesses are those of the       *)
(* window, and as long as no fragment was missed the stacks measure it.    *)
(***************************************************************************)

InWindow == IF window = <<>> THEN <<>> ELSE sampled
Missed   == window # <<>> /\ unfound

ExactStack(v) == /\ Boundaries(frag_arrs[v], last_access[v])
                 /\ Measured(frag_arrs[v], InWindow, v)

Exact ==
  /\ \E T : InWindow \in Seq(T)
  /\ Len(InWindow) = Len(window) /\ Requests(InWindow, Len(window))
  /\ \A v \in Vnodes : LastAccesses(last_access[v], InWindow, v)
  /\ ~Missed => \A v \in Vnodes : ExactStack(v)

\* No window is begun.
Fresh == /\ window = <<>> /\ frag_arrs = [v \in Vnodes |-> FreshStack]
         /\ last_access = [v \in Vnodes |-> [id \in Ids |-> NoAccess]]

\* With the empty window, fresh stacks are exact.
LEMMA FreshExact == Fresh => Exact
<1> SUFFICES ASSUME Fresh PROVE Exact
  OBVIOUS
<1>1. InWindow = <<>> /\ InWindow \in Seq({}) /\ Len(InWindow) = Len(window)
      /\ Len(window) = 0
  BY DEF InWindow, Fresh
<1>2. Requests(InWindow, Len(window))
  BY <1>1 DEF Requests
<1>3. \A v \in Vnodes : LastAccesses(last_access[v], InWindow, v)
  BY <1>1 DEF LastAccesses, Fresh
<1>4. ASSUME NEW v \in Vnodes PROVE ExactStack(v)
  <2>1. /\ frag_arrs[v] = <<[start |-> 0, bytes |-> 0]>>
        /\ \A id \in Ids : last_access[v][id] = NoAccess
    BY DEF FreshStack, Fresh
  <2>2. /\ Len(frag_arrs[v]) = 1 /\ DOMAIN frag_arrs[v] = {1}
        /\ frag_arrs[v][1].start = 0 /\ frag_arrs[v][1].bytes = 0
    BY <2>1
  <2>3. Boundaries(frag_arrs[v], last_access[v])
    <3>1. 2..1 = {} /\ \A i, j \in {1} : ~(i < j)
      OBVIOUS
    <3>2. 2..Len(frag_arrs[v]) = {}
      BY <2>2, <3>1
    <3>3. \A i, j \in DOMAIN frag_arrs[v] : ~(i < j)
      BY <2>2, <3>1
    <3> QED BY <2>1, <2>2, <3>2, <3>3 DEF Boundaries
  <2>4. FilesAfter(InWindow, v, 0) = {}
    BY <1>1 DEF FilesAfter
  <2>5. SizeSum({}) = 0
    BY FS_EmptySet, SizeSumNat DEF Sized
  <2>6. Measured(frag_arrs[v], InWindow, v)
    BY <2>2, <2>4, <2>5 DEF Measured
  <2> QED BY <2>3, <2>6 DEF ExactStack
<1>5. \E T : InWindow \in Seq(T)
  BY <1>1, Zenon
<1> QED BY <1>1, <1>2, <1>3, <1>4, <1>5 DEF Exact

\* The third invariant holds initially.
LEMMA InitExact == Init => Exact
BY FreshExact DEF Init, Fresh

\* What a sampled request does to the stack and the last accesses of v.
StacksBy(o, beforeLast, v) ==
  /\ v = ServedVnode(o) =>
       /\ StackedAt(o, beforeLast)[v] =
            Accessed(frag_arrs[v], last_access[v][o.id], o.size,
                     Len(window), beforeLast)
       /\ AccessedAt(o)[v] = [last_access[v] EXCEPT ![o.id] = Len(window)]
  /\ v # ServedVnode(o) =>
       /\ StackedAt(o, beforeLast)[v] = frag_arrs[v]
       /\ AccessedAt(o)[v] = last_access[v]

\* Only the stack of the virtual node served changes.
LEMMA SampledStacks ==
  ASSUME Kept, NEW o, NEW beforeLast, NEW v \in Vnodes
  PROVE  StacksBy(o, beforeLast, v)
<1> DEFINE u == ServedVnode(o)
           n == Len(window)
<1>1. /\ StackedAt(o, beforeLast) = [frag_arrs EXCEPT ![u] = Stacked(o, beforeLast)]
      /\ AccessedAt(o) = [last_access EXCEPT ![u] = [last_access[u] EXCEPT ![o.id] = n]]
      /\ Stacked(o, beforeLast) = Accessed(frag_arrs[u], last_access[u][o.id],
                                           o.size, n, beforeLast)
  BY DEF StackedAt, AccessedAt, Stacked
<1>2. /\ frag_arrs \in [Vnodes -> Stacks]
      /\ last_access \in [Vnodes -> [Ids -> {NoAccess} \cup Nat]]
  BY DEF Kept
<1> HIDE DEF u, n
<1>3. /\ v = u => StackedAt(o, beforeLast)[v] =
                    Accessed(frag_arrs[v], last_access[v][o.id], o.size, n, beforeLast)
      /\ v # u => StackedAt(o, beforeLast)[v] = frag_arrs[v]
  BY <1>1, <1>2
<1>4. /\ v = u => AccessedAt(o)[v] = [last_access[v] EXCEPT ![o.id] = n]
      /\ v # u => AccessedAt(o)[v] = last_access[v]
  BY <1>1, <1>2
<1> QED BY <1>3, <1>4 DEF StacksBy, u, n

\* The request of the sampled file.
Sample(o) == [id |-> o.id, size |-> o.size, vnode |-> ServedVnode(o)]

\* The requests of the window with the one that follows it.
WithSample(o) == Append(InWindow, Sample(o))

\* The sampled request is the next one of the window.
LEMMA SampleGrown ==
  ASSUME Exact, NEW o \in Lines
  PROVE  /\ Grown(InWindow, WithSample(o), Len(window), Sample(o))
         /\ FileOf(Sample(o)) = o /\ Sample(o).vnode = ServedVnode(o)
         /\ Sample(o).id = o.id /\ Sample(o).size = o.size
         /\ Len(WithSample(o)) = Len(window) + 1 /\ \E T : WithSample(o) \in Seq(T)
<1> DEFINE s == InWindow
           t == WithSample(o)
           n == Len(window)
           q == Sample(o)
<1>1. t = Append(s, q)
  BY DEF WithSample
<1>2. PICK T : s \in Seq(T)
  BY DEF Exact
<1>3. DOMAIN s = 1..n /\ Len(s) = n /\ n \in Nat
  BY DEF Exact, Requests
<1>4. /\ FileOf(q) = o /\ q.vnode = ServedVnode(o) /\ q.id = o.id /\ q.size = o.size
  BY LinesAssumption DEF Sample, FileOf, Objects
<1> HIDE DEF s, t, n, q
<1>5. s \in Seq(T \cup {q}) /\ q \in T \cup {q}
  BY <1>2
<1>6. /\ t \in Seq(T \cup {q}) /\ Len(t) = Len(s) + 1 /\ t[Len(s) + 1] = q
      /\ \A i \in 1..Len(s) : t[i] = s[i]
  BY <1>1, <1>5, AppendProperties
<1>7. DOMAIN t = 1..(n + 1)
  BY <1>3, <1>6
<1>8. Grown(s, t, n, q)
  BY <1>3, <1>6, <1>7 DEF Grown
<1>9. Len(t) = n + 1 /\ \E S : t \in Seq(S)
  BY <1>3, <1>6
<1> QED BY <1>4, <1>8, <1>9 DEF s, t, n, q

\* The window grows by the sampled request.
LEMMA WindowGrown ==
  ASSUME NEW o, Record(o), window' # <<>>
  PROVE  InWindow' = WithSample(o)
BY DEF InWindow, Record, WithSample, Sample

\* The stacks of the virtual nodes measure the window.
LEMMA StacksMeasure ==
  ASSUME Kept, Exact, ~Missed, NEW v \in Vnodes
  PROVE  Measures(frag_arrs[v], last_access[v], InWindow, v)
<1> DEFINE ids == {id \in Ids : last_access[v][id] # NoAccess}
<1>1. /\ LastAccesses(last_access[v], InWindow, v)
      /\ Boundaries(frag_arrs[v], last_access[v])
      /\ Measured(frag_arrs[v], InWindow, v)
  BY DEF Exact, ExactStack
<1>2. /\ frag_arrs[v] \in Stacks /\ IsFiniteSet(ids)
      /\ Len(frag_arrs[v]) = 1 + Cardinality(ids)
  BY DEF Kept, StackCounts
<1> HIDE DEF ids
<1>3. Len(frag_arrs[v]) >= 1
  BY <1>2, FS_CardinalityType
<1> QED BY <1>1, <1>2, <1>3 DEF Measures

\* The stack of v stays exact over a sampled request, if find() succeeds.
LEMMA SampledExactStack ==
  ASSUME SizesFixed, Kept, Exact, ~Missed, NEW o \in Lines, ~Misses(o),
         InWindow' = WithSample(o), NEW beforeLast,
         frag_arrs' = StackedAt(o, beforeLast), last_access' = AccessedAt(o),
         NEW v \in Vnodes
  PROVE  ExactStack(v)'
<1> DEFINE s == InWindow
           t == WithSample(o)
           n == Len(window)
           q == Sample(o)
           last == last_access[v]
           stack == frag_arrs[v]
<1>1. /\ Requests(s, n) /\ Grown(s, t, n, q) /\ FileOf(q) \in Lines
      /\ q.vnode = ServedVnode(o) /\ q.id = o.id /\ q.size = o.size
      /\ Measures(stack, last, s, v)
  BY SampleGrown, StacksMeasure DEF Exact
<1>2. q.vnode = v => last[q.id] = NoAccess \/ Found(stack, last[q.id])
  <2> HIDE DEF q
  <2> QED BY <1>1 DEF Misses
<1>3. StacksBy(o, beforeLast, v)
  BY SampledStacks
<1> HIDE DEF s, t, n, q
<1>4. /\ frag_arrs'[v] = StackNow(stack, last, v, q, n, beforeLast)
      /\ last_access'[v] = LastNow(last, v, q, n)
  BY <1>1, <1>3 DEF StacksBy, StackNow, LastNow, n
<1> HIDE DEF stack, last
<1>5. Measures(StackNow(stack, last, v, q, n, beforeLast), LastNow(last, v, q, n), t, v)
  BY <1>1, <1>2, StackStep
<1> QED BY <1>4, <1>5 DEF Measures, ExactStack, t

\* Every action keeps the third invariant.
LEMMA NextExact ==
  ASSUME SizesFixed, Kept, Exact, [Next]_vars
  PROVE  Exact'
<1>1. ASSUME UNCHANGED <<frag_arrs, last_access, window, sampled, unfound>>
      PROVE  Exact'
  <2>1. InWindow' = InWindow /\ Missed' = Missed
    BY <1>1 DEF InWindow, Missed
  <2>2. ASSUME NEW v \in Vnodes, ExactStack(v) PROVE ExactStack(v)'
    BY <1>1, <2>1, <2>2 DEF ExactStack
  <2> QED BY <1>1, <2>1, <2>2 DEF Exact
<1>2. ASSUME NEW o \in Lines, RequestSampled(o) PROVE Exact'
  <2>1. PICK beforeLast : /\ frag_arrs' = StackedAt(o, beforeLast)
                          /\ window' = Windowed(o, beforeLast)
    BY <1>2 DEF RequestSampled, StackedAt
  <2>2. /\ last_access' = AccessedAt(o) /\ Record(o)
        /\ unfound' = (Misses(o) \/ (window # <<>> /\ unfound))
    BY <1>2 DEF RequestSampled, AccessedAt
  <2>3. Len(window') = Len(window) + 1 /\ Len(window) \in Nat
    <3>1. Len(Windowed(o, beforeLast)) = Len(window) + 1
      BY SampledKept
    <3>2. Len(window) \in Nat
      BY DEF Exact, Requests
    <3> QED BY <2>1, <3>1, <3>2
  <2>4. window' # <<>>
    <3>1. Len(window') # 0
      BY <2>3
    <3> QED BY <3>1
  <2>10. InWindow' = WithSample(o)
    BY <2>2, <2>4, WindowGrown
  <2>5. /\ Grown(InWindow, InWindow', Len(window), Sample(o))
        /\ FileOf(Sample(o)) = o /\ Sample(o).vnode = ServedVnode(o)
        /\ Sample(o).id = o.id
        /\ Len(InWindow') = Len(window) + 1
        /\ \E T : InWindow' \in Seq(T)
    BY <2>10, SampleGrown
  <2>6. Requests(InWindow', Len(window'))
    <3>1. Requests(InWindow, Len(window)) /\ FileOf(Sample(o)) \in Lines
      BY <2>5 DEF Exact
    <3>2. Requests(InWindow', Len(window) + 1)
      BY <2>5, <3>1, RequestsGrown
    <3> QED BY <2>3, <3>2
  <2>7. ASSUME NEW v \in Vnodes
        PROVE  LastAccesses(last_access'[v], InWindow', v)
    <3>1. /\ Requests(InWindow, Len(window))
          /\ LastAccesses(last_access[v], InWindow, v)
      BY DEF Exact
    <3>2. Sample(o).id \in Ids
      BY <2>5, LinesAssumption DEF Objects
    <3>3. StacksBy(o, beforeLast, v)
      BY SampledStacks
    <3>4. CASE v = ServedVnode(o)
      <4>1. Sample(o).vnode = v
        BY <2>5, <3>4
      <4>2. LastAccesses([last_access[v] EXCEPT ![Sample(o).id] = Len(window)],
                         InWindow', v)
        BY <2>5, <3>1, <3>2, <4>1, LastGrown
      <4>3. last_access'[v] = [last_access[v] EXCEPT ![Sample(o).id] = Len(window)]
        BY <2>2, <2>5, <3>3, <3>4 DEF StacksBy
      <4> QED BY <4>2, <4>3
    <3>5. CASE v # ServedVnode(o)
      <4>1. Sample(o).vnode # v
        BY <2>5, <3>5
      <4>2. LastAccesses(last_access[v], InWindow', v)
        BY <2>5, <3>1, <3>2, <4>1, LastGrown
      <4>3. last_access'[v] = last_access[v]
        BY <2>2, <3>3, <3>5 DEF StacksBy
      <4> QED BY <4>2, <4>3
    <3> QED BY <3>4, <3>5
  <2>8. ASSUME ~Missed', NEW v \in Vnodes PROVE ExactStack(v)'
    <3>1. ~Missed /\ ~Misses(o)
      BY <2>2, <2>4, <2>8, Zenon DEF Missed
    <3> QED BY <2>10, <2>1, <2>2, <3>1, SampledExactStack
  <2>9. Len(InWindow') = Len(window')
    BY <2>3, <2>5
  <2> QED BY <2>5, <2>6, <2>7, <2>8, <2>9 DEF Exact
<1>3. ASSUME NEW o \in Lines, RequestUpdate(o) PROVE Exact'
  <2>1. Fresh'
    BY <1>3 DEF RequestUpdate, Fresh
  <2>2. Fresh' => Exact'
    BY FreshExact, PTL
  <2> QED BY <2>1, <2>2
<1>4. ASSUME NEW o \in Lines, RequestPlain(o) PROVE Exact'
  BY <1>1, <1>4 DEF RequestPlain
<1>5. CASE UNCHANGED vars
  BY <1>1, <1>5 DEF vars
<1> QED BY <1>2, <1>3, <1>4, <1>5 DEF Next

----------------------------------------------------------------------------
(***************************************************************************)
(* The moves.  The files requested between two positions of a window, of   *)
(* the virtual nodes in a set: what every distance below is the size of.   *)
(***************************************************************************)

Span(t, V, p, k) == {FileOf(t[j]) : j \in {i \in 1..k : i > p /\ t[i].vnode \in V}}

\* The files of two sizes summed apart.
LEMMA SizeSumUnion ==
  ASSUME NEW S, Sized(S), NEW T \in SUBSET S
  PROVE  SizeSum(S) = SizeSum(S \ T) + SizeSum(T)
<1> DEFINE Holds(U) == SizeSum(S \ U) + SizeSum(U) = SizeSum(S)
           Bad == {U \in SUBSET S : ~Holds(U)}
<1>1. \A U \in SUBSET S : Sized(U) /\ IsFiniteSet(U) /\ SizeSum(U) \in Nat
  <2> SUFFICES ASSUME NEW U \in SUBSET S
               PROVE  Sized(U) /\ IsFiniteSet(U) /\ SizeSum(U) \in Nat
    OBVIOUS
  <2>1. Sized(U)
    BY FS_Subset DEF Sized
  <2>2. SizeSum(U) \in Nat
    BY <2>1, SizeSumNat
  <2> QED BY <2>1, <2>2 DEF Sized
<1>2. Bad = {}
  <2>1. SUFFICES ASSUME Bad # {} PROVE FALSE
    OBVIOUS
  <2>2. PICK U \in Bad : \A W \in Bad : Cardinality(U) <= Cardinality(W)
    <3>1. \A W \in Bad : IsFiniteSet(W)
      BY <1>1
    <3> HIDE DEF Bad
    <3> QED BY <2>1, <3>1, LeastSet
  <2>3. U # {}
    <3>1. SizeSum({}) = 0 /\ S \ {} = S /\ {} \in SUBSET S
      BY <1>1, SizeSumNat
    <3>2. Holds({})
      <4>1. SizeSum(S) \in Nat
        BY <1>1
      <4>2. SizeSum(S \ {}) = SizeSum(S)
        BY <3>1
      <4> QED BY <3>1, <4>1, <4>2
    <3> QED BY <3>2
  <2>4. PICK a \in U : TRUE
    BY <2>3
  <2> DEFINE W == U \ {a}
  <2>5. W \in SUBSET S /\ Cardinality(W) = Cardinality(U) - 1 /\ Cardinality(U) \in Nat
    BY <1>1, <2>4, FS_RemoveElement, FS_CardinalityType
  <2>6. Holds(W)
    <3>1. W \notin Bad
      BY <2>2, <2>5
    <3> HIDE DEF Holds
    <3> QED BY <2>5, <3>1, Zenon
  <2>7. SizeSum(U) = a.size + SizeSum(W) /\ SizeSum(W) \in Nat
    BY <1>1, <2>4, SizeSumRemove
  <2>8. a \in S \ W /\ (S \ W) \ {a} = S \ U /\ S \ W \in SUBSET S
    BY <2>4
  <2>9. SizeSum(S \ W) = a.size + SizeSum(S \ U) /\ SizeSum(S \ U) \in Nat
    <3> HIDE DEF W
    <3> QED BY <1>1, <2>8, SizeSumRemove
  <2>10. a.size \in Nat
    BY <1>1, <2>4 DEF Sized
  <2>11. SizeSum(S) \in Nat /\ SizeSum(S \ W) + SizeSum(W) = SizeSum(S)
    BY <1>1, <2>6
  <2>12. Holds(U)
    <3> HIDE DEF W
    <3> QED BY <2>7, <2>9, <2>10, <2>11
  <2> QED BY <2>2, <2>12
<1>3. T \notin Bad
  BY <1>2
<1>4. Holds(T)
  <2> HIDE DEF Holds
  <2> QED BY <1>3, Zenon
<1> QED BY <1>4

\* A file of the window is always requested of the same virtual node.
OneVnode(t, n) == \A i, j \in 1..n : t[i].id = t[j].id => t[i].vnode = t[j].vnode

\* A span is finite, and its files have sizes.
LEMMA SpanSized ==
  ASSUME NEW t, NEW n, Requests(t, n), NEW V, NEW p, NEW k \in 0..n
  PROVE  Sized(Span(t, V, p, k)) /\ SizeSum(Span(t, V, p, k)) \in Nat
<1> DEFINE D == {i \in 1..k : i > p /\ t[i].vnode \in V}
           F == Span(t, V, p, k)
           f == [j \in D |-> FileOf(t[j])]
<1>1. D \in SUBSET (1..n) /\ n \in Nat
  BY DEF Requests
<1>2. IsFiniteSet(D)
  BY <1>1, CardInterval, FS_Subset
<1>3. f \in Surjection(D, F)
  <2>1. F = {FileOf(t[j]) : j \in D}
    BY DEF Span
  <2> HIDE DEF D, F
  <2> QED BY <2>1 DEF Surjection
<1>4. IsFiniteSet(F)
  <2> HIDE DEF D, F, f
  <2> QED BY <1>2, <1>3, FS_Surjection
<1>5. \A x \in F : x.size \in Nat
  <2>1. \A x \in F : x \in Lines
    BY <1>1 DEF Span, Requests
  <2> QED BY <2>1, LinesAssumption DEF Objects
<1>6. Sized(F)
  BY <1>4, <1>5 DEF Sized
<1> QED BY <1>6, SizeSumNat

\* The spans of disjoint sets of virtual nodes have no file in common, so that
\* their bytes add up.
LEMMA SpanSplit ==
  ASSUME NEW t, NEW n, Requests(t, n), OneVnode(t, n),
         NEW V, NEW W, V \cap W = {}, NEW p, NEW k \in 0..n
  PROVE  SizeSum(Span(t, V \cup W, p, k))
           = SizeSum(Span(t, V, p, k)) + SizeSum(Span(t, W, p, k))
<1> DEFINE S == Span(t, V \cup W, p, k)
           A == Span(t, V, p, k)
           B == Span(t, W, p, k)
<1>0. n \in Nat /\ \A j \in 1..k : j \in 1..n
  BY DEF Requests
<1>1. A \subseteq S /\ B \subseteq S /\ S \subseteq A \cup B
  BY DEF Span
<1>2. A \cap B = {}
  <2>1. SUFFICES ASSUME NEW f \in A, f \in B PROVE FALSE
    OBVIOUS
  <2>2. PICK i \in 1..k : t[i].vnode \in V /\ f = FileOf(t[i])
    BY <2>1 DEF Span
  <2>3. PICK j \in 1..k : t[j].vnode \in W /\ f = FileOf(t[j])
    BY <2>1 DEF Span
  <2>4. t[i].id = t[j].id
    BY <2>2, <2>3 DEF FileOf
  <2>5. t[i].vnode = t[j].vnode
    BY <1>0, <2>4 DEF OneVnode
  <2> QED BY <2>2, <2>3, <2>5
<1>3. Sized(S)
  BY SpanSized
<1> HIDE DEF S, A, B
<1>4. S \ B = A /\ B \in SUBSET S
  BY <1>1, <1>2
<1>5. SizeSum(S) = SizeSum(S \ B) + SizeSum(B)
  BY <1>3, <1>4, SizeSumUnion
<1> QED BY <1>4, <1>5 DEF S, A, B

\* A span does not change while no virtual node of the set is requested.
LEMMA SpanQuiet ==
  ASSUME NEW t, NEW V, NEW p, NEW k \in Nat, NEW m \in 0..k,
         \A i \in 1..k : i > m /\ i > p => t[i].vnode \notin V
  PROVE  Span(t, V, p, m) = Span(t, V, p, k)
<1>1. {i \in 1..m : i > p /\ t[i].vnode \in V} = {i \in 1..k : i > p /\ t[i].vnode \in V}
  OBVIOUS
<1> QED BY <1>1 DEF Span

\* A span of nothing.
LEMMA SpanNothing ==
  ASSUME NEW t, NEW V, NEW p, NEW k \in Nat,
         \A i \in 1..k : i > p => t[i].vnode \notin V
  PROVE  SizeSum(Span(t, V, p, k)) = 0
<1>1. {i \in 1..k : i > p /\ t[i].vnode \in V} = {}
  OBVIOUS
<1>2. Span(t, V, p, k) = {}
  BY <1>1 DEF Span
<1>3. Sized({})
  BY FS_EmptySet DEF Sized
<1> QED BY <1>2, <1>3, SizeSumNat

----------------------------------------------------------------------------
(***************************************************************************)
(* The first loop of update(): the window on the stacks of two servers.    *)
(***************************************************************************)

\* The first k requests of a window.
Begun(t, k) == [j \in 1..k |-> t[j]]

\* The window as the servers see it: what is served by a virtual node is
\* served by its owner.
ByServer(t, own) ==
  [j \in DOMAIN t |-> [id |-> t[j].id, size |-> t[j].size, vnode |-> own[t[j].vnode]]]

\* The requests before k for the same file.
Before(t, k) == {j \in 1..(k-1) : t[j].id = t[k].id}

\* last is the last access before request k.
LastBefore(t, k, last) ==
  IF Before(t, k) = {} THEN last = NoAccess
  ELSE last \in Nat /\ last + 1 \in Before(t, k) /\ \A j \in Before(t, k) : j <= last + 1

\* The nodes w are those of the n requests t, if own are the servers.
NodesOf(w, t, own, n) ==
  /\ Requests(t, n) /\ OneVnode(t, n)
  /\ Len(w) = n /\ DOMAIN w = 1..n
  /\ \A k \in 1..n : /\ w[k].vnode = t[k].vnode /\ t[k].vnode \in Vnodes
                     /\ w[k].rnode = own[t[k].vnode] /\ w[k].size = t[k].size
                     /\ LastBefore(t, k, w[k].last)

\* Each node has the stack of its virtual node as it was after the request.
NodesFit(w, t, n) ==
  \A k \in 1..n : StackFits(w[k].arr, Begun(t, k), t[k].vnode)

\* Removing an entry at, before or after the list gives a list.
LEMMA RemoveAtType ==
  ASSUME NEW S, NEW s \in Seq(S), NEW i \in 0..(Len(s) + 1)
  PROVE  RemoveAt(s, i) \in Seq(S)
<1>1. Len(s) \in Nat /\ \A j \in 1..Len(s) : s[j] \in S
  BY LenProperties, ElementOfSeq
<1>2. SubSeq(s, 1, i - 1) \in Seq(S)
  <2>1. \A j \in 1..(i-1) : s[j] \in S
    BY <1>1
  <2>2. i - 1 \in Int /\ 1 \in Int
    BY <1>1
  <2> QED BY <2>1, <2>2, SubSeqProperties
<1>3. SubSeq(s, i + 1, Len(s)) \in Seq(S)
  <2>1. \A j \in (i+1)..Len(s) : s[j] \in S
    BY <1>1
  <2>2. i + 1 \in Int /\ Len(s) \in Int
    BY <1>1
  <2> QED BY <2>1, <2>2, SubSeqProperties
<1> QED BY <1>2, <1>3, ConcatProperties DEF RemoveAt

\* Whatever find() comes upon, a stack stays a stack.
LEMMA AccessedType ==
  ASSUME NEW stack \in Stacks, Len(stack) >= 1, NEW last, NEW size \in Nat,
         NEW position \in Nat, NEW beforeLast
  PROVE  LET new == Accessed(stack, last, size, position, beforeLast)
         IN  new \in Stacks /\ Len(new) >= 1
<1> DEFINE next == Following(stack, last, beforeLast)
           r == Raised(stack, next + 1, size)
           e == [start |-> position + 1, bytes |-> 0]
           all == Raised(stack, 1, size)
<1>1. Len(stack) \in Nat /\ DOMAIN stack = 1..Len(stack)
  BY StackCells
<1>2. next \in 0..(Len(stack) + 1)
  <2>1. CASE Found(stack, last)
    <3> DEFINE k == CHOOSE i \in DOMAIN stack : stack[i].start = last
    <3>1. k \in 1..Len(stack)
      BY <1>1, <2>1 DEF Found
    <3>2. next = 1 + k
      BY <2>1 DEF Following
    <3>3. ASSUME NEW N \in Nat, NEW x \in 1..N PROVE 1 + x \in 0..(N + 1)
      OBVIOUS
    <3> HIDE DEF k, next
    <3>4. 1 + k \in 0..(Len(stack) + 1)
      BY <1>1, <3>1, <3>3
    <3> QED BY <3>2, <3>4
  <2>2. CASE ~Found(stack, last)
    <3>1. next = Len(stack) - IF beforeLast THEN 1 ELSE 0
      BY <2>2 DEF Following
    <3>2. (IF beforeLast THEN 1 ELSE 0) \in {0, 1}
      OBVIOUS
    <3>3. ASSUME NEW N \in Nat, N >= 1, NEW x \in {0, 1}
          PROVE  N - x \in 0..(N + 1)
      BY <3>3
    <3>4. Len(stack) - (IF beforeLast THEN 1 ELSE 0) \in 0..(Len(stack) + 1)
      BY <1>1, <3>2, <3>3
    <3> HIDE DEF next
    <3> QED BY <3>1, <3>4
  <2> QED BY <2>1, <2>2
<1> HIDE DEF next
<1>3. r \in Stacks /\ Len(r) = Len(stack)
  <2>1. next + 1 \in Int
    BY <1>1, <1>2
  <2> QED BY <2>1, RaisedStack
<1>4. all \in Stacks
  <2>1. 1 \in Int
    OBVIOUS
  <2> QED BY <2>1, RaisedStack
<1>5. e \in Fragments
  BY DEF Fragments
<1> HIDE DEF r, all, e
<1>6. RemoveAt(r, next) \in Seq(Fragments)
  <2>1. r \in Seq(Fragments) /\ next \in 0..(Len(r) + 1)
    BY <1>2, <1>3 DEF Stacks, Fragments
  <2> QED BY <2>1, RemoveAtType
<1>7. ASSUME NEW m \in Seq(Fragments)
      PROVE  Append(m, e) \in Stacks /\ Len(Append(m, e)) >= 1
  <2>1. Append(m, e) \in Seq(Fragments) /\ Len(Append(m, e)) = Len(m) + 1
    BY <1>5, AppendProperties
  <2>2. Len(m) \in Nat
    BY LenProperties
  <2> QED BY <2>1, <2>2 DEF Stacks, Fragments
<1>8. all \in Seq(Fragments)
  BY <1>4 DEF Stacks, Fragments
<1>9. Accessed(stack, last, size, position, beforeLast)
        = Append(IF last = NoAccess THEN all ELSE RemoveAt(r, next), e)
  BY DEF Accessed, Merge, next, r, e, all
<1>10. (IF last = NoAccess THEN all ELSE RemoveAt(r, next)) \in Seq(Fragments)
  BY <1>6, <1>8
<1> QED BY <1>7, <1>9, <1>10

GoodStacks == {stack \in Stacks : Len(stack) >= 1}

\* One turn of the loop, from the stacks now.
Turned(w, rivals, picks, k, now) ==
  IF w[k].rnode \notin rivals THEN now
  ELSE [now EXCEPT ![w[k].rnode] = Accessed(@, w[k].last, w[k].size, k - 1,
                                            k \in Again(w) /\ picks[k])]

\* The loop does what its turns do.
LEMMA ReplayLoop ==
  ASSUME NEW w, NEW n \in Nat, Len(w) = n, \A k \in 1..n : w[k].size \in Nat,
         NEW rivals, NEW picks
  PROVE  LET replay == Replay(w, rivals, picks)
         IN  /\ \A k \in 0..n : replay[k] \in [rivals -> GoodStacks]
             /\ replay[0] = [s \in rivals |-> FreshStack]
             /\ \A k \in 1..n : replay[k] = Turned(w, rivals, picks, k, replay[k-1])
<1> DEFINE Loop(f) == [k \in 0..Len(w) |->
                         IF k = 0 THEN [s \in rivals |-> FreshStack]
                         ELSE IF w[k].rnode \notin rivals THEN f[k-1]
                         ELSE [f[k-1] EXCEPT
                                 ![w[k].rnode] = Accessed(@, w[k].last, w[k].size, k - 1,
                                                          k \in Again(w) /\ picks[k])]]
           V == [rivals -> GoodStacks]
           c == [s \in rivals |-> FreshStack]
           step == [k \in 1..n |-> [now \in V |-> Turned(w, rivals, picks, k, now)]]
           g == CHOOSE f : f = Loop(f)
<1>1. Replay(w, rivals, picks) = g
  BY DEF Replay
<1>2. c \in V
  <2>1. FreshStack \in Stacks
    BY FreshCounts DEF StackCounts
  <2>2. Len(FreshStack) = 1
    BY DEF FreshStack
  <2>3. FreshStack \in GoodStacks
    BY <2>1, <2>2 DEF GoodStacks
  <2> QED BY <2>3
<1>3. ASSUME NEW k \in 1..n, NEW now \in V
      PROVE  Turned(w, rivals, picks, k, now) \in V
  <2>1. CASE w[k].rnode \notin rivals
    BY <2>1 DEF Turned
  <2>2. CASE w[k].rnode \in rivals
    <3> DEFINE a == Accessed(now[w[k].rnode], w[k].last, w[k].size, k - 1,
                             k \in Again(w) /\ picks[k])
    <3>1. now[w[k].rnode] \in Stacks /\ Len(now[w[k].rnode]) >= 1
      BY <2>2 DEF GoodStacks
    <3>2. w[k].size \in Nat /\ k - 1 \in Nat
      OBVIOUS
    <3>3. a \in Stacks /\ Len(a) >= 1
      BY <3>1, <3>2, AccessedType
    <3>4. Turned(w, rivals, picks, k, now) = [now EXCEPT ![w[k].rnode] = a]
      BY <2>2 DEF Turned
    <3> HIDE DEF a
    <3> QED BY <2>2, <3>3, <3>4 DEF GoodStacks
  <2> QED BY <2>1, <2>2
<1>4. step \in [1..n -> [V -> V]]
  BY <1>3
<1>5. PICK f : IsRecursion(f, n, V, c, step)
  <2> HIDE DEF step, V, c
  <2> QED BY <1>2, <1>4, RecursionExists
<1>6. /\ f \in [0..n -> V] /\ f[0] = c
      /\ \A k \in 1..n : f[k] = step[k][f[k-1]]
  BY <1>5 DEF IsRecursion
<1>7. \A k \in 1..n : f[k-1] \in V /\ f[k] = Turned(w, rivals, picks, k, f[k-1])
  <2>1. \A k \in 1..n : k - 1 \in 0..n
    OBVIOUS
  <2>2. \A k \in 1..n : f[k-1] \in V
    BY <1>6, <2>1
  <2> HIDE DEF V
  <2> QED BY <1>6, <2>2
<1>8. f = Loop(f)
  <2>1. ASSUME NEW k \in 0..n PROVE f[k] = Loop(f)[k]
    <3>1. CASE k = 0
      BY <1>6, <3>1
    <3>2. CASE k \in 1..n
      <4>1. k # 0
        BY <3>2
      <4> QED BY <1>7, <3>2, <4>1 DEF Turned
    <3> QED BY <3>1, <3>2
  <2>2. DOMAIN f = 0..n /\ DOMAIN Loop(f) = 0..n /\ f = [k \in 0..n |-> f[k]]
    BY <1>6
  <2>3. Loop(f) = [k \in 0..n |-> Loop(f)[k]]
    OBVIOUS
  <2> HIDE DEF Loop
  <2> QED BY <2>1, <2>2, <2>3
<1>9. g = Loop(g)
  <2> HIDE DEF Loop
  <2> QED BY <1>8
<1> HIDE DEF g, V
<1>10. g[0] = c /\ \A k \in 1..n : g[k] = Turned(w, rivals, picks, k, g[k-1])
  <2>1. g[0] = c
    BY <1>9
  <2>2. ASSUME NEW k \in 1..n PROVE g[k] = Turned(w, rivals, picks, k, g[k-1])
    <3>1. k \in 0..n /\ k # 0
      OBVIOUS
    <3> QED BY <1>9, <3>1 DEF Turned
  <2> QED BY <2>1, <2>2
<1> HIDE DEF c, Loop
<1> DEFINE P == {k \in 0..n : g[k] \in V}
<1>11. 0 \in P
  BY <1>2, <1>10
<1>12. ASSUME NEW k \in 1..n, k - 1 \in P PROVE k \in P
  <2>1. Turned(w, rivals, picks, k, g[k-1]) \in V
    <3>1. g[k-1] \in V
      BY <1>12
    <3> QED BY <1>3, <3>1 DEF V
  <2> QED BY <1>10, <2>1
<1>13. P = 0..n
  <2>1. P \in SUBSET (0..n)
    OBVIOUS
  <2> HIDE DEF P
  <2> QED BY <1>11, <1>12, <2>1, UptoInduction
<1> QED BY <1>1, <1>10, <1>13 DEF V, c

\* A fresh stack measures a window without requests.
LEMMA FreshMeasures ==
  ASSUME NEW s, DOMAIN s = {}, NEW v
  PROVE  StackFits(FreshStack, s, v)
<1> DEFINE last == [id \in Ids |-> NoAccess]
<1>1. FreshStack \in Stacks /\ Len(FreshStack) >= 1 /\ DOMAIN FreshStack = {1}
      /\ Len(FreshStack) = 1
      /\ FreshStack[1].start = 0 /\ FreshStack[1].bytes = 0
  BY DEF FreshStack, Stacks
<1>2. LastAccesses(last, s, v)
  BY DEF LastAccesses
<1>3. Boundaries(FreshStack, last)
  <2>1. 2..1 = {} /\ \A i, j \in {1} : ~(i < j)
    OBVIOUS
  <2> QED BY <1>1, <2>1 DEF Boundaries
<1>4. Measured(FreshStack, s, v)
  <2>1. FilesAfter(s, v, 0) = {}
    BY DEF FilesAfter
  <2>2. SizeSum({}) = 0
    BY FS_EmptySet, SizeSumNat DEF Sized
  <2> QED BY <1>1, <2>1, <2>2 DEF Measured
<1>5. Measures(FreshStack, last, s, v)
  BY <1>1, <1>2, <1>3, <1>4 DEF Measures
<1> QED BY <1>5 DEF StackFits

\* A window of k requests is one of k-1 and one more.
LEMMA BegunGrown ==
  ASSUME NEW t, NEW k \in Nat \ {0}
  PROVE  Grown(Begun(t, k - 1), Begun(t, k), k - 1, t[k])
BY DEF Grown, Begun

\* The requests of the servers are requests.
LEMMA ServerRequests ==
  ASSUME NEW t, NEW n, Requests(t, n), NEW own, NEW k \in 0..n
  PROVE  Requests(Begun(ByServer(t, own), k), k) /\ Requests(Begun(t, k), k)
<1>1. n \in Nat /\ DOMAIN t = 1..n /\ \A j \in 1..k : j \in 1..n
  BY DEF Requests
<1>2. \A j \in 1..n : FileOf(ByServer(t, own)[j]) = FileOf(t[j])
  BY <1>1 DEF ByServer, FileOf
<1>3. \A j \in 1..n : FileOf(t[j]) \in Lines
  BY DEF Requests
<1>4. \A j \in 1..k : /\ FileOf(Begun(ByServer(t, own), k)[j]) \in Lines
                      /\ FileOf(Begun(t, k)[j]) \in Lines
  BY <1>1, <1>2, <1>3 DEF Begun
<1> QED BY <1>1, <1>4 DEF Requests, Begun

\* The last access of a node is what the server's last accesses say.
LEMMA LastOfServer ==
  ASSUME NEW w, NEW t, NEW own, NEW n, NodesOf(w, t, own, n), NEW k \in 1..n,
         NEW last, LastAccesses(last, Begun(ByServer(t, own), k - 1), w[k].rnode)
  PROVE  last[t[k].id] = w[k].last
<1> DEFINE s == Begun(ByServer(t, own), k - 1)
           id == t[k].id
           ks == {j \in DOMAIN s : s[j].vnode = w[k].rnode /\ s[j].id = id}
<1>1. /\ n \in Nat /\ DOMAIN t = 1..n /\ id \in Ids
      /\ w[k].rnode = own[t[k].vnode] /\ LastBefore(t, k, w[k].last)
      /\ \A j \in 1..n : t[j].id = id => t[j].vnode = t[k].vnode
  <2>1. FileOf(t[k]) \in Objects /\ FileOf(t[k]).id = id
    BY LinesAssumption DEF NodesOf, Requests, FileOf
  <2> QED BY <2>1 DEF NodesOf, Requests, OneVnode, Objects
<1>2. DOMAIN s = 1..(k-1)
  BY DEF Begun
<1>3. \A j \in 1..(k-1) : j \in 1..n /\ s[j].vnode = own[t[j].vnode] /\ s[j].id = t[j].id
  BY <1>1 DEF Begun, ByServer
<1>4. ks = Before(t, k)
  <2> HIDE DEF s
  <2> QED BY <1>1, <1>2, <1>3 DEF Before
<1>5. /\ last \in [Ids -> {NoAccess} \cup Nat]
      /\ IF ks = {} THEN last[id] = NoAccess
         ELSE last[id] + 1 \in ks /\ \A j \in ks : j <= last[id] + 1
  BY <1>1 DEF LastAccesses
<1> HIDE DEF ks, s, id
<1>6. CASE ks = {}
  BY <1>1, <1>4, <1>5, <1>6 DEF LastBefore, id
<1>7. CASE ks # {}
  <2>1. /\ w[k].last \in Nat /\ w[k].last + 1 \in ks
        /\ \A j \in ks : j <= w[k].last + 1
    BY <1>1, <1>4, <1>7 DEF LastBefore
  <2>2. last[id] + 1 \in ks /\ \A j \in ks : j <= last[id] + 1
    BY <1>5, <1>7
  <2>3. last[id] \in Int
    BY <1>1, <1>5 DEF NoAccess
  <2>4. last[id] + 1 <= w[k].last + 1 /\ w[k].last + 1 <= last[id] + 1
    BY <2>1, <2>2
  <2> QED BY <2>1, <2>3, <2>4 DEF id
<1> QED BY <1>6, <1>7

\* As long as find() succeeds, the stacks of the replay measure what is
\* requested of the two servers.
LEMMA ReplayFits ==
  ASSUME SizesFixed, NEW w, NEW t, NEW own, NEW n, NodesOf(w, t, own, n),
         NEW rivals, NEW picks, NEW replay, replay = Replay(w, rivals, picks),
         ~ReplayMisses(w, rivals, replay)
  PROVE  \A k \in 0..n : \A r \in rivals :
           StackFits(replay[k][r], Begun(ByServer(t, own), k), r)
<1> DEFINE T == ByServer(t, own)
<1>1. /\ n \in Nat /\ DOMAIN t = 1..n /\ Len(w) = n /\ DOMAIN w = 1..n
      /\ Requests(t, n)
      /\ \A k \in 1..n : FileOf(t[k]) \in Lines
      /\ \A k \in 1..n : w[k].rnode = own[t[k].vnode] /\ w[k].size = t[k].size
  BY DEF NodesOf, Requests
<1>2. \A k \in 1..n : w[k].size \in Nat
  <2>1. \A k \in 1..n : FileOf(t[k]) \in Objects
    BY <1>1, LinesAssumption
  <2> QED BY <1>1, <2>1 DEF Objects, FileOf
<1>3. /\ \A k \in 0..n : replay[k] \in [rivals -> GoodStacks]
      /\ replay[0] = [s \in rivals |-> FreshStack]
      /\ \A k \in 1..n : replay[k] = Turned(w, rivals, picks, k, replay[k-1])
  BY <1>1, <1>2, ReplayLoop
<1> DEFINE P == {k \in 0..n : \A r \in rivals : StackFits(replay[k][r], Begun(T, k), r)}
<1> HIDE DEF T
<1>4. 0 \in P
  <2>1. DOMAIN Begun(T, 0) = {}
    BY DEF Begun
  <2>2. \A r \in rivals : replay[0][r] = FreshStack
    BY <1>3
  <2>3. \A r \in rivals : StackFits(FreshStack, Begun(T, 0), r)
    BY <2>1, FreshMeasures
  <2> QED BY <1>1, <2>2, <2>3
<1>5. ASSUME NEW k \in 1..n, k - 1 \in P, NEW r \in rivals
      PROVE  StackFits(replay[k][r], Begun(T, k), r)
  <2> DEFINE s == Begun(T, k - 1)
             q == T[k]
             old == replay[k-1]
             pick == k \in Again(w) /\ picks[k]
  <2>1. PICK last : Measures(old[r], last, s, r)
    BY <1>5 DEF StackFits
  <2>2. /\ q.id = t[k].id /\ q.size = w[k].size /\ q.vnode = w[k].rnode
        /\ FileOf(q) \in Lines
    BY <1>1 DEF T, ByServer, FileOf
  <2>3. k - 1 \in 0..n /\ k \in Nat \ {0} /\ k - 1 \in Nat
    BY <1>1
  <2>4. Requests(s, k - 1)
    BY <1>1, <2>3, ServerRequests DEF T
  <2>5. Grown(s, Begun(T, k), k - 1, q)
    BY <2>3, BegunGrown
  <2>6. old \in [rivals -> GoodStacks]
    BY <1>3, <2>3
  <2>7. q.vnode = r => last[q.id] = w[k].last
    <3> SUFFICES ASSUME q.vnode = r PROVE last[q.id] = w[k].last
      OBVIOUS
    <3>1. LastAccesses(last, Begun(ByServer(t, own), k - 1), w[k].rnode)
      BY <2>1, <2>2 DEF Measures, T
    <3>2. last[t[k].id] = w[k].last
      BY <3>1, LastOfServer
    <3> QED BY <2>2, <3>2
  <2>8. q.vnode = r => w[k].last = NoAccess \/ Found(old[r], w[k].last)
    <3> SUFFICES ASSUME q.vnode = r, w[k].last # NoAccess PROVE Found(old[r], w[k].last)
      OBVIOUS
    <3>1. k \in Again(w) /\ w[k].rnode \in rivals /\ w[k].rnode = r
      BY <1>1, <2>2 DEF Again
    <3>2. Found(replay[k-1][w[k].rnode], w[k].last)
      BY <3>1 DEF ReplayMisses
    <3> QED BY <3>1, <3>2
  <2>9. replay[k][r] = StackNow(old[r], last, r, q, k - 1, pick)
    <3>1. replay[k] = Turned(w, rivals, picks, k, old)
      BY <1>3
    <3>2. CASE q.vnode = r
      <4>1. w[k].rnode = r
        BY <2>2, <3>2
      <4>2. replay[k][r] = Accessed(old[r], w[k].last, w[k].size, k - 1, pick)
        BY <2>6, <3>1, <4>1 DEF Turned
      <4>3. StackNow(old[r], last, r, q, k - 1, pick)
              = Accessed(old[r], last[q.id], q.size, k - 1, pick)
        BY <3>2 DEF StackNow
      <4> QED BY <2>2, <2>7, <3>2, <4>2, <4>3
    <3>3. CASE q.vnode # r
      <4>1. w[k].rnode # r
        BY <2>2, <3>3
      <4>2. replay[k][r] = old[r]
        BY <2>6, <3>1, <4>1 DEF Turned
      <4> QED BY <3>3, <4>2 DEF StackNow
    <3> QED BY <3>2, <3>3
  <2>10. q.vnode = r => last[q.id] = NoAccess \/ Found(old[r], last[q.id])
    BY <2>7, <2>8
  <2> HIDE DEF s, q, old, pick
  <2>11. Measures(StackNow(old[r], last, r, q, k - 1, pick),
                  LastNow(last, r, q, k - 1), Begun(T, k), r)
    BY <2>1, <2>2, <2>4, <2>5, <2>10, StackStep
  <2> QED BY <2>9, <2>11 DEF StackFits
<1>6. P = 0..n
  <2>1. P \in SUBSET (0..n)
    OBVIOUS
  <2>2. \A k \in 1..n : k - 1 \in P => k \in P
    <3>1. \A k \in 1..n : k \in 0..n
      BY <1>1
    <3> QED BY <1>5, <3>1
  <2> HIDE DEF P
  <2> QED BY <1>1, <1>4, <2>1, <2>2, UptoInduction
<1> QED BY <1>6 DEF T

----------------------------------------------------------------------------
(***************************************************************************)
(* The second loop: the stack distances if a virtual node were elsewhere.  *)
(***************************************************************************)

\* The virtual nodes of server r.
Group(own, r) == {u \in Vnodes : own[u] = r}

\* The bytes of distinct files requested of the server of request k since the
\* last request for its file, if own are the servers.
Distance(t, own, k) ==
  SizeSum(Span(t, Group(own, own[t[k].vnode]), Max(Before(t, k)) - 1, k))

\* What a stack of the window measures are spans.
LEMMA SpansMeasured ==
  ASSUME NEW t, NEW n, Requests(t, n), NEW k \in 0..n, NEW p, NEW own,
         \A j \in 1..n : t[j].vnode \in Vnodes
  PROVE  /\ \A v : FilesAfter(Begun(t, k), v, p) = Span(t, {v}, p, k)
         /\ \A r : FilesAfter(Begun(ByServer(t, own), k), r, p)
                     = Span(t, Group(own, r), p, k)
<1>1. n \in Nat /\ DOMAIN t = 1..n /\ \A j \in 1..k : j \in 1..n
  BY DEF Requests
<1>2. ASSUME NEW v
      PROVE  FilesAfter(Begun(t, k), v, p) = Span(t, {v}, p, k)
  <2> DEFINE s == Begun(t, k)
             D == {j \in DOMAIN s : j > p /\ s[j].vnode = v}
             E == {i \in 1..k : i > p /\ t[i].vnode \in {v}}
  <2>1. DOMAIN s = 1..k /\ \A j \in 1..k : s[j] = t[j]
    BY DEF Begun
  <2>2. FilesAfter(s, v, p) = {FileOf(s[j]) : j \in D}
    BY DEF FilesAfter
  <2>3. Span(t, {v}, p, k) = {FileOf(t[j]) : j \in E}
    BY DEF Span
  <2> HIDE DEF s
  <2>4. D = E /\ \A j \in D : s[j] = t[j]
    BY <2>1
  <2> HIDE DEF D, E
  <2> QED BY <2>2, <2>3, <2>4 DEF s
<1>3. ASSUME NEW r
      PROVE  FilesAfter(Begun(ByServer(t, own), k), r, p) = Span(t, Group(own, r), p, k)
  <2> DEFINE s == Begun(ByServer(t, own), k)
             D == {j \in DOMAIN s : j > p /\ s[j].vnode = r}
             E == {i \in 1..k : i > p /\ t[i].vnode \in Group(own, r)}
  <2>1. DOMAIN s = 1..k
    BY DEF Begun
  <2>2. \A j \in 1..k : s[j].vnode = own[t[j].vnode] /\ FileOf(s[j]) = FileOf(t[j])
    BY <1>1 DEF Begun, ByServer, FileOf
  <2>3. \A j \in 1..k : t[j].vnode \in Group(own, r) <=> own[t[j].vnode] = r
    BY <1>1 DEF Group
  <2>4. FilesAfter(s, r, p) = {FileOf(s[j]) : j \in D}
    BY DEF FilesAfter
  <2>5. Span(t, Group(own, r), p, k) = {FileOf(t[j]) : j \in E}
    BY DEF Span
  <2> HIDE DEF s
  <2>6. D = E
    BY <2>1, <2>2, <2>3
  <2>7. \A j \in D : FileOf(s[j]) = FileOf(t[j])
    BY <2>1, <2>2
  <2> HIDE DEF D, E
  <2>8. {FileOf(s[j]) : j \in D} = {FileOf(t[j]) : j \in D}
    BY <2>7
  <2> QED BY <2>4, <2>5, <2>6, <2>8 DEF s
<1> QED BY <1>2, <1>3

\* A node that has a last access is one of a file requested before.
LEMMA AgainBefore ==
  ASSUME NEW w, NEW t, NEW own, NEW n, NodesOf(w, t, own, n), NEW k \in 1..n
  PROVE  /\ k \in Again(w) <=> Before(t, k) # {}
         /\ k \in Again(w) => /\ w[k].last \in Nat
                              /\ w[k].last = Max(Before(t, k)) - 1
                              /\ w[k].last + 1 \in 1..(k-1)
<1> DEFINE B == Before(t, k)
           l == w[k].last
<1>1. n \in Nat /\ DOMAIN w = 1..n /\ LastBefore(t, k, l)
  BY DEF NodesOf, Requests
<1>2. k \in Again(w) <=> l # NoAccess
  BY <1>1 DEF Again
<1>3. B \in SUBSET (1..(k-1))
  BY DEF Before
<1>4. IF B = {} THEN l = NoAccess
      ELSE l \in Nat /\ l + 1 \in B /\ \A j \in B : j <= l + 1
  BY <1>1 DEF LastBefore
<1> HIDE DEF B, l
<1>5. CASE B = {}
  BY <1>2, <1>4, <1>5 DEF B
<1>6. CASE B # {}
  <2>1. l \in Nat /\ l + 1 \in B /\ \A j \in B : j <= l + 1
    BY <1>4, <1>6
  <2>2. l # NoAccess
    BY <2>1 DEF NoAccess
  <2>3. Max(B) \in B /\ \A j \in B : j <= Max(B)
    <3>1. B \in SUBSET Nat /\ k \in Nat /\ \A j \in B : j <= k
      BY <1>1, <1>3
    <3> QED BY <1>6, <3>1, MaxGreatest
  <2>4. Max(B) \in Nat /\ Max(B) <= l + 1 /\ l + 1 <= Max(B)
    <3>1. Max(B) <= l + 1 /\ l + 1 <= Max(B)
      BY <2>1, <2>3
    <3>2. Max(B) \in Nat
      <4>1. B \in SUBSET Nat
        BY <1>3
      <4> QED BY <2>3, <4>1
    <3> QED BY <3>1, <3>2
  <2>5. l = Max(B) - 1
    BY <2>1, <2>4
  <2> QED BY <1>2, <1>3, <1>6, <2>1, <2>2, <2>5 DEF B, l
<1> QED BY <1>5, <1>6

\* The requests of V before k.
Earlier(t, V, k) == {j \in 1..(k-1) : t[j].vnode \in V}

\* What is requested of V until k was requested until the last request of V.
LEMMA SpanUntilLast ==
  ASSUME NEW t, NEW V, NEW p, NEW k \in Nat \ {0}, t[k].vnode \notin V,
         NEW L, L = Earlier(t, V, k)
  PROVE  /\ L = {} => SizeSum(Span(t, V, p, k)) = 0
         /\ L # {} => /\ Max(L) \in 1..(k-1) /\ t[Max(L)].vnode \in V
                      /\ Span(t, V, p, Max(L)) = Span(t, V, p, k)
<1>1. \A j \in 1..k : j \in 1..(k-1) \/ j = k
  OBVIOUS
<1>2. \A j \in 1..k : t[j].vnode \in V => j \in L
  BY <1>1 DEF Earlier
<1>3. L \in SUBSET (1..(k-1)) /\ \A j \in L : t[j].vnode \in V
  BY DEF Earlier
<1>4. CASE L = {}
  <2>1. \A j \in 1..k : j > p => t[j].vnode \notin V
    BY <1>2, <1>4
  <2>2. k \in Nat
    OBVIOUS
  <2>3. SizeSum(Span(t, V, p, k)) = 0
    BY <2>1, <2>2, SpanNothing
  <2> QED BY <1>4, <2>3
<1>5. CASE L # {}
  <2> DEFINE m == Max(L)
  <2>1. m \in L /\ \A j \in L : j <= m
    <3>1. L \in SUBSET Nat /\ k \in Nat /\ \A j \in L : j <= k
      BY <1>3
    <3> QED BY <1>5, <3>1, MaxGreatest
  <2> HIDE DEF m
  <2>2. m \in 1..(k-1) /\ t[m].vnode \in V
    BY <1>3, <2>1
  <2>3. k \in Nat /\ m \in 0..k
    BY <2>2
  <2>4. \A i \in 1..k : i > m /\ i > p => t[i].vnode \notin V
    <3> SUFFICES ASSUME NEW i \in 1..k, i > m, t[i].vnode \in V PROVE FALSE
      OBVIOUS
    <3>1. i \in L
      BY <1>2
    <3>2. i <= m
      BY <2>1, <3>1
    <3> QED BY <2>2, <3>2
  <2>5. Span(t, V, p, m) = Span(t, V, p, k)
    BY <2>3, <2>4, SpanQuiet
  <2> QED BY <1>5, <2>2, <2>5 DEF m
<1> QED BY <1>4, <1>5

\* The nodes w and the stacks of the replay are what the requests t make.
Replayed(w, t, own, n, rivals, replay) ==
  /\ NodesOf(w, t, own, n) /\ NodesFit(w, t, n)
  /\ \A k \in 0..n : \A r \in rivals :
       StackFits(replay[k][r], Begun(ByServer(t, own), k), r)

\* The stack of a server in the replay tells the bytes requested of it.
LEMMA ServerTold ==
  ASSUME SizesFixed, NEW w, NEW t, NEW own, NEW n, NEW rivals, NEW replay,
         Replayed(w, t, own, n, rivals, replay), NEW p \in Nat, NEW k \in 1..n,
         NEW r \in rivals
  PROVE  CValue(replay[k][r], p) = SizeSum(Span(t, Group(own, r), p, k))
<1>1. /\ Requests(t, n) /\ \A j \in 1..n : t[j].vnode \in Vnodes
      /\ k \in 0..n
  BY DEF Replayed, NodesOf, Requests
<1>2. Requests(Begun(ByServer(t, own), k), k)
  BY <1>1, ServerRequests
<1>3. FilesAfter(Begun(ByServer(t, own), k), r, p) = Span(t, Group(own, r), p, k)
  BY <1>1, SpansMeasured
<1>4. StackFits(replay[k][r], Begun(ByServer(t, own), k), r)
  BY <1>1 DEF Replayed
<1>5. CValue(replay[k][r], p) = SizeSum(FilesAfter(Begun(ByServer(t, own), k), r, p))
  BY <1>2, <1>4, CValueFits
<1> QED BY <1>3, <1>5

\* The stack a node keeps tells those requested of its virtual node.
LEMMA VnodeTold ==
  ASSUME SizesFixed, NEW w, NEW t, NEW own, NEW n, NEW rivals, NEW replay,
         Replayed(w, t, own, n, rivals, replay), NEW p \in Nat, NEW k \in 1..n
  PROVE  CValue(w[k].arr, p) = SizeSum(Span(t, {t[k].vnode}, p, k))
<1>1. /\ Requests(t, n) /\ \A j \in 1..n : t[j].vnode \in Vnodes
      /\ k \in 0..n
  BY DEF Replayed, NodesOf, Requests
<1>2. Requests(Begun(t, k), k)
  BY <1>1, ServerRequests
<1>3. FilesAfter(Begun(t, k), t[k].vnode, p) = Span(t, {t[k].vnode}, p, k)
  BY <1>1, SpansMeasured
<1>4. StackFits(w[k].arr, Begun(t, k), t[k].vnode)
  BY DEF Replayed, NodesFit
<1>5. CValue(w[k].arr, p) = SizeSum(FilesAfter(Begun(t, k), t[k].vnode, p))
  BY <1>2, <1>4, CValueFits
<1> QED BY <1>3, <1>5

\* The stack distance of a request is its distance by definition.
LEMMA DistanceRight ==
  ASSUME SizesFixed, NEW w, NEW t, NEW own, NEW n, NEW rivals, NEW replay,
         Replayed(w, t, own, n, rivals, replay), NEW k \in 1..n,
         k \in Again(w), w[k].rnode \in rivals
  PROVE  C(w, replay, k) = Distance(t, own, k)
<1>1. w[k].last \in Nat /\ w[k].last = Max(Before(t, k)) - 1
  BY AgainBefore DEF Replayed
<1>2. w[k].rnode = own[t[k].vnode]
  BY DEF Replayed, NodesOf
<1>3. CValue(replay[k][w[k].rnode], w[k].last)
        = SizeSum(Span(t, Group(own, w[k].rnode), w[k].last, k))
  BY <1>1, ServerTold
<1>4. Span(t, Group(own, own[t[k].vnode]), Max(Before(t, k)) - 1, k)
        = Span(t, Group(own, w[k].rnode), w[k].last, k)
  BY <1>1, <1>2
<1> QED BY <1>3, <1>4 DEF C, ArrRnode, Distance

\* v is on a and may go to b.
Movable(own, v, a, b) == DOMAIN own = Vnodes /\ v \in Vnodes /\ own[v] = a /\ a # b

\* Virtual node v on b.
MovedTo(own, v, b) == [own EXCEPT ![v] = b]

\* The groups after virtual node v has gone from a to b.
LEMMA GroupsMoved ==
  ASSUME NEW own, NEW v, NEW a, NEW b, Movable(own, v, a, b),
         NEW now, now = MovedTo(own, v, b)
  PROVE  /\ Group(now, b) = {v} \cup Group(own, b) /\ {v} \cap Group(own, b) = {}
         /\ Group(own, a) = {v} \cup Group(now, a) /\ {v} \cap Group(now, a) = {}
         /\ \A r : r \notin {a, b} => Group(now, r) = Group(own, r)
         /\ now[v] = b /\ \A u \in Vnodes : u # v => now[u] = own[u]
BY DEF Group, MovedTo, Movable

\* What the queues add to the distance of a request of v is what was requested
\* of min_i.
LEMMA SinceServer ==
  ASSUME SizesFixed, NEW w, NEW t, NEW own, NEW n, NEW rivals, NEW replay,
         Replayed(w, t, own, n, rivals, replay), NEW p \in Nat, NEW k \in 1..n,
         NEW b \in rivals, own[t[k].vnode] # b,
         NEW L, L = Earlier(t, Group(own, b), k)
  PROVE  SizeSum(Span(t, Group(own, b), p, k))
           = IF L = {} THEN 0 ELSE CValue(replay[Max(L)][b], p)
<1>1. /\ n \in Nat /\ \A j \in 1..n : t[j].vnode \in Vnodes
      /\ k \in Nat \ {0} /\ \A j \in 1..(k-1) : j \in 1..n
  BY DEF Replayed, NodesOf, Requests
<1> DEFINE m == Max(L)
           V == Group(own, b)
<1>2. L = Earlier(t, V, k) /\ t[k].vnode \notin V
  BY <1>1 DEF Group
<1> HIDE DEF V
<1>3. /\ L = {} => SizeSum(Span(t, V, p, k)) = 0
      /\ L # {} => m \in 1..(k-1) /\ Span(t, V, p, m) = Span(t, V, p, k)
  BY <1>1, <1>2, SpanUntilLast
<1> HIDE DEF m
<1>4. ASSUME L # {}
      PROVE  SizeSum(Span(t, V, p, k)) = CValue(replay[m][b], p)
  <2>1. m \in 1..n
    BY <1>1, <1>3, <1>4
  <2>2. CValue(replay[m][b], p) = SizeSum(Span(t, Group(own, b), p, m))
    BY <2>1, ServerTold
  <2> QED BY <1>3, <1>4, <2>2 DEF V
<1> QED BY <1>3, <1>4 DEF V, m

Only(V, v) == V = {v}

\* What they add to the distance of one of min_i, or take off, is what was
\* requested of v.
LEMMA SinceVnode ==
  ASSUME SizesFixed, NEW w, NEW t, NEW own, NEW n, NEW rivals, NEW replay,
         Replayed(w, t, own, n, rivals, replay), NEW p \in Nat, NEW k \in 1..n,
         NEW v, t[k].vnode # v, NEW V, Only(V, v), NEW L, L = Earlier(t, V, k)
  PROVE  SizeSum(Span(t, V, p, k)) = IF L = {} THEN 0 ELSE CValue(w[Max(L)].arr, p)
<1>1. /\ n \in Nat /\ k \in Nat \ {0} /\ \A j \in 1..(k-1) : j \in 1..n
  BY DEF Replayed, NodesOf, Requests
<1> DEFINE m == Max(L)
<1>2. L = Earlier(t, V, k) /\ t[k].vnode \notin V
  BY DEF Only
<1>3. /\ L = {} => SizeSum(Span(t, V, p, k)) = 0
      /\ L # {} => /\ m \in 1..(k-1) /\ t[m].vnode \in V
                   /\ Span(t, V, p, m) = Span(t, V, p, k)
  BY <1>1, <1>2, SpanUntilLast
<1> HIDE DEF m
<1>4. ASSUME L # {}
      PROVE  SizeSum(Span(t, V, p, k)) = CValue(w[m].arr, p)
  <2>1. m \in 1..n /\ t[m].vnode = v /\ V = {t[m].vnode}
    BY <1>1, <1>3, <1>4 DEF Only
  <2>2. CValue(w[m].arr, p) = SizeSum(Span(t, {t[m].vnode}, p, m))
    BY <2>1, VnodeTold
  <2> QED BY <1>3, <1>4, <2>1, <2>2
<1> QED BY <1>3, <1>4 DEF m

\* The stack distance of a request if virtual node v were on b is its distance
\* by definition with v on b.
LEMMA MovedRight ==
  ASSUME SizesFixed, NEW w, NEW t, NEW own, NEW n, NEW a, NEW b, NEW replay,
         Replayed(w, t, own, n, {a, b}, replay), NEW v, Movable(own, v, a, b),
         NEW k \in 1..n, k \in Again(w), w[k].rnode \in {a, b}
  PROVE  MovedDistance(w, replay, v, b, k) = Distance(t, MovedTo(own, v, b), k)
<1> DEFINE now == MovedTo(own, v, b)
           l == w[k].last
           ofMin == {j \in DOMAIN w : w[j].rnode = b}
           moved == {j \in DOMAIN w \ ofMin : w[j].vnode = v}
           last_m == {j \in ofMin : j < k}
           last_v == {j \in moved : j < k}
           since_m == IF last_m = {} THEN 0
                      ELSE CValue(ArrRnode(w, replay, Max(last_m)), l)
           since_v == IF last_v = {} THEN 0 ELSE CValue(w[Max(last_v)].arr, l)
           Lm == {j \in 1..(k-1) : own[t[j].vnode] = b}
           Lv == {j \in 1..(k-1) : t[j].vnode = v}
           Size(V) == SizeSum(Span(t, V, l, k))
<1>1. /\ Requests(t, n) /\ OneVnode(t, n) /\ n \in Nat /\ DOMAIN w = 1..n
      /\ \A j \in 1..n : /\ w[j].vnode = t[j].vnode /\ t[j].vnode \in Vnodes
                         /\ w[j].rnode = own[t[j].vnode]
      /\ k \in 0..n
  BY DEF Replayed, NodesOf, Requests
<1>0. now = MovedTo(own, v, b)
  OBVIOUS
<1>17. DOMAIN own = Vnodes /\ v \in Vnodes /\ own[v] = a /\ a # b
  BY DEF Movable
<1>3. l \in Nat /\ l = Max(Before(t, k)) - 1
  BY AgainBefore DEF Replayed
<1> HIDE DEF now, l
<1>2. /\ Group(now, b) = {v} \cup Group(own, b) /\ {v} \cap Group(own, b) = {}
      /\ Group(own, a) = {v} \cup Group(now, a) /\ {v} \cap Group(now, a) = {}
      /\ now[v] = b /\ \A u \in Vnodes : u # v => now[u] = own[u]
  BY <1>0, GroupsMoved
<1>4. /\ ofMin = {j \in 1..n : own[t[j].vnode] = b}
      /\ moved = {j \in 1..n : t[j].vnode = v}
  BY <1>17, <1>1
<1>5. last_m = Lm /\ last_v = Lv
  <2>1. \A j \in 1..n : j < k <=> j \in 1..(k-1)
    BY <1>1
  <2>2. \A j \in 1..(k-1) : j \in 1..n
    BY <1>1
  <2> HIDE DEF ofMin, moved
  <2> QED BY <1>4, <2>1, <2>2
<1>6. MovedDistance(w, replay, v, b, k)
        = CASE k \in moved -> CVnode(w, k) + since_m
            [] k \in ofMin -> C(w, replay, k) + since_v
            [] OTHER       -> C(w, replay, k) - since_v
  BY DEF MovedDistance, l
<1>7. Distance(t, now, k) = Size(Group(now, now[t[k].vnode]))
  BY <1>3 DEF Distance
<1> HIDE DEF ofMin, moved
<1>8. \A V : Size(V) \in Nat
  BY <1>1, SpanSized
<1>9. \A V, W : V \cap W = {} => Size(V \cup W) = Size(V) + Size(W)
  <2> SUFFICES ASSUME NEW V, NEW W, V \cap W = {}
               PROVE  Size(V \cup W) = Size(V) + Size(W)
    OBVIOUS
  <2> QED BY <1>1, SpanSplit
<1>10. own[t[k].vnode] # b => Size(Group(own, b)) = since_m
  <2> SUFFICES ASSUME own[t[k].vnode] # b PROVE Size(Group(own, b)) = since_m
    OBVIOUS
  <2>1. Size(Group(own, b)) = IF Lm = {} THEN 0 ELSE CValue(replay[Max(Lm)][b], l)
    <3>1. b \in {a, b} /\ l \in Nat
      BY <1>3
    <3> HIDE DEF Lm
    <3>2. Lm = Earlier(t, Group(own, b), k)
      <4>1. \A j \in 1..(k-1) : own[t[j].vnode] = b <=> t[j].vnode \in Group(own, b)
        BY <1>1 DEF Group
      <4> QED BY <4>1 DEF Earlier, Lm
    <3> QED BY <3>1, <3>2, SinceServer
  <2>2. ASSUME Lm # {} PROVE ArrRnode(w, replay, Max(Lm)) = replay[Max(Lm)][b]
    <3>1. Max(Lm) \in Lm
      <4>1. Lm \in SUBSET Nat /\ \A j \in Lm : j <= k
        BY <1>1
      <4>2. k \in Nat
        BY <1>1
      <4> HIDE DEF Lm
      <4> QED BY <2>2, <4>1, <4>2, MaxGreatest
    <3>2. Max(Lm) \in 1..n /\ own[t[Max(Lm)].vnode] = b
      <4>1. \A j \in Lm : j \in 1..n /\ own[t[j].vnode] = b
        BY <1>1
      <4> HIDE DEF Lm
      <4> QED BY <3>1, <4>1
    <3>3. w[Max(Lm)].rnode = b
      BY <1>1, <3>2
    <3> QED BY <3>3 DEF ArrRnode
  <2> HIDE DEF Lm
  <2> QED BY <1>5, <2>1, <2>2
<1>11. t[k].vnode # v => Size({v}) = since_v
  <2> SUFFICES ASSUME t[k].vnode # v PROVE Size({v}) = since_v
    OBVIOUS
  <2>1. Size({v}) = IF Lv = {} THEN 0 ELSE CValue(w[Max(Lv)].arr, l)
    <3> HIDE DEF Lv
    <3> DEFINE V == {v}
    <3>1. Lv = Earlier(t, V, k) /\ Only(V, v)
      BY DEF Lv, Earlier, Only
    <3> DEFINE R == {a, b}
    <3>2. l \in Nat /\ Replayed(w, t, own, n, R, replay) /\ t[k].vnode # v
      BY <1>3
    <3> HIDE DEF V, R
    <3>3. SizeSum(Span(t, V, l, k)) = IF Lv = {} THEN 0 ELSE CValue(w[Max(Lv)].arr, l)
      BY <3>1, <3>2, SinceVnode
    <3> QED BY <3>3 DEF V
  <2> QED BY <1>5, <2>1
<1>12. /\ CVnode(w, k) = Size({t[k].vnode})
       /\ C(w, replay, k) = Size(Group(own, own[t[k].vnode]))
  <2>1. /\ CValue(replay[k][w[k].rnode], l) = Size(Group(own, w[k].rnode))
        /\ CValue(w[k].arr, l) = Size({t[k].vnode})
    <3>1. w[k].rnode \in {a, b}
      OBVIOUS
    <3> QED BY <1>3, <3>1, ServerTold, VnodeTold
  <2> QED BY <1>1, <2>1 DEF CVnode, C, ArrRnode, l
<1> HIDE DEF Size, since_m, since_v, last_m, last_v, Lm, Lv
<1>13. CASE t[k].vnode = v
  <2>1. k \in moved /\ k \notin ofMin /\ own[t[k].vnode] # b
    BY <1>17, <1>4, <1>13
  <2>2. MovedDistance(w, replay, v, b, k) = CVnode(w, k) + since_m
    BY <1>6, <2>1
  <2>3. now[t[k].vnode] = b /\ Size(Group(now, b)) = Size({v}) + Size(Group(own, b))
    BY <1>2, <1>9, <1>13
  <2> QED BY <1>7, <1>10, <1>12, <1>13, <2>1, <2>2, <2>3 DEF now
<1>14. CASE t[k].vnode # v /\ own[t[k].vnode] = b
  <2>1. k \notin moved /\ k \in ofMin
    BY <1>4, <1>14
  <2>2. MovedDistance(w, replay, v, b, k) = C(w, replay, k) + since_v
    BY <1>6, <2>1
  <2>3. now[t[k].vnode] = b
    BY <1>17, <1>1, <1>2, <1>14
  <2>4. Size(Group(now, b)) = Size({v}) + Size(Group(own, b))
    BY <1>2, <1>9
  <2>5. C(w, replay, k) = Size(Group(own, b)) /\ since_v = Size({v})
    BY <1>11, <1>12, <1>14
  <2>6. Size(Group(own, b)) \in Nat /\ Size({v}) \in Nat
    BY <1>8
  <2>7. Distance(t, now, k) = Size(Group(now, b))
    BY <1>7, <2>3
  <2> QED BY <2>2, <2>4, <2>5, <2>6, <2>7 DEF now
<1>15. CASE t[k].vnode # v /\ own[t[k].vnode] # b
  <2>1. k \notin moved /\ k \notin ofMin
    BY <1>4, <1>15
  <2>2. MovedDistance(w, replay, v, b, k) = C(w, replay, k) - since_v
    BY <1>6, <2>1
  <2>3. own[t[k].vnode] = a /\ now[t[k].vnode] = a
    BY <1>17, <1>1, <1>2, <1>15
  <2>4. Size(Group(own, a)) = Size({v}) + Size(Group(now, a))
    BY <1>2, <1>9
  <2>5. C(w, replay, k) = Size(Group(own, a)) /\ since_v = Size({v})
    BY <1>11, <1>12, <1>15, <2>3
  <2>6. Size(Group(now, a)) \in Nat /\ Size({v}) \in Nat
    BY <1>8
  <2>7. Distance(t, now, k) = Size(Group(now, a))
    BY <1>7, <2>3
  <2> QED BY <2>2, <2>4, <2>5, <2>6, <2>7 DEF now
<1> QED BY <1>13, <1>14, <1>15

----------------------------------------------------------------------------
(***************************************************************************)
(* The requests that hit, counted.                                         *)
(***************************************************************************)

\* The requests that hit by definition.
HitsOf(t, own, n) ==
  {k \in 1..n : Before(t, k) # {} /\ Distance(t, own, k) < threshold}

\* The requests of the servers in rivals.
RequestsOf(t, own, n, rivals) == {k \in 1..n : own[t[k].vnode] \in rivals}

\* The optimizer counts the hits of the two servers, where they are.
LEMMA HitsCounted ==
  ASSUME SizesFixed, NEW w, NEW t, NEW own, NEW n, NEW rivals, NEW replay,
         Replayed(w, t, own, n, rivals, replay)
  PROVE  Hits(w, replay, rivals)
           = Cardinality(HitsOf(t, own, n) \cap RequestsOf(t, own, n, rivals))
<1> DEFINE S == {k \in Again(w) : /\ w[k].rnode \in rivals
                                  /\ C(w, replay, k) < threshold}
           T == HitsOf(t, own, n) \cap RequestsOf(t, own, n, rivals)
<1>1. /\ DOMAIN w = 1..n /\ \A k \in 1..n : w[k].rnode = own[t[k].vnode]
      /\ Again(w) \subseteq 1..n /\ NodesOf(w, t, own, n)
  BY DEF Replayed, NodesOf, Again
<1>2. ASSUME NEW k \in S PROVE k \in T
  <2>1. k \in Again(w) /\ k \in 1..n /\ w[k].rnode \in rivals /\ C(w, replay, k) < threshold
    BY <1>1
  <2>2. C(w, replay, k) = Distance(t, own, k)
    BY <2>1, DistanceRight
  <2>3. Before(t, k) # {}
    BY <1>1, <2>1, AgainBefore
  <2> QED BY <1>1, <2>1, <2>2, <2>3 DEF HitsOf, RequestsOf
<1>3. ASSUME NEW k \in T PROVE k \in S
  <2>1. /\ k \in 1..n /\ Before(t, k) # {} /\ Distance(t, own, k) < threshold
        /\ w[k].rnode \in rivals
    BY <1>1 DEF HitsOf, RequestsOf
  <2>2. k \in Again(w)
    BY <1>1, <2>1, AgainBefore
  <2>3. C(w, replay, k) = Distance(t, own, k)
    BY <2>1, <2>2, DistanceRight
  <2> QED BY <2>1, <2>2, <2>3
<1>4. S = T
  BY <1>2, <1>3
<1> QED BY <1>4 DEF Hits

\* And it counts theirs with virtual node v moved.
LEMMA MovedHitsCounted ==
  ASSUME SizesFixed, NEW w, NEW t, NEW own, NEW n, NEW a, NEW b, NEW replay,
         Replayed(w, t, own, n, {a, b}, replay), NEW v, Movable(own, v, a, b)
  PROVE  MovedHits(w, replay, {a, b}, v, b)
           = Cardinality(HitsOf(t, MovedTo(own, v, b), n)
                           \cap RequestsOf(t, own, n, {a, b}))
<1> DEFINE now == MovedTo(own, v, b)
           rivals == {a, b}
           S == {k \in Again(w) : /\ w[k].rnode \in rivals
                                  /\ MovedDistance(w, replay, v, b, k) \in 0..(threshold - 1)}
           T == HitsOf(t, now, n) \cap RequestsOf(t, own, n, rivals)
<1>0. threshold \in Nat
  BY ParametersAssumption
<1>1. /\ DOMAIN w = 1..n /\ \A k \in 1..n : w[k].rnode = own[t[k].vnode]
      /\ Again(w) \subseteq 1..n /\ NodesOf(w, t, own, n) /\ Requests(t, n)
  BY DEF Replayed, NodesOf, Again
<1>2. ASSUME NEW k \in 1..n, k \in Again(w), w[k].rnode \in rivals
      PROVE  /\ MovedDistance(w, replay, v, b, k) = Distance(t, now, k)
             /\ Distance(t, now, k) \in Nat
  <2>1. MovedDistance(w, replay, v, b, k) = Distance(t, now, k)
    <3>1. w[k].rnode \in {a, b} /\ k \in 1..n /\ k \in Again(w)
      BY <1>2
    <3> QED BY <3>1, MovedRight
  <2>2. k \in 0..n
    BY <1>1 DEF Requests
  <2>3. Distance(t, now, k) \in Nat
    BY <1>1, <2>2, SpanSized DEF Distance
  <2> QED BY <2>1, <2>3
<1> HIDE DEF now, rivals
<1>3. ASSUME NEW k \in S PROVE k \in T
  <2>1. /\ k \in Again(w) /\ k \in 1..n /\ w[k].rnode \in rivals
        /\ MovedDistance(w, replay, v, b, k) \in 0..(threshold - 1)
    BY <1>1
  <2>2. Distance(t, now, k) < threshold
    BY <1>0, <1>2, <2>1
  <2>3. Before(t, k) # {}
    BY <1>1, <2>1, AgainBefore
  <2> QED BY <1>1, <2>1, <2>2, <2>3 DEF HitsOf, RequestsOf
<1>4. ASSUME NEW k \in T PROVE k \in S
  <2>1. /\ k \in 1..n /\ Before(t, k) # {} /\ Distance(t, now, k) < threshold
        /\ w[k].rnode \in rivals
    BY <1>1 DEF HitsOf, RequestsOf
  <2>2. k \in Again(w)
    BY <1>1, <2>1, AgainBefore
  <2>3. MovedDistance(w, replay, v, b, k) \in 0..(threshold - 1)
    BY <1>0, <1>2, <2>1, <2>2
  <2> QED BY <2>1, <2>2, <2>3
<1>5. S = T
  BY <1>3, <1>4
<1> QED BY <1>5 DEF MovedHits, now, rivals

\* The other servers' hits stay.
LEMMA OtherHitsStay ==
  ASSUME NEW t, NEW own, NEW n, NEW a, NEW b,
         \A k \in 1..n : t[k].vnode \in Vnodes, NEW v, Movable(own, v, a, b)
  PROVE  HitsOf(t, MovedTo(own, v, b), n) \ RequestsOf(t, own, n, {a, b})
           = HitsOf(t, own, n) \ RequestsOf(t, own, n, {a, b})
<1> DEFINE now == MovedTo(own, v, b)
<1>1. ASSUME NEW k \in 1..n, own[t[k].vnode] \notin {a, b}
      PROVE  Distance(t, now, k) = Distance(t, own, k)
  <2>1. t[k].vnode # v /\ t[k].vnode \in Vnodes
    BY <1>1 DEF Movable
  <2>2. now = MovedTo(own, v, b)
    OBVIOUS
  <2> HIDE DEF now
  <2>3. /\ \A r : r \notin {a, b} => Group(now, r) = Group(own, r)
        /\ \A u \in Vnodes : u # v => now[u] = own[u]
    BY <2>2, GroupsMoved
  <2>4. now[t[k].vnode] = own[t[k].vnode]
    BY <2>1, <2>3
  <2>5. Group(now, now[t[k].vnode]) = Group(own, own[t[k].vnode])
    BY <1>1, <2>3, <2>4
  <2> QED BY <2>5 DEF Distance
<1> HIDE DEF now
<1>2. \A k \in 1..n : k \notin RequestsOf(t, own, n, {a, b}) => own[t[k].vnode] \notin {a, b}
  BY DEF RequestsOf
<1>3. \A k \in 1..n : k \notin RequestsOf(t, own, n, {a, b}) =>
        (k \in HitsOf(t, now, n) <=> k \in HitsOf(t, own, n))
  BY <1>1, <1>2 DEF HitsOf
<1>4. HitsOf(t, now, n) \subseteq 1..n /\ HitsOf(t, own, n) \subseteq 1..n
  BY DEF HitsOf
<1> QED BY <1>3, <1>4 DEF now

\* A finite set is counted in two parts.
LEMMA CountedInParts ==
  ASSUME NEW n \in Nat, NEW S \in SUBSET (1..n), NEW A
  PROVE  /\ Cardinality(S) = Cardinality(S \cap A) + Cardinality(S \ A)
         /\ Cardinality(S \cap A) \in Nat /\ Cardinality(S \ A) \in Nat
<1>1. IsFiniteSet(S)
  BY CardInterval, FS_Subset
<1>2. IsFiniteSet(S \cap A) /\ IsFiniteSet(S \ A)
  BY <1>1, FS_Subset
<1>3. Cardinality(S \ A) = Cardinality(S) - Cardinality(S \cap A)
  BY <1>1, FS_Difference
<1> QED BY <1>1, <1>2, <1>3, FS_CardinalityType

\* The hits by definition are those the optimizer counts and rest, wherever a
\* virtual node of a moves to b.
Gains(w, replay, t, own, n, a, b, rest) ==
  /\ Hits(w, replay, {a, b}) \in Nat
  /\ Cardinality(HitsOf(t, own, n)) = Hits(w, replay, {a, b}) + rest
  /\ \A v \in Vnodes : own[v] = a =>
       /\ MovedHits(w, replay, {a, b}, v, b) \in Nat
       /\ Cardinality(HitsOf(t, MovedTo(own, v, b), n))
            = MovedHits(w, replay, {a, b}, v, b) + rest

\* The hits if v moves, less the hits as it is, are what the optimizer counts.
LEMMA GainCounted ==
  ASSUME SizesFixed, NEW w, NEW t, NEW own, NEW n, NEW a, NEW b, NEW replay,
         Replayed(w, t, own, n, {a, b}, replay), DOMAIN own = Vnodes, a # b
  PROVE  \E rest \in Nat : Gains(w, replay, t, own, n, a, b, rest)
<1> DEFINE A == RequestsOf(t, own, n, {a, b})
           H(o) == HitsOf(t, o, n)
           rest == Cardinality(H(own) \ A)
<1>1. n \in Nat /\ \A k \in 1..n : t[k].vnode \in Vnodes
  BY DEF Replayed, NodesOf, Requests
<1>2. \A o : H(o) \in SUBSET (1..n)
  BY DEF HitsOf
<1>3. Hits(w, replay, {a, b}) = Cardinality(H(own) \cap A)
  BY HitsCounted
<1>4. ASSUME NEW v \in Vnodes, own[v] = a
      PROVE  /\ MovedHits(w, replay, {a, b}, v, b) = Cardinality(H(MovedTo(own, v, b)) \cap A)
             /\ H(MovedTo(own, v, b)) \ A = H(own) \ A
  <2>0. Movable(own, v, a, b)
    BY <1>4 DEF Movable
  <2>1. /\ MovedHits(w, replay, {a, b}, v, b)
             = Cardinality(HitsOf(t, MovedTo(own, v, b), n) \cap A)
    BY <2>0, MovedHitsCounted
  <2>2. HitsOf(t, MovedTo(own, v, b), n) \ A = HitsOf(t, own, n) \ A
    BY <1>1, <2>0, OtherHitsStay
  <2> QED BY <2>1, <2>2
<1> HIDE DEF A, H
<1>5. /\ Cardinality(H(own)) = Cardinality(H(own) \cap A) + rest
      /\ Cardinality(H(own) \cap A) \in Nat /\ rest \in Nat
  BY <1>1, <1>2, CountedInParts
<1>6. ASSUME NEW v \in Vnodes, own[v] = a
      PROVE  /\ MovedHits(w, replay, {a, b}, v, b) \in Nat
             /\ Cardinality(H(MovedTo(own, v, b)))
                  = MovedHits(w, replay, {a, b}, v, b) + rest
  <2> DEFINE M == H(MovedTo(own, v, b))
  <2>0. M \in SUBSET (1..n)
    BY <1>2
  <2>1. /\ MovedHits(w, replay, {a, b}, v, b) = Cardinality(M \cap A)
        /\ M \ A = H(own) \ A
    BY <1>4, <1>6
  <2> HIDE DEF M
  <2>2. /\ Cardinality(M) = Cardinality(M \cap A) + Cardinality(M \ A)
        /\ Cardinality(M \cap A) \in Nat
    BY <1>1, <2>0, CountedInParts
  <2> QED BY <2>1, <2>2 DEF M
<1> HIDE DEF rest
<1>7. Gains(w, replay, t, own, n, a, b, rest)
  BY <1>3, <1>5, <1>6 DEF H, Gains
<1> QED BY <1>5, <1>7

\* The target brings more hits, and no other virtual node of a brings more
\* than it.
LEMMA TargetImproves ==
  ASSUME SizesFixed, NEW w, NEW t, NEW own, NEW n, NEW a, NEW b, NEW replay,
         Replayed(w, t, own, n, {a, b}, replay), DOMAIN own = Vnodes, a # b,
         ToSet(vnodes[a]) = {u \in Vnodes : own[u] = a},
         NEW i, i \in Targets(w, replay, a, b), NEW v, v = vnodes[a][i]
  PROVE  /\ v \in Vnodes /\ own[v] = a
         /\ Cardinality(HitsOf(t, MovedTo(own, v, b), n))
              > Cardinality(HitsOf(t, own, n))
         /\ \A u \in Vnodes : own[u] = a =>
              Cardinality(HitsOf(t, MovedTo(own, u, b), n))
                <= Cardinality(HitsOf(t, MovedTo(own, v, b), n))
<1> DEFINE list == vnodes[a]
           SD(u) == MovedHits(w, replay, {a, b}, u, b)
           H == Hits(w, replay, {a, b})
           After(u) == Cardinality(HitsOf(t, MovedTo(own, u, b), n))
<1>0. PICK rest \in Nat : Gains(w, replay, t, own, n, a, b, rest)
  BY GainCounted
<1>1.   /\ H \in Nat /\ Cardinality(HitsOf(t, own, n)) = H + rest
        /\ \A u \in Vnodes : own[u] = a => SD(u) \in Nat /\ After(u) = SD(u) + rest
  BY <1>0 DEF Gains
<1>2. /\ i \in DOMAIN list /\ SD(list[i]) > H
      /\ \A j \in DOMAIN list : SD(list[j]) <= SD(list[i])
  BY DEF Targets
<1>3. /\ \A j \in DOMAIN list : list[j] \in Vnodes /\ own[list[j]] = a
      /\ \A u \in Vnodes : own[u] = a => \E j \in DOMAIN list : list[j] = u
  BY DEF ToSet
<1> HIDE DEF SD, H, After
<1>4. v \in Vnodes /\ own[v] = a /\ v = list[i]
  BY <1>2, <1>3
<1>5. After(v) > Cardinality(HitsOf(t, own, n))
  BY <1>1, <1>2, <1>4
<1>6. ASSUME NEW u \in Vnodes, own[u] = a PROVE After(u) <= After(v)
  <2>1. SD(u) <= SD(v)
    BY <1>2, <1>3, <1>4, <1>6
  <2>2. SD(u) \in Nat /\ SD(v) \in Nat /\ After(u) = SD(u) + rest /\ After(v) = SD(v) + rest
    BY <1>1, <1>4, <1>6
  <2> QED BY <2>1, <2>2
<1> QED BY <1>4, <1>5, <1>6 DEF After

\* PredictedHits, of the requests t.
Predicted(t, own) ==
  LET Befores(k) == {j \in 1..(k-1) : t[j].id = t[k].id}
      Between(k) == {j \in Max(Befores(k))..k : own[t[j].vnode] = own[t[k].vnode]}
  IN  Cardinality({k \in DOMAIN t : /\ Befores(k) # {}
                                    /\ DistinctBytes(t, Between(k)) < threshold})

\* The two ways to count the hits of a window agree.
LEMMA PredictedIs ==
  ASSUME NEW t, NEW own, NEW n, Requests(t, n), \A k \in 1..n : t[k].vnode \in Vnodes
  PROVE  Predicted(t, own) = Cardinality(HitsOf(t, own, n))
<1> DEFINE Between(k) == {j \in Max(Before(t, k))..k : own[t[j].vnode] = own[t[k].vnode]}
<1>1. DOMAIN t = 1..n /\ n \in Nat
  BY DEF Requests
<1>2. ASSUME NEW k \in 1..n, Before(t, k) # {}
      PROVE  DistinctBytes(t, Between(k)) = Distance(t, own, k)
  <2> DEFINE p == Max(Before(t, k)) - 1
             G == Group(own, own[t[k].vnode])
             D == {j \in 1..k : j > p /\ t[j].vnode \in G}
  <2>1. Max(Before(t, k)) \in 1..(k-1)
    <3> DEFINE B == Before(t, k)
    <3>1. B \in SUBSET (1..(k-1))
      BY DEF Before
    <3>2. B \in SUBSET Nat /\ k \in Nat /\ \A j \in B : j <= k
      BY <1>1, <3>1
    <3> HIDE DEF B
    <3>3. Max(B) \in B
      <4>1. B # {}
        BY <1>2 DEF B
      <4> QED BY <3>2, <4>1, MaxGreatest
    <3> QED BY <3>1, <3>3 DEF B
  <2>2. \A j \in 1..k : t[j].vnode \in G <=> own[t[j].vnode] = own[t[k].vnode]
    BY <1>1 DEF Group
  <2>3. \A j : j \in Max(Before(t, k))..k <=> j \in 1..k /\ j > p
    <3>1. ASSUME NEW m \in 1..(k-1), NEW j PROVE j \in m..k <=> j \in 1..k /\ j > m - 1
      BY <1>1
    <3> QED BY <2>1, <3>1
  <2> HIDE DEF G
  <2>4. Between(k) = D
    BY <2>2, <2>3
  <2>5. DistinctBytes(t, D) = SizeSum({FileOf(t[j]) : j \in D})
    BY DEF DistinctBytes, SizeSum, FileOf
  <2>6. {FileOf(t[j]) : j \in D} = Span(t, G, p, k)
    BY DEF Span
  <2> HIDE DEF D, Between, p
  <2> QED BY <2>4, <2>5, <2>6 DEF Distance, G, p
<1>3. Predicted(t, own) = Cardinality({k \in DOMAIN t :
          Before(t, k) # {} /\ DistinctBytes(t, Between(k)) < threshold})
  BY DEF Predicted, Before
<1> HIDE DEF Between
<1>4. {k \in DOMAIN t : Before(t, k) # {} /\ DistinctBytes(t, Between(k)) < threshold}
        = HitsOf(t, own, n)
  BY <1>1, <1>2 DEF HitsOf
<1> QED BY <1>3, <1>4

\* The last access of a file before the request that follows a window.
LEMMA LastIsBefore ==
  ASSUME NEW s, NEW n, Requests(s, n), NEW t, NEW q, Grown(s, t, n, q),
         OneVnode(t, n + 1), q.id \in Ids,
         NEW last, LastAccesses(last, s, q.vnode)
  PROVE  LastBefore(t, n + 1, last[q.id])
<1> DEFINE ks == {k \in DOMAIN s : s[k].vnode = q.vnode /\ s[k].id = q.id}
<1>1. /\ n \in Nat /\ DOMAIN s = 1..n /\ t[n + 1] = q
      /\ \A k \in 1..n : t[k] = s[k]
  BY DEF Requests, Grown
<1>2. \A k \in 1..n : s[k].id = q.id => s[k].vnode = q.vnode
  <2>1. n + 1 \in 1..(n + 1) /\ \A k \in 1..n : k \in 1..(n + 1)
    BY <1>1
  <2> QED BY <1>1, <2>1 DEF OneVnode
<1>3. Before(t, n + 1) = {k \in 1..n : t[k].id = q.id}
  <2>1. 1..(n + 1 - 1) = 1..n
    BY <1>1
  <2> QED BY <1>1, <2>1 DEF Before
<1>4. {k \in 1..n : t[k].id = q.id} = ks
  BY <1>1, <1>2
<1>5. /\ last \in [Ids -> {NoAccess} \cup Nat]
      /\ IF ks = {} THEN last[q.id] = NoAccess
         ELSE last[q.id] + 1 \in ks /\ \A k \in ks : k <= last[q.id] + 1
  BY DEF LastAccesses
<1>6. Before(t, n + 1) = ks /\ \A k \in ks : k \in 1..n
  BY <1>3, <1>4
<1> HIDE DEF ks
<1>7. ASSUME ks # {} PROVE last[q.id] \in Nat
  BY <1>1, <1>5, <1>6, <1>7 DEF NoAccess
<1> QED BY <1>5, <1>6, <1>7 DEF LastBefore

\* The nodes of a window and the one of the request that follows it.
LEMMA NodesGrown ==
  ASSUME NEW w, NEW s, NEW own, NEW n, NodesOf(w, s, own, n), NEW T, w \in Seq(T),
         NEW t, NEW q, Grown(s, t, n, q), FileOf(q) \in Lines, OneVnode(t, n + 1),
         q.vnode \in Vnodes, NEW last, LastAccesses(last, s, q.vnode),
         NEW e, e.vnode = q.vnode, e.rnode = own[q.vnode], e.size = q.size,
         e.last = last[q.id]
  PROVE  /\ NodesOf(Append(w, e), t, own, n + 1)
         /\ Grown(w, Append(w, e), n, e)
<1> DEFINE x == Append(w, e)
           Right(y, r, k) == /\ y[k].vnode = r[k].vnode /\ r[k].vnode \in Vnodes
                             /\ y[k].rnode = own[r[k].vnode]
                             /\ y[k].size = r[k].size
                             /\ LastBefore(r, k, y[k].last)
<1>1. /\ Requests(s, n) /\ n \in Nat /\ Len(w) = n /\ DOMAIN w = 1..n
      /\ \A k \in 1..n : Right(w, s, k)
  BY DEF NodesOf, Requests
<1>2. /\ t[n + 1] = q /\ \A k \in 1..n : t[k] = s[k]
  BY DEF Grown
<1>3. /\ Len(x) = n + 1 /\ DOMAIN x = 1..(n + 1) /\ x[n + 1] = e
      /\ \A k \in 1..n : x[k] = w[k]
  <2>1. w \in Seq(T \cup {e}) /\ e \in T \cup {e}
    OBVIOUS
  <2>2. /\ x \in Seq(T \cup {e}) /\ Len(x) = Len(w) + 1 /\ x[Len(w) + 1] = e
        /\ \A k \in 1..Len(w) : x[k] = w[k]
    BY <2>1, AppendProperties
  <2> HIDE DEF x
  <2> QED BY <1>1, <2>2, LenProperties
<1>4. Requests(t, n + 1)
  BY <1>1, RequestsGrown
<1>5. Right(x, t, n + 1)
  <2>1. q.id \in Ids
    BY LinesAssumption DEF FileOf, Objects
  <2>2. LastBefore(t, n + 1, last[q.id])
    BY <1>1, <2>1, LastIsBefore
  <2> HIDE DEF x
  <2> QED BY <1>2, <1>3, <2>2
<1>6. ASSUME NEW k \in 1..n PROVE Right(x, t, k)
  <2>1. Before(t, k) = Before(s, k)
    <3>1. t[k] = s[k] /\ \A j \in 1..(k-1) : t[j] = s[j]
      BY <1>1, <1>2
    <3> QED BY <3>1 DEF Before
  <2>2. Right(w, s, k) /\ t[k] = s[k] /\ x[k] = w[k]
    BY <1>1, <1>2, <1>3
  <2> HIDE DEF x
  <2>3. LastBefore(t, k, x[k].last)
    BY <2>1, <2>2 DEF LastBefore
  <2> QED BY <2>2, <2>3
<1>7. \A k \in 1..(n + 1) : Right(x, t, k)
  <2> HIDE DEF Right
  <2>1. \A k \in 1..(n + 1) : k = n + 1 \/ k \in 1..n
    BY <1>1
  <2> QED BY <1>5, <1>6, <2>1
<1>8. NodesOf(x, t, own, n + 1)
  <2> HIDE DEF x
  <2> QED BY <1>3, <1>4, <1>7 DEF NodesOf
<1> QED BY <1>3, <1>8 DEF Grown

----------------------------------------------------------------------------
(***************************************************************************)
(* Where the requests of the window were served.                           *)
(***************************************************************************)

\* find_nearest_node() finds its way in the ring.
Searched(r) == r.list \in Seq(Nat) /\ r.list # <<>> /\ Sorted(r.list)

\* init_mapper() builds such a ring.
LEMMA RingsSearched ==
  ASSUME NEW r \in Rings(cache_number, virtual_node, Hashes)
  PROVE  Searched(r)
<1>1. PICK m \in Nat : Hashes \subseteq 0..m
  BY ParametersAssumption, FiniteBounded
<1>2. cache_number \in Nat /\ virtual_node \in Nat /\ Hashes \in SUBSET (0..m)
  BY <1>1, ParametersAssumption
<1>3. Ring(r, virtual_node, m, Hashes)
  BY <1>2, RingsBuilt
<1>4. r.list \in Seq(Nat) /\ Sorted(r.list)
  BY <1>3 DEF Ring, RingInv, RingOf
<1>5. DOMAIN r.list = 1..(cache_number * virtual_node)
  BY RingsServed DEF Served
<1>6. cache_number * virtual_node \in Nat \ {0}
  BY ParametersAssumption
<1>7. r.list # <<>>
  BY <1>5, <1>6
<1> QED BY <1>4, <1>7 DEF Searched

\* The requests t went where the ring sends their files.
SentWhere(t, n) == \A k \in 1..n : t[k].vnode = ServedAt(chash, hashOf[t[k].id])

\* Every request is served by one of the virtual nodes, and its server is the
\* owner of that.
LEMMA ServedInside ==
  ASSUME Served(chash), Searched(chash), hashOf \in HashFunctions, NEW o \in Lines
  PROVE  ServedVnode(o) \in Vnodes /\ Destination(o) = Owns(chash)[ServedVnode(o)]
<1> DEFINE h == hashOf[o.id]
           i == Nearest(chash, h)
           N == Len(chash.list)
<1>1. h \in Nat
  BY ParametersAssumption, LinesAssumption DEF Objects
<1> HIDE DEF h
<1>2. /\ chash.list \in Seq(Nat) /\ chash.list # <<>> /\ Sorted(chash.list)
      /\ DOMAIN chash.list = 1..(cache_number * virtual_node)
  BY DEF Served, Searched
<1>3. N \in Nat \ {0} /\ DOMAIN chash.list = 1..N
  BY <1>2
<1>4. i \in 0..(N - 1)
  BY <1>1, <1>2, NearestFound
<1>5. ServedAt(chash, h) \in Int /\ ServedAt(chash, h) + 1 \in 1..N
  <2> HIDE DEF i
  <2>1. (IF i + 1 >= N THEN 0 ELSE i + 1) \in Int
        /\ (IF i + 1 >= N THEN 0 ELSE i + 1) + 1 \in 1..N
    BY <1>3, <1>4
  <2> QED BY <2>1 DEF ServedAt, i
<1>6. ServedAt(chash, h) \in Vnodes
  <2>1. ServedAt(chash, h) + 1 \in 1..(cache_number * virtual_node)
    BY <1>2, <1>3, <1>5
  <2> QED BY <1>5, <2>1, VnodeIndices
<1>7. Destination(o) = OwnerOf(chash, ServedAt(chash, h))
  BY DEF Destination, CacheIndex, OwnerOf, h
<1> QED BY <1>6, <1>7 DEF ServedVnode, Owns, h

\* The fourth invariant: the nodes of the window are those of its requests,
\* each kept the stack of its virtual node, as long as find() has missed no
\* fragment.
Windows ==
  /\ Searched(chash)
  /\ NodesOf(window, InWindow, Owns(chash), Len(window))
  /\ SentWhere(InWindow, Len(window))
  /\ ~Missed => NodesFit(window, InWindow, Len(window))

\* update() has begun a window.
Opened == Searched(chash) /\ window = <<>>

\* A window without requests has the nodes of its requests.
LEMMA FreshWindows == Opened => Windows
<1> SUFFICES ASSUME Searched(chash), window = <<>> PROVE Windows
  BY DEF Opened
<1>1. InWindow = <<>> /\ Len(window) = 0 /\ DOMAIN window = {} /\ 1..0 = {}
  BY DEF InWindow
<1>2. NodesOf(window, InWindow, Owns(chash), 0)
  BY <1>1 DEF NodesOf, Requests, OneVnode
<1>3. SentWhere(InWindow, 0) /\ NodesFit(window, InWindow, 0)
  BY <1>1 DEF SentWhere, NodesFit
<1> QED BY <1>1, <1>2, <1>3 DEF Windows

\* The invariant holds initially.
LEMMA InitWindows == Init => Windows
BY RingsSearched, FreshWindows DEF Init, Opened

\* The node of a sampled request is one more of the window.
LEMMA SampledWindow ==
  ASSUME SizesFixed, Served(chash), Kept, Exact, Windows, NEW o \in Lines,
         NEW beforeLast
  PROVE  /\ NodesOf(Windowed(o, beforeLast), WithSample(o), Owns(chash), Len(window) + 1)
         /\ SentWhere(WithSample(o), Len(window) + 1)
         /\ ~Missed /\ ~Misses(o) =>
              NodesFit(Windowed(o, beforeLast), WithSample(o), Len(window) + 1)
<1> DEFINE s == InWindow
           t == WithSample(o)
           n == Len(window)
           q == Sample(o)
           v == ServedVnode(o)
           own == Owns(chash)
           last == last_access[v]
           e == [last |-> last[o.id], size |-> o.size, vnode |-> v,
                 rnode |-> Destination(o), arr |-> Stacked(o, beforeLast)]
           w == Windowed(o, beforeLast)
<1>1. /\ Grown(s, t, n, q) /\ FileOf(q) = o
      /\ q.vnode = v /\ q.id = o.id /\ q.size = o.size
  BY SampleGrown
<1>2. v \in Vnodes /\ Destination(o) = own[v]
  BY ServedInside DEF Windows, Kept
<1>3. /\ Requests(s, n) /\ n \in Nat /\ LastAccesses(last, s, v)
      /\ NodesOf(window, s, own, n) /\ SentWhere(s, n)
  BY <1>2 DEF Exact, Windows, Requests
<1>4. PICK T : window \in Seq(T)
  BY DEF Kept
<1>5. /\ w = Append(window, e) /\ e.vnode = v /\ e.rnode = own[v] /\ e.size = o.size
      /\ e.last = last[o.id] /\ e.arr = Stacked(o, beforeLast)
  BY <1>2 DEF Windowed
<1>6. Stacked(o, beforeLast) = Accessed(frag_arrs[v], last[o.id], o.size, n, beforeLast)
  BY DEF Stacked
<1>7. Misses(o) <=> last[o.id] # NoAccess /\ ~Found(frag_arrs[v], last[o.id])
  BY DEF Misses
<1>8. v = ServedAt(chash, hashOf[o.id])
  BY DEF ServedVnode
<1>9. ~Missed => /\ NodesFit(window, s, n)
                 /\ Measures(frag_arrs[v], last, s, v)
  BY <1>2, StacksMeasure DEF Windows
<1> HIDE DEF s, t, n, q, v, own, last, e, w
<1>10. SentWhere(t, n + 1)
  <2>1. ASSUME NEW k \in 1..(n + 1)
        PROVE  t[k].vnode = ServedAt(chash, hashOf[t[k].id])
    <3>1. CASE k = n + 1
      BY <1>1, <1>8, <3>1 DEF Grown
    <3>2. CASE k # n + 1
      <4>1. k \in 1..n
        BY <1>3, <3>2
      <4> QED BY <1>1, <1>3, <4>1 DEF Grown, SentWhere
    <3> QED BY <3>1, <3>2
  <2> QED BY <2>1 DEF SentWhere
<1>11. OneVnode(t, n + 1)
  BY <1>10 DEF SentWhere, OneVnode
<1>12. /\ NodesOf(Append(window, e), t, own, n + 1)
       /\ Grown(window, Append(window, e), n, e)
  <2>1. /\ FileOf(q) \in Lines /\ q.vnode \in Vnodes /\ LastAccesses(last, s, q.vnode)
        /\ e.vnode = q.vnode /\ e.rnode = own[q.vnode] /\ e.size = q.size
        /\ e.last = last[q.id]
        /\ NodesOf(window, s, own, n) /\ window \in Seq(T) /\ Grown(s, t, n, q)
        /\ OneVnode(t, n + 1)
    BY <1>1, <1>2, <1>3, <1>4, <1>5, <1>11
  <2> QED BY <2>1, NodesGrown
<1>13. ASSUME ~Missed, ~Misses(o) PROVE NodesFit(w, t, n + 1)
  <2>1. ASSUME NEW k \in 1..n PROVE StackFits(w[k].arr, Begun(t, k), t[k].vnode)
    <3>1. StackFits(window[k].arr, Begun(s, k), s[k].vnode)
      BY <1>9, <1>13 DEF NodesFit
    <3>2. Begun(t, k) = Begun(s, k) /\ t[k] = s[k]
      <4>1. \A j \in 1..k : j \in 1..n
        BY <1>3
      <4> QED BY <1>1, <4>1 DEF Begun, Grown
    <3>3. w[k] = window[k]
      BY <1>5, <1>12 DEF Grown
    <3> QED BY <3>1, <3>2, <3>3
  <2>2. StackFits(w[n + 1].arr, Begun(t, n + 1), t[n + 1].vnode)
    <3> DEFINE u == Begun(t, n + 1)
               stack == frag_arrs[v]
    <3>1. Grown(s, u, n, q)
      <4>1. n + 1 \in 1..(n + 1) /\ \A j \in 1..n : j \in 1..(n + 1)
        BY <1>3
      <4> QED BY <1>1, <4>1 DEF Grown, Begun
    <3>2. /\ FileOf(q) \in Lines /\ Measures(stack, last, s, v)
          /\ q.vnode = v => last[q.id] = NoAccess \/ Found(stack, last[q.id])
      BY <1>1, <1>7, <1>9, <1>13
    <3>3. StackNow(stack, last, v, q, n, beforeLast) = e.arr
      BY <1>1, <1>5, <1>6 DEF StackNow
    <3> HIDE DEF u, stack
    <3>4. Measures(StackNow(stack, last, v, q, n, beforeLast), LastNow(last, v, q, n), u, v)
      BY <1>3, <3>1, <3>2, StackStep
    <3>5. StackFits(e.arr, u, v)
      BY <3>3, <3>4 DEF StackFits
    <3>6. w[n + 1] = e /\ t[n + 1].vnode = v
      BY <1>1, <1>5, <1>12 DEF Grown
    <3> QED BY <3>5, <3>6 DEF u
  <2>3. \A k \in 1..(n + 1) : k = n + 1 \/ k \in 1..n
    BY <1>3
  <2> QED BY <2>1, <2>2, <2>3 DEF NodesFit
<1> QED BY <1>5, <1>10, <1>12, <1>13 DEF s, t, n, own, w

\* Every action keeps the fourth invariant.
LEMMA NextWindows ==
  ASSUME SizesFixed, Placed, Kept, Exact, Windows, [Next]_vars
  PROVE  Windows'
<1>1. CASE UNCHANGED vars
  <2>1. UNCHANGED <<chash, hashOf, window, sampled, unfound>>
    BY <1>1 DEF vars
  <2> QED BY <2>1 DEF Windows, Searched, NodesOf, NodesFit, Owns, OwnerOf, SentWhere,
              InWindow, Missed
<1>2. ASSUME NEW o \in Lines, chash' = LookedUp(o), hashOf' = hashOf
      PROVE  /\ Searched(chash') /\ Owns(chash') = Owns(chash)
             /\ \A h : ServedAt(chash', h) = ServedAt(chash, h)
  <2>1. chash' = LookUp(chash, o.id, hashOf[o.id]) /\ IsRing(chash)
    BY <1>2 DEF LookedUp, Placed, Served
  <2>2. SameNodes(chash', chash)
    BY <2>1, LookUpRing
  <2>3. Owns(chash') = Owns(chash)
    BY <1>2, LookedUpServed DEF Placed
  <2>4. ASSUME NEW h PROVE ServedAt(chash', h) = ServedAt(chash, h)
    <3>1. Nearest(chash', h) = Nearest(chash, h)
      BY <2>2 DEF Nearest, SameNodes
    <3> QED BY <2>2, <3>1 DEF ServedAt, SameNodes
  <2>5. Searched(chash')
    BY <2>2 DEF SameNodes, Searched, Windows
  <2> QED BY <2>3, <2>4, <2>5
<1>3. ASSUME NEW o \in Lines, RequestPlain(o) PROVE Windows'
  <2>1. /\ chash' = LookedUp(o) /\ UNCHANGED <<hashOf, window, sampled, unfound>>
    BY <1>3 DEF RequestPlain, Serve
  <2>2. /\ Searched(chash') /\ Owns(chash') = Owns(chash)
        /\ \A h : ServedAt(chash', h) = ServedAt(chash, h)
    BY <1>2, <2>1
  <2>3. InWindow' = InWindow /\ Missed' = Missed
    BY <2>1 DEF InWindow, Missed
  <2>4. NodesOf(window', InWindow', Owns(chash'), Len(window'))
    BY <2>1, <2>2, <2>3 DEF Windows
  <2>5. SentWhere(InWindow, Len(window))'
    BY <2>1, <2>2, <2>3 DEF Windows, SentWhere
  <2>6. ~Missed' => NodesFit(window', InWindow', Len(window'))
    BY <2>1, <2>3 DEF Windows
  <2> QED BY <2>2, <2>4, <2>5, <2>6 DEF Windows
<1>4. ASSUME NEW o \in Lines, RequestSampled(o) PROVE Windows'
  <2>1. PICK beforeLast : window' = Windowed(o, beforeLast)
    BY <1>4 DEF RequestSampled
  <2>2. /\ chash' = LookedUp(o) /\ hashOf' = hashOf /\ Record(o)
        /\ unfound' = (Misses(o) \/ (window # <<>> /\ unfound))
    BY <1>4 DEF RequestSampled, Serve
  <2>3. /\ Searched(chash') /\ Owns(chash') = Owns(chash)
        /\ \A h : ServedAt(chash', h) = ServedAt(chash, h)
    BY <1>2, <2>2
  <2>4. Len(window') = Len(window) + 1 /\ Len(window) \in Nat /\ window' # <<>>
    <3>1. Len(window') = Len(window) + 1
      BY <2>1, SampledKept
    <3>2. Len(window) \in Nat
      BY DEF Exact, Requests
    <3>3. Len(window') # 0
      BY <3>1, <3>2
    <3> QED BY <3>1, <3>2, <3>3
  <2>5. InWindow' = WithSample(o)
    BY <2>2, <2>4 DEF InWindow, Record, WithSample, Sample
  <2>6. /\ NodesOf(window', InWindow', Owns(chash'), Len(window'))
        /\ SentWhere(WithSample(o), Len(window) + 1)
        /\ ~Missed /\ ~Misses(o) => NodesFit(window', InWindow', Len(window'))
    BY <2>1, <2>3, <2>4, <2>5, SampledWindow DEF Placed
  <2>7. SentWhere(InWindow, Len(window))'
    BY <2>2, <2>3, <2>4, <2>5, <2>6 DEF SentWhere
  <2>8. ~Missed' => ~Missed /\ ~Misses(o)
    BY <2>2, <2>4, Zenon DEF Missed
  <2> QED BY <2>3, <2>6, <2>7, <2>8 DEF Windows
<1>5. ASSUME NEW o \in Lines, RequestUpdate(o) PROVE Windows'
  <2>1. window' = <<>>
    BY <1>5 DEF RequestUpdate
  <2>2. chash'.list = chash.list
    <3>1. DOMAIN counts = Servers
      BY DEF Kept
    <3>2. IsRing(chash) /\ LookedUp(o).list = chash.list
          /\ Served(LookedUp(o))
      BY LookedUpServed DEF Placed, Served
    <3>3. IsRing(LookedUp(o))
      BY <3>2 DEF Served
    <3>4. CASE chash' = LookedUp(o)
      BY <3>2, <3>4
    <3>5. CASE \E hash, b : chash' = [LookedUp(o) EXCEPT !.owner[hash] = b]
      BY <3>2, <3>3, <3>5 DEF IsRing
    <3> QED BY <1>5, <3>1, <3>4, <3>5, UpdateHands
  <2>3. Searched(chash')
    BY <2>2 DEF Windows, Searched
  <2>4. Opened' => Windows'
    BY FreshWindows, PTL
  <2> QED BY <2>1, <2>3, <2>4 DEF Opened
<1> QED BY <1>1, <1>3, <1>4, <1>5 DEF Next

\* Where the owners differ, the requests t would have had more hits, and no
\* fewer than with another virtual node of the same server.
Improving(own, new, t, n) ==
  \A v \in Vnodes : own[v] # new[v] =>
    /\ Cardinality(HitsOf(t, new, n)) > Cardinality(HitsOf(t, own, n))
    /\ \A u \in Vnodes : own[u] = own[v] =>
         Cardinality(HitsOf(t, MovedTo(own, u, new[v]), n))
           <= Cardinality(HitsOf(t, new, n))

\* The optimizer works on what was requested: its nodes and its replay are
\* exact if no find() missed.
LEMMA UpdateReplayed ==
  ASSUME SizesFixed, Placed, Kept, Exact, Windows, NEW o \in Lines,
         ~Missed, ~Misses(o), NEW beforeLast, NEW rivals, NEW picks, NEW replay,
         replay = Replay(Windowed(o, beforeLast), rivals, picks),
         ~ReplayMisses(Windowed(o, beforeLast), rivals, replay)
  PROVE  Replayed(Windowed(o, beforeLast), WithSample(o), Owns(chash),
                  Len(window) + 1, rivals, replay)
<1> DEFINE w == Windowed(o, beforeLast)
           t == WithSample(o)
           n == Len(window) + 1
           own == Owns(chash)
<1>1. NodesOf(w, t, own, n) /\ NodesFit(w, t, n)
  BY SampledWindow DEF Placed
<1> HIDE DEF w, t, n, own
<1>2. replay = Replay(w, rivals, picks) /\ ~ReplayMisses(w, rivals, replay)
  BY DEF w
<1>3. \A k \in 0..n : \A r \in rivals :
        StackFits(replay[k][r], Begun(ByServer(t, own), k), r)
  BY <1>1, <1>2, ReplayFits
<1>4. Replayed(w, t, own, n, rivals, replay)
  BY <1>1, <1>3 DEF Replayed
<1> QED BY <1>4 DEF w, t, n, own

\* update() improves the hits of the window, or hands nothing over.
LEMMA UpdateImproves ==
  ASSUME SizesFixed, Placed, Kept, Exact, Windows, NEW o \in Lines,
         RequestUpdate(o), ~unfound'
  PROVE  Improving(Owns(chash), Owns(chash'), WithSample(o), Len(window) + 1)
<1> DEFINE a == MaxServer(Rank(Counted(o)))
           b == MinServer(Rank(Counted(o)))
           t == WithSample(o)
           n == Len(window) + 1
           own == Owns(chash)
<1>1. a \in Servers /\ b \in Servers
  BY RankedServers DEF Kept
<1>2. PICK beforeLast, picks :
        LET w       == Windowed(o, beforeLast)
            replay  == Replay(w, {a, b}, picks)
            targets == Targets(w, replay, a, b)
        IN  /\ unfound' = \/ Misses(o) \/ (window # <<>> /\ unfound)
                          \/ ReplayMisses(w, {a, b}, replay)
            /\ IF targets = {}
               THEN chash' = LookedUp(o) /\ UNCHANGED vnodes
               ELSE \E i \in targets :
                      LET hash == chash.list[vnodes[a][i] + 1]
                      IN  /\ chash' = [LookedUp(o) EXCEPT !.owner[hash] = b]
                          /\ vnodes' = Reassign(vnodes, i, a, b)
  BY DEF RequestUpdate
<1> DEFINE w == Windowed(o, beforeLast)
           replay == Replay(w, {a, b}, picks)
<1> HIDE DEF a, b
<1>3. ~Misses(o) /\ ~Missed /\ ~ReplayMisses(w, {a, b}, replay)
  BY <1>2, Zenon DEF Missed
<1>4. Replayed(w, t, own, n, {a, b}, replay)
  <2> HIDE DEF replay
  <2>1. replay = Replay(w, {a, b}, picks)
    BY DEF replay
  <2> QED BY <1>3, <2>1, UpdateReplayed
<1>5. \/ chash' = LookedUp(o)
      \/ \E i \in Targets(w, replay, a, b) :
           chash' = [LookedUp(o) EXCEPT !.owner[chash.list[vnodes[a][i] + 1]] = b]
  BY <1>2
<1> HIDE DEF w, replay
<1>6. /\ Served(LookedUp(o)) /\ Owns(LookedUp(o)) = own /\ LookedUp(o).list = chash.list
      /\ own \in [Vnodes -> Servers]
  BY LookedUpServed, OwnsServers DEF Placed
<1>7. CASE chash' = LookedUp(o)
  BY <1>6, <1>7 DEF Improving
<1>8. ASSUME NEW i \in Targets(w, replay, a, b),
             chash' = [LookedUp(o) EXCEPT !.owner[chash.list[vnodes[a][i] + 1]] = b]
      PROVE  Improving(own, Owns(chash'), t, n)
  <2> DEFINE v == vnodes[a][i]
             new == Owns(chash')
  <2>1. i \in DOMAIN vnodes[a] /\ v \in Vnodes
    BY <1>1 DEF Targets, Placed
  <2>2. ToSet(vnodes[a]) = {u \in Vnodes : own[u] = a}
    BY <1>1 DEF Placed, Divided
  <2>3. chash' = Handed(LookedUp(o), v, b)
    BY <1>6, <1>8 DEF Handed
  <2> HIDE DEF v, own, new
  <2>4. new = [own EXCEPT ![v] = b]
    BY <1>1, <1>6, <2>1, <2>3, HandOver DEF new
  <2>5. new = MovedTo(own, v, b)
    BY <2>4 DEF MovedTo
  <2>6. v = vnodes[a][i]
    BY DEF v
  <2>7. own[v] = a
    <3>1. v \in ToSet(vnodes[a])
      BY <2>1, <2>6 DEF ToSet
    <3> QED BY <2>2, <3>1
  <2>8. CASE a = b
    <3>1. new = own
      BY <1>6, <2>1, <2>4, <2>7, <2>8
    <3> QED BY <3>1 DEF Improving, new
  <2>9. CASE a # b
    <3>1. DOMAIN own = Vnodes
      BY <1>6
    <3>2. /\ Cardinality(HitsOf(t, MovedTo(own, v, b), n))
               > Cardinality(HitsOf(t, own, n))
          /\ \A u \in Vnodes : own[u] = a =>
               Cardinality(HitsOf(t, MovedTo(own, u, b), n))
                 <= Cardinality(HitsOf(t, MovedTo(own, v, b), n))
      <4> HIDE DEF t, n
      <4> QED BY <1>4, <2>2, <2>6, <2>9, <3>1, TargetImproves
    <3>3. ASSUME NEW u \in Vnodes, own[u] # new[u]
          PROVE  own[u] = a /\ new[u] = b
      BY <1>6, <2>1, <2>4, <2>7, <3>3
    <3> HIDE DEF t, n
    <3> QED BY <2>5, <3>2, <3>3 DEF Improving, new
  <2> QED BY <2>8, <2>9 DEF own
<1> QED BY <1>5, <1>7, <1>8

\* The hits PredictedHits() counts are those of the window just over.
LEMMA PredictedHitsOf ==
  ASSUME NEW t, NEW n, sampled' = t, Requests(t, n),
         \A k \in 1..n : t[k].vnode \in Vnodes, NEW own
  PROVE  PredictedHits(own) = Cardinality(HitsOf(t, own, n))
<1>1. PredictedHits(own) = Predicted(t, own)
  BY DEF PredictedHits, Predicted
<1> QED BY <1>1, PredictedIs

\* A step of the optimizer improves the hits.
LEMMA StepImproves ==
  ASSUME SizesFixed, Placed, Kept, Exact, Windows, [Next]_vars, ~unfound',
         NEW v \in Vnodes, Owns(chash)[v] # Owns(chash')[v]
  PROVE  /\ PredictedHits(Owns(chash')) > PredictedHits(Owns(chash))
         /\ \A u \in Vnodes : Owns(chash)[u] = Owns(chash)[v] =>
              PredictedHits(MovedTo(Owns(chash), u, Owns(chash')[v]))
                <= PredictedHits(Owns(chash'))
<1>1. ~(UNCHANGED vars)
  <2>1. SUFFICES ASSUME chash' = chash PROVE FALSE
    BY DEF vars
  <2> QED BY <2>1
<1>2. ASSUME NEW o \in Lines PROVE chash' # LookedUp(o)
  <2>1. Owns(LookedUp(o)) = Owns(chash)
    BY LookedUpServed DEF Placed
  <2> QED BY <2>1
<1>3. PICK o \in Lines : RequestUpdate(o)
  BY <1>1, <1>2 DEF Next, RequestPlain, RequestSampled
<1> DEFINE t == WithSample(o)
           n == Len(window) + 1
           own == Owns(chash)
           new == Owns(chash')
<1>4. Improving(own, new, t, n)
  BY <1>3, UpdateImproves
<1>5. sampled' = t
  BY <1>3 DEF RequestUpdate, Record, WithSample, InWindow, Sample
<1>6. Requests(t, n) /\ \A k \in 1..n : t[k].vnode \in Vnodes
  <2>1. NodesOf(Windowed(o, FALSE), t, own, n)
    BY SampledWindow DEF Placed
  <2> HIDE DEF t, n, own
  <2> QED BY <2>1 DEF NodesOf
<1> HIDE DEF t, n
<1>7. ASSUME NEW x PROVE PredictedHits(x) = Cardinality(HitsOf(t, x, n))
  BY <1>5, <1>6, PredictedHitsOf
<1> HIDE DEF own, new
<1>8. own[v] # new[v]
  BY DEF own, new
<1>9. PredictedHits(new) > PredictedHits(own)
  BY <1>4, <1>7, <1>8 DEF Improving
<1>10. ASSUME NEW u \in Vnodes, own[u] = own[v]
       PROVE  PredictedHits(MovedTo(own, u, new[v])) <= PredictedHits(new)
  BY <1>4, <1>7, <1>8, <1>10 DEF Improving
<1> QED BY <1>9, <1>10 DEF own, new

----------------------------------------------------------------------------
\* The types of the state, for every instance: update() never sends a position
\* to a server there is not, and every server stays a record of a cache.
THEOREM TypesHold == Spec => []TypeOK
<1>1. Init => Placed /\ Kept
  BY InitPlaced, InitKept
<1>2. Placed /\ Kept /\ [Next]_vars => Placed' /\ Kept'
  BY NextPlaced, NextKept DEF Kept
<1>3. Placed /\ Kept => TypeOK
  <2> SUFFICES ASSUME Placed, Kept PROVE TypeOK
    OBVIOUS
  <2>1. /\ DOMAIN chash.owner \subseteq Hashes
        /\ \A p \in DOMAIN chash.owner : chash.owner[p] \in Servers
        /\ vnodes \in [Servers -> Seq(Vnodes)]
    BY DEF Placed, Served
  <2>2. last_access \in [Vnodes -> [Ids -> {NoAccess} \cup (0..window_size)]]
    <3>1. \A v \in Vnodes : \A id \in Ids :
            last_access[v][id] \in {NoAccess} \cup (0..window_size)
      <4> SUFFICES ASSUME NEW v \in Vnodes, NEW id \in Ids,
                          last_access[v][id] # NoAccess
                   PROVE  last_access[v][id] \in 0..window_size
        OBVIOUS
      <4>1. last_access[v][id] \in Nat /\ last_access[v][id] < Len(window)
        BY DEF Kept, StackCounts
      <4>2. Len(window) \in Nat /\ Len(window) < window_size /\ window_size \in Nat
        BY ParametersAssumption DEF Kept
      <4> QED BY <4>1, <4>2
    <3> QED BY <3>1 DEF Kept
  <2>3. counts \in [Servers -> [requests : Nat, hits : Nat, misses : Nat]]
    BY DEF Kept, Counts
  <2> QED BY <2>1, <2>2, <2>3 DEF Kept, TypeOK
<1> QED BY <1>1, <1>2, <1>3, PTL DEF Spec

\* The virtual nodes stay divided among the servers, window after window, for
\* every instance: the moves of update() keep the lists with the ring.
THEOREM VnodesPartitionedHolds == Spec => []VnodesPartitioned
<1>1. Init => Placed /\ Kept
  BY InitPlaced, InitKept
<1>2. Placed /\ Kept /\ [Next]_vars => Placed' /\ Kept'
  BY NextPlaced, NextKept DEF Kept
<1>3. Placed => VnodesPartitioned
  BY DividedByOwners DEF Placed
<1> QED BY <1>1, <1>2, <1>3, PTL DEF Spec

\* Every stack has one fragment for each file of its virtual node and one more,
\* for every instance and whatever the increment of end() gives: the removals
\* of a fragment and the first accesses of files keep pace.
THEOREM FragmentsCountedHolds == Spec => []FragmentsCounted
<1>1. Init => Kept
  BY InitKept
<1>2. Kept /\ [Next]_vars => Kept'
  BY NextKept
<1>3. Kept => FragmentsCounted
  BY DEF Kept, StackCounts, FragmentsCounted
<1> QED BY <1>1, <1>2, <1>3, PTL DEF Spec

\* The stack distances are exact: as long as find() misses no fragment, the
\* stack of every virtual node has for every position of the window the bytes
\* of the distinct files requested of it since.  For every instance, provided
\* each file has one size.
THEOREM StacksExactHolds ==
  ASSUME SizesFixed
  PROVE  Spec => []StacksExact
<1>1. Init => Kept /\ Exact
  BY InitKept, InitExact
<1>2. Kept /\ Exact /\ [Next]_vars => Kept' /\ Exact'
  BY NextKept, NextExact
<1>3. Kept /\ Exact => StacksExact
  <2> SUFFICES ASSUME Kept, Exact, ~unfound, window # <<>>,
                      NEW v \in Vnodes, NEW p \in 0..Len(window)
               PROVE  CValue(frag_arrs[v], p) =
                        DistinctBytes(sampled, {k \in DOMAIN sampled :
                                        k > p /\ sampled[k].vnode = v})
    BY DEF StacksExact
  <2>1. /\ InWindow = sampled /\ Requests(sampled, Len(window))
        /\ LastAccesses(last_access[v], sampled, v)
        /\ Boundaries(frag_arrs[v], last_access[v])
        /\ Measured(frag_arrs[v], sampled, v)
    BY DEF InWindow, Missed, Exact, ExactStack
  <2>2. frag_arrs[v] \in Stacks /\ Len(frag_arrs[v]) >= 1
    <3> DEFINE ids == {id \in Ids : last_access[v][id] # NoAccess}
    <3>1. /\ frag_arrs[v] \in Stacks /\ IsFiniteSet(ids)
          /\ Len(frag_arrs[v]) = 1 + Cardinality(ids)
      BY DEF Kept, StackCounts
    <3> HIDE DEF ids
    <3> QED BY <3>1, FS_CardinalityType
  <2>3. CValue(frag_arrs[v], p) = SizeSum(FilesAfter(sampled, v, p))
    BY <2>1, <2>2, CValueExact
  <2>4. DistinctBytes(sampled, {k \in DOMAIN sampled :
                                  k > p /\ sampled[k].vnode = v})
          = SizeSum(FilesAfter(sampled, v, p))
    BY DEF DistinctBytes, SizeSum, FilesAfter, FileOf
  <2> QED BY <2>3, <2>4
<1> QED BY <1>1, <1>2, <1>3, PTL DEF Spec

\* A virtual node changes hands only if that would have brought the window just
\* over more hits, and no other of its server more than it: for every instance,
\* provided each file has one size and find() has missed no fragment.
THEOREM MovesImproveHolds ==
  ASSUME SizesFixed
  PROVE  Spec => MovesImprove
<1> DEFINE IInv == Placed /\ Kept /\ Exact /\ Windows
           Moves == ~unfound' =>
             LET before == [v \in Vnodes |-> OwnerOf(chash, v)]
                 after  == [v \in Vnodes |-> OwnerOf(chash', v)]
             IN  \A v \in Vnodes : before[v] # after[v] =>
                   /\ PredictedHits(after) > PredictedHits(before)
                   /\ \A u \in Vnodes : before[u] = before[v] =>
                        PredictedHits([before EXCEPT ![u] = after[v]])
                          <= PredictedHits(after)
<1>1. Init => IInv
  BY InitPlaced, InitKept, InitExact, InitWindows
<1>2. IInv /\ [Next]_vars => IInv'
  <2>1. Kept => DOMAIN counts = Servers
    BY DEF Kept
  <2> QED BY <2>1, NextPlaced, NextKept, NextExact, NextWindows
<1>3. IInv /\ [Next]_vars => Moves
  <2> SUFFICES ASSUME IInv, [Next]_vars, ~unfound', NEW v \in Vnodes,
                      Owns(chash)[v] # Owns(chash')[v]
               PROVE  /\ PredictedHits(Owns(chash')) > PredictedHits(Owns(chash))
                      /\ \A u \in Vnodes : Owns(chash)[u] = Owns(chash)[v] =>
                           PredictedHits([Owns(chash) EXCEPT ![u] = Owns(chash')[v]])
                             <= PredictedHits(Owns(chash'))
    BY DEF Owns
  <2> HIDE DEF Moves
  <2> QED BY StepImproves DEF MovedTo
<1>4. [][Moves]_vars => MovesImprove
  BY DEF MovesImprove
<1> HIDE DEF IInv, Moves
<1> QED BY <1>1, <1>2, <1>3, <1>4, PTL DEF Spec
=============================================================================
