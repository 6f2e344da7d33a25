--------------------------- MODULE ReplayedTraces ---------------------------
(***************************************************************************)
(* trace_processor and the cluster of CH that replays the traces it has    *)
(* written.                                                                *)
(***************************************************************************)
EXTENDS CHCluster, TraceProcessor

\* The ratio arguments of the tool to consider, in percent.
CONSTANT Percents

ASSUME PercentsAssumption == Percents \subseteq Nat

\* The positions the tool's virtual nodes may have if those of the simulator
\* did not collide: each server's are the cluster's, its first node first.
VnodePositions ==
  LET n == cluster.virtual_node
  IN  {position \in [0..(n * cluster.cache_number - 1) -> DOMAIN chash.owner] :
         /\ IsInjective(position)
         /\ \A v \in DOMAIN position : chash.owner[position[v]] = v \div n}

\* What trace_processor does to a trace is what the cluster that replays it
\* sees: a request is given another id only if it was bound for the server to
\* relieve, and then goes to the virtual node of the same number of the server
\* to load; it keeps its id, and its server, if its virtual node is not to
\* move or no request of the reference trace is served there.
ProcessedTrace ==
  cluster.cacheType = "CH" /\ chash.realNodes = ServersToAdd /\ reqs = 0 =>
    \A position \in VnodePositions :
      LET n          == cluster.virtual_node
          list       == HashOrder(position)
          At(id)     == chash.list[ServedAt(chash, hashOf[id]) + 1]
          Node(s, j) == position[n * s + j]
      IN  \A from, to \in Servers, percent \in Percents,
             ref \in SUBSET Ids, line \in Lines :
            LET moving == {j \in 0..(n - 1) : /\ At(line.id) = Node(from, j)
                                             /\ j < (n * percent) \div 100}
                ids == {id \in ref : \E j \in moving : At(id) = Node(to, j)}
            IN  Processed(line, list, hashOf, ref, n, from, to, percent)
                  = IF ids = {} THEN {line}
                    ELSE {[line EXCEPT !.id = id] : id \in ids}
=============================================================================
