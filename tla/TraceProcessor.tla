--------------------------- MODULE TraceProcessor ---------------------------
(***************************************************************************)
(* trace_process() of trace_processor/trace_processor.cpp: the tool that   *)
(* moves load between the servers of a CH cluster by giving requests other *)
(* ids.  It has a ring of its own, with the virtual nodes the simulator    *)
(* will make as long as no two of them collide: virtual node n * k + j is  *)
(* the j-th of real node k.  The time of a line, which it reads and writes *)
(* unchanged, is left out.                                                 *)
(***************************************************************************)
EXTENDS ConsistentHash

\* hash_order_vnode_list after sort(), for virtual nodes at these positions,
\* all of them different.  (With \o, TLC evaluates the list only once.)
HashOrder(position) ==
  LET hashes == <<>> \o
        InOrder([i \in 1..Cardinality(DOMAIN position) |-> position[i-1]])
  IN  <<>> \o [i \in DOMAIN hashes |->
         [vnode_hash |-> hashes[i],
          vnode_id   |-> CHOOSE v \in DOMAIN position : position[v] = hashes[i]]]

Hashes(list) == [list |-> [i \in DOMAIN list |-> list[i].vnode_hash]]

ServingNearest(list, h) == list[Nearest(Hashes(list), h) + 1].vnode_id

\* The virtual node a request is counted for: find_nearest_node(), which the
\* tool repeats word for word, and "vnode_index++".
Serving(list, h) == list[ServedAt(Hashes(list), h) + 1].vnode_id

\* The ids ref_vnode_request has for virtual node v.
RefRequests(list, hash, ref, v) == {id \in ref : Serving(list, hash[id]) = v}

\* Whether virtual node v is one of the first of real node "from" to move.
Moves(v, vnode_num, from, percent) ==
  /\ v \div vnode_num = from
  /\ v < vnode_num * from + (vnode_num * percent) \div 100

CounterpartNextDoor(v, vnode_num, from, to) == v + (to - from)

\* tmp_vId: the virtual node of the same number of real node "to".
Counterpart(v, vnode_num, from, to) == v + vnode_num * (to - from)

\* The lines that may be written for a line of the trace: its id is one of the
\* reference trace's drawn at random, if there is one, and its size is kept.
Processed(line, list, hash, ref, vnode_num, from, to, percent) ==
  LET v == Serving(list, hash[line.id])
      drawn == RefRequests(list, hash, ref,
                           Counterpart(v, vnode_num, from, to))
  IN  IF Moves(v, vnode_num, from, percent) /\ drawn # {}
      THEN {[line EXCEPT !.id = id] : id \in drawn} ELSE {line}
=============================================================================
