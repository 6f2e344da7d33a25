---------------------------- MODULE NearestNode ----------------------------
(***************************************************************************)
(* consistent_hash::find_nearest_node(hash_value), step by step: a binary  *)
(* search of sorted_node_hash_list for the position at or after hash_value *)
(* on the ring.  The list is sorted but, after initial_virtual_node(), may *)
(* repeat a position.  Indices count from 0 as in the code; a sequence of  *)
(* TLA+ counts from 1.                                                     *)
(***************************************************************************)
EXTENDS ConsistentHash

CONSTANTS
  Lists,   \* the contents of sorted_node_hash_list to search
  Hashes   \* the hash values to search for

ASSUME ListsAssumption ==
  /\ Hashes \subseteq Nat
  /\ Lists \subseteq {s \in Seq(Nat) : s # <<>> /\ Sorted(s)}

VARIABLES
  list, hash,  \* sorted_node_hash_list and the argument hash_value
  low, high,   \* the bounds of the search
  pc,          \* "start", "loop" or "done"
  result       \* the index returned, -1 before

searchVars == <<list, hash, low, high, pc, result>>

At(i) == list[i + 1]

SearchInit ==
  /\ list \in Lists /\ hash \in Hashes
  /\ low = 0 /\ high = Len(list) - 1
  /\ pc = "start" /\ result = -1

Return(i) == pc' = "done" /\ result' = i

\* if (hash_value > sorted_node_hash_list[high]) return 0;
Start ==
  /\ pc = "start"
  /\ IF hash > At(high) THEN Return(0) ELSE pc' = "loop" /\ UNCHANGED result
  /\ UNCHANGED <<list, hash, low, high>>

Mid == (low + high) \div 2

Equal ==
  /\ pc = "loop" /\ low < high
  /\ At(Mid) = hash
  /\ Return(Mid)
  /\ UNCHANGED <<list, hash, low, high>>

GoLeftPastMid ==
  /\ pc = "loop" /\ low < high
  /\ At(Mid) > hash
  /\ high' = Mid - 1
  /\ UNCHANGED <<list, hash, low, pc, result>>

GoLeft ==
  /\ pc = "loop" /\ low < high
  /\ At(Mid) > hash
  /\ high' = Mid
  /\ UNCHANGED <<list, hash, low, pc, result>>

GoRightToMid ==
  /\ pc = "loop" /\ low < high
  /\ At(Mid) < hash
  /\ low' = Mid
  /\ UNCHANGED <<list, hash, high, pc, result>>

GoRight ==
  /\ pc = "loop" /\ low < high
  /\ At(Mid) < hash
  /\ low' = Mid + 1
  /\ UNCHANGED <<list, hash, high, pc, result>>

Finish ==
  /\ pc = "loop" /\ ~(low < high)
  /\ Return(low)
  /\ UNCHANGED <<list, hash, low, high>>

SearchNext == Start \/ Equal \/ GoLeft \/ GoRight \/ Finish

\* The function runs to its end on the only thread of the simulator.
SearchSpec == SearchInit /\ [][SearchNext]_searchVars /\ WF_searchVars(SearchNext)

----------------------------------------------------------------------------
SearchTypeOK ==
  /\ list \in Lists /\ hash \in Hashes
  /\ low \in 0..(Len(list) - 1) /\ high \in 0..(Len(list) - 1)
  /\ pc \in {"start", "loop", "done"}
  /\ result \in -1..(Len(list) - 1)

\* The search answers with the nearest node, for every list and hash value.
FindsNearest == pc = "done" => NearestIn(list, hash, result)

\* The search always comes to an end.
Terminates == <>(pc = "done")
=============================================================================
