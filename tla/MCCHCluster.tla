---------------------------- MODULE MCCHCluster ----------------------------
(***************************************************************************)
(* A small instance of CHCluster: two files, one of them with two sizes,   *)
(* on servers with room for all but one of the three objects.  On a ring   *)
(* of 16 positions the virtual nodes of CHUE are at 3, 6, 8, 9, 10, 11 and *)
(* from then on at 12: eight of them leave each server one at least,       *)
(* twelve leave the third none.                                            *)
(***************************************************************************)
EXTENDS CHClusterServers, ReplayedTraces

MCLines == {[id |-> "a", size |-> 1], [id |-> "a", size |-> 2],
            [id |-> "b", size |-> 1]}
MCClusters ==
  {[cacheType |-> "CH", cache_number |-> 2, virtual_node |-> 2, hashes |-> 0..4]}
  \cup [cacheType : {"CHUE"}, cache_number : {4}, virtual_node : {2, 3},
        hashes : {{3, 4, 11, 12, 13}}]
=============================================================================
