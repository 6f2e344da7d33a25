---------------------------- MODULE MCShufflerM ----------------------------
(***************************************************************************)
(* A small instance of ShufflerM: three files, which hash to the same      *)
(* virtual node or to different ones.                                      *)
(***************************************************************************)
EXTENDS ShufflerM

MCLines == {[id |-> "a", size |-> 1], [id |-> "b", size |-> 1],
            [id |-> "c", size |-> 2]}

MCHashFunctions ==
  {[id \in Ids |-> CASE id = "a" -> 0 [] id = "b" -> 1 [] id = "c" -> 2],
   [id \in Ids |-> CASE id = "a" -> 3 [] id = "b" -> 3 [] id = "c" -> 1]}
=============================================================================
