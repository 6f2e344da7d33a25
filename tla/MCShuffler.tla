----------------------------- MODULE MCShuffler -----------------------------
(***************************************************************************)
(* A small instance of Shuffler: three files, two of which hash just after *)
(* a virtual node, where a moved one passes them.                          *)
(***************************************************************************)
EXTENDS Shuffler

MCLines == {[id |-> "a", size |-> 1], [id |-> "b", size |-> 1],
            [id |-> "c", size |-> 1]}

MCHashFunctions ==
  {[id \in Ids |-> CASE id = "a" -> 170 [] id = "b" -> 90 [] id = "c" -> 1],
   [id \in Ids |-> CASE id = "a" -> 81 [] id = "b" -> 30 [] id = "c" -> 75]}
=============================================================================
