---------------------------- MODULE MCGreedyDual ----------------------------
(***************************************************************************)
(* A small instance of GreedyDual: three objects of size 1 and one of size *)
(* 2, in caches that hold two or three bytes.                              *)
(***************************************************************************)
EXTENDS GreedyDual

MCLines == {[id |-> "a", size |-> 1], [id |-> "b", size |-> 1],
            [id |-> "c", size |-> 1], [id |-> "c", size |-> 2]}
=============================================================================
