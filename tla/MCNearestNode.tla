--------------------------- MODULE MCNearestNode ---------------------------
(***************************************************************************)
(* Every sorted list of up to five of the positions 0..5, repetitions in-  *)
(* cluded, searched for every hash value from 0 to 6.                      *)
(***************************************************************************)
EXTENDS NearestNode

MCLists == {s \in UNION {[1..n -> 0..5] : n \in 1..5} : Sorted(s)}
=============================================================================
