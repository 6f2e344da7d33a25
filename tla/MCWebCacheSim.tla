--------------------------- MODULE MCWebCacheSim ---------------------------
(***************************************************************************)
(* A small instance of WebCacheSim.  Two ids, one of them with two sizes:  *)
(* one object that needs no room, one that fits every cache twice, one     *)
(* that fits only alone, and one that fits only the larger cache.          *)
(***************************************************************************)
EXTENDS CleanedTraces

MCLines == {[id |-> "a", size |-> 1], [id |-> "a", size |-> 2],
            [id |-> "b", size |-> 1], [id |-> "c", size |-> 3],
            [id |-> "d", size |-> 0]}
=============================================================================
