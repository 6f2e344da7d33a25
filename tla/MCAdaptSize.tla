---------------------------- MODULE MCAdaptSize ----------------------------
(***************************************************************************)
(* A small instance of AdaptSize: three objects that together are more     *)
(* than three times the larger cache and any two of which are not; two of  *)
(* them fit it one at a time.                                              *)
(***************************************************************************)
EXTENDS AdaptSize

MCLines == {[id |-> "a", size |-> 2], [id |-> "b", size |-> 2],
            [id |-> "c", size |-> 3]}
=============================================================================
