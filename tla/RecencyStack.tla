---------------------------- MODULE RecencyStack ----------------------------
(***************************************************************************)
(* The stack model of a cache, as a specification: one step is a request.  *)
(***************************************************************************)
EXTENDS StackModel

VARIABLES
  size,       \* the capacity, in bytes; never changes
  refreshes,  \* whether a hit counts as a new placement; never changes
  always,     \* whether each object that fits is placed; never changes
  model       \* the stack, the requests and the hits

vars == <<size, refreshes, always, model>>

Init == model = NewModel

Next ==
  /\ UNCHANGED <<size, refreshes, always>>
  /\ Serves(model, model', size, refreshes, always)

Spec == Init /\ [][Next]_vars
=============================================================================
