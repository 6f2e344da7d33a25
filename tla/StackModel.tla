----------------------------- MODULE StackModel -----------------------------
(***************************************************************************)
(* What a cache that evicts in list order promises, whatever its bookkeep- *)
(* ing: Mattson's stack model.  All objects ever placed in the cache are   *)
(* kept in one stack, most recently placed first, and nothing is evicted.  *)
(* A request is a hit exactly when the bytes of the stack from its top     *)
(* down to and including the object fit the cache.                         *)
(*                                                                         *)
(* A model is a record: the objects ever placed, most recently placed      *)
(* first; the requests served, oldest first; the hits and their bytes.     *)
(***************************************************************************)
EXTENDS Integers, SequencesExt

NewModel == [stack |-> <<>>, requests |-> <<>>, hits |-> 0, hitBytes |-> 0]

\* The bytes of the stack from its top down to each depth.
Depths(stack) ==
  LET depth[n \in 0..Len(stack)] ==
        IF n = 0 THEN 0 ELSE depth[n-1] + stack[n].size
  IN  depth

Resident(stack, size) ==
  {stack[n] : n \in {m \in DOMAIN stack : Depths(stack)[m] <= size}}

\* The stack with o on top.
OnTop(o, stack) == <<o>> \o RemoveFirst(stack, o)

\* A hit counts as a new placement (LRU: refreshes) or not (FIFO).
ModelHit(m, n, o, size, refreshes) ==
  /\ o \in Resident(m.stack, size)
  /\ n.hits = m.hits + 1
  /\ n.hitBytes = m.hitBytes + o.size
  /\ n.stack = IF refreshes THEN OnTop(o, m.stack) ELSE m.stack

\* A missed object is placed if it fits: always, or if the policy likes it.
ModelMiss(m, n, o, size, always) ==
  /\ o \notin Resident(m.stack, size)
  /\ \/ o.size <= size /\ n.stack = OnTop(o, m.stack)
     \/ (always => o.size > size) /\ n.stack = m.stack
  /\ n.hits = m.hits /\ n.hitBytes = m.hitBytes

\* One more request was served between m and n, and was a hit or a miss.
Serves(m, n, size, refreshes, always) ==
  /\ Len(n.requests) > Len(m.requests)
  /\ LET o == Last(n.requests)
     IN  /\ n.requests = Append(m.requests, o)
         /\ \/ ModelHit(m, n, o, size, refreshes)
            \/ ModelMiss(m, n, o, size, always)
=============================================================================
