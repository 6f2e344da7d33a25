---------------------------- MODULE CounterStack ----------------------------
(***************************************************************************)
(* The counter stacks of Shuffler Matrix: frag_arrs and frag_arrs_rnode of *)
(* caches/cluster_variants.cpp and the arrays of double_queue_node.cpp     *)
(* they are copied to.  A stack tells for each position of the window how  *)
(* many bytes of distinct files were requested from there on; only the     *)
(* positions where a fragment of equal counts starts are kept.             *)
(*                                                                         *)
(* A std::map<uint32_t, uint32_t> is a sequence of [start, bytes] in the   *)
(* order of the keys.  Bytes are far below 2^32.                           *)
(***************************************************************************)
EXTENDS Integers, SequencesExt

NoAccess == -1   \* UINT32_MAX

Stacks == Seq([start : Nat, bytes : Nat])

FreshStack == <<[start |-> 0, bytes |-> 0]>>

Raised(stack, from, size) ==
  [i \in DOMAIN stack |->
     IF i >= from THEN [stack[i] EXCEPT !.bytes = @ + size] ELSE stack[i]]

\* find(last) succeeds: some fragment starts at the position itself.
Found(stack, last) == \E i \in DOMAIN stack : stack[i].start = last

\* "next = ++start" after find(last).  When find() fails this increments end(),
\* which is undefined: in libstdc++ the result is the last element or, if the
\* last is the parent of the one before it in the tree, that one.
Following(stack, last, beforeLast) ==
  IF Found(stack, last)
  THEN 1 + CHOOSE i \in DOMAIN stack : stack[i].start = last
  ELSE Len(stack) - IF beforeLast THEN 1 ELSE 0

MergeKeepsFragment(stack, next, size) == Raised(stack, next + 1, size)

MergeRaisesAll(stack, next, size) == RemoveAt(Raised(stack, 1, size), next)

\* The fragments after next grow by the file, and next joins the one before.
Merge(stack, next, size) == RemoveAt(Raised(stack, next + 1, size), next)

\* A request at position for a file of this size last requested at last.
Accessed(stack, last, size, position, beforeLast) ==
  Append(IF last = NoAccess THEN Raised(stack, 1, size)
         ELSE Merge(stack, Following(stack, last, beforeLast), size),
         [start |-> position + 1, bytes |-> 0])

\* c_value(pos), c_value_vnode(pos): the count at a position, by a binary
\* search for the fragment it is in; the first one when none starts before.
CValue(stack, pos) ==
  IF pos >= Last(stack).start THEN 0
  ELSE stack[Max({1} \cup {i \in DOMAIN stack : stack[i].start <= pos})].bytes
=============================================================================
