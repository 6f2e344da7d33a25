------------------------------ MODULE MCS4LRU ------------------------------
(***************************************************************************)
(* Small instances of S4LRU.  The request counters grow with every request *)
(* and decide nothing: the view leaves them out, so that TLC visits every  *)
(* arrangement of the objects over the segments, not every trace.          *)
(***************************************************************************)
EXTENDS S4LRU

Contents == [i \in 0..3 |-> <<segments[i].size, segments[i].current,
                              segments[i].list, segments[i].map>>]
MCView == <<file_size, Contents, crashed, asked, found>>

\* Objects of size 1 and 2; the command lines give every segment room for at
\* least one object.
MCLines == [id : {"a", "b", "c"}, size : {1, 2}]
MCRuns  == {<<4, FALSE>>, <<5, FALSE>>, <<8, TRUE>>}

\* A capacity the objects fit as a whole but whose quarter they do not.
CrashRuns == {<<5, TRUE>>}
=============================================================================
