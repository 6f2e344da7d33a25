------------------------------- MODULE S4LRU -------------------------------
(***************************************************************************)
(* S4LRUCache (caches/lru_variants.cpp) under the simulator's main loop:   *)
(* four LRU segments; an object enters at segment 0, moves one segment up  *)
(* when it is hit, and one segment down when its segment needs the room.   *)
(*                                                                         *)
(* segment_admit() calls itself for the segment below, so it is written    *)
(* once per segment.  evict_return() gives it a null pointer when it has   *)
(* emptied a segment that cannot hold the object, and the process dies on  *)
(* it: "crashed".                                                          *)
(***************************************************************************)
EXTENDS LRUCache

CONSTANTS
  Lines,    \* the lines a trace may hold
  Runs,     \* <<cacheSize, filesize>>: the command lines to consider
  MaxReqs   \* bound: the length of a trace

ASSUME LinesAssumption == Lines \subseteq Objects
ASSUME RunsAssumption  == Runs \subseteq Nat \X BOOLEAN /\ MaxReqs \in Nat

VARIABLES
  file_size,  \* whether the trace's sizes are used; else every size is 1
  segments,   \* S4LRUCache::segments
  crashed,    \* a null request was dereferenced
  reqs, hits,
  asked,      \* history: the last object requested
  found       \* history: the segment it was found in, 4 if in none

vars == <<file_size, segments, crashed, reqs, hits, asked, found>>

NoRequest == [id |-> CHOOSE id \in Ids : TRUE, size |-> 0]

\* Segments and crash flag: what the methods of the cache work on.
State == [seg : [0..3 -> LRUCaches], crashed : BOOLEAN]

\* S4LRUCache::setSize(cs): four equal segments, the rest goes to segment 0.
SegmentSize(cs, i) == IF i = 0 THEN (cs \div 4) + (cs % 4) ELSE cs \div 4

AdmitTo0(st, o) == [st EXCEPT !.seg[0] = Admit(@, o)]

\* What evict_return() takes out of segment i, and what it leaves.
Victim(st, i) == Last(st.seg[i].list)
WithoutVictim(st, i) == [st EXCEPT !.seg[i] = EvictReturn(@)]

\* One turn of the loop of segment_admit(1): the least recent object goes to
\* segment 0.  An empty segment has none, and the null request is read.
DropVictim1(st) == WithoutVictim(st, 1)
Demote1(st) ==
  IF st.seg[1].list = <<>> THEN [st EXCEPT !.crashed = TRUE]
  ELSE AdmitTo0(WithoutVictim(st, 1), Victim(st, 1))

\* segment_admit(i): st after 0, 1, 2, ... turns; the loop stops when o fits.
Turns(st, i) == 0..(Len(st.seg[i].list) + 1)
AdmitAfter(turn, i, o) ==
  LET Stops(k) == \/ turn[k].crashed
                  \/ turn[k].seg[i].current + o.size <= turn[k].seg[i].size
      end == turn[CHOOSE k \in DOMAIN turn :
                     Stops(k) /\ \A j \in 0..(k-1) : ~Stops(j)]
  IN  IF end.crashed THEN end ELSE [end EXCEPT !.seg[i] = Admit(@, o)]

AdmitTo1(st, o) ==
  LET turn[k \in Turns(st, 1)] == IF k = 0 THEN st ELSE Demote1(turn[k-1])
  IN  AdmitAfter(turn, 1, o)

Demote2(st) ==
  IF st.seg[2].list = <<>> THEN [st EXCEPT !.crashed = TRUE]
  ELSE AdmitTo1(WithoutVictim(st, 2), Victim(st, 2))

AdmitTo2(st, o) ==
  LET turn[k \in Turns(st, 2)] == IF k = 0 THEN st ELSE Demote2(turn[k-1])
  IN  AdmitAfter(turn, 2, o)

Demote3(st) ==
  IF st.seg[3].list = <<>> THEN [st EXCEPT !.crashed = TRUE]
  ELSE AdmitTo2(WithoutVictim(st, 3), Victim(st, 3))

AdmitTo3(st, o) ==
  LET turn[k \in Turns(st, 3)] == IF k = 0 THEN st ELSE Demote3(turn[k-1])
  IN  AdmitAfter(turn, 3, o)

MoveUpToSame(st, i, o) == [st EXCEPT !.seg[i] = Admit(Evict(@, o), o)]
MoveUpLeavesCopy(st, i, o) ==
  CASE i = 0 -> AdmitTo1(st, o)
    [] i = 1 -> AdmitTo2(st, o)
    [] i = 2 -> AdmitTo3(st, o)
    [] i = 3 -> st

\* lookup() found o in segment i: out of it and into the one above.
MoveUp(st, i, o) ==
  LET without == [st EXCEPT !.seg[i] = Evict(@, o)]
  IN  CASE i = 0 -> AdmitTo1(without, o)
        [] i = 1 -> AdmitTo2(without, o)
        [] i = 2 -> AdmitTo3(without, o)
        [] i = 3 -> st

----------------------------------------------------------------------------
Init ==
  /\ \E run \in Runs :
       /\ file_size = run[2]
       /\ segments = [i \in 0..3 |-> SetSize(NewCache, SegmentSize(run[1], i))]
  /\ crashed = FALSE
  /\ reqs = 0 /\ hits = 0
  /\ asked = NoRequest /\ found = 4

Read(o) ==
  /\ ~crashed
  /\ reqs < MaxReqs
  /\ reqs' = reqs + 1
  /\ asked' = o
  /\ UNCHANGED file_size

In(o, i) == o \in segments[i].map

\* lookup() asks the segments from 0 up, and counts the request in each of
\* them, until one has the object.
LookedUp(o, last) ==
  [i \in 0..3 |-> IF i <= last THEN Lookup(segments[i], o) ELSE segments[i]]

RequestHit(o) ==
  /\ Read(o)
  /\ \E i \in 0..3 :
       /\ In(o, i) /\ \A j \in 0..(i-1) : ~In(o, j)
       /\ LET st == MoveUp([seg |-> LookedUp(o, i), crashed |-> FALSE], i, o)
          IN  segments' = st.seg /\ crashed' = st.crashed
       /\ found' = i
  /\ hits' = hits + 1

RequestMiss(o) ==
  /\ Read(o)
  /\ \A i \in 0..3 : ~In(o, i)
  /\ segments' = AdmitTo0([seg |-> LookedUp(o, 3), crashed |-> FALSE], o).seg
  /\ found' = 4
  /\ UNCHANGED <<crashed, hits>>

ObjectOf(line) == IF file_size THEN line ELSE [line EXCEPT !.size = 1]

Next == \E line \in Lines : \/ RequestHit(ObjectOf(line))
                            \/ RequestMiss(ObjectOf(line))

Spec == Init /\ [][Next]_vars

----------------------------------------------------------------------------
TypeOK ==
  /\ file_size \in BOOLEAN /\ crashed \in BOOLEAN
  /\ segments \in [0..3 -> LRUCaches]
  /\ reqs \in 0..MaxReqs /\ hits \in 0..reqs
  /\ asked \in Objects \cup {NoRequest} /\ found \in 0..4

Cached == UNION {segments[i].map : i \in 0..3}

\* Moving objects up and down copies none: no object is in two segments, and
\* each segment stays a consistent LRU cache within its share.
SegmentsDisjoint ==
  /\ \A i, j \in 0..3 : i # j => segments[i].map \cap segments[j].map = {}
  /\ \A i \in 0..3 : IndexExact(segments[i]) /\ SizeExact(segments[i])

\* lru_variants.h:159, "if hit on segment i, segment i+1": the object a
\* request hits ends up most recent in the segment above the one it was in, or
\* in the last, whatever the demotions that make room for it cascade into.
HitMovesUp ==
  found \in 0..3 =>
    LET up == IF found = 3 THEN 3 ELSE found + 1
    IN  ~crashed /\ segments[up].list # <<>> /\ Head(segments[up].list) = asked

\* Only segment 0 loses objects: what was protected in a higher segment can be
\* demoted, but no single request pushes it out of the cache.
OnlyBottomLoses == [][Cached \ Cached' \subseteq segments[0].map]_vars

\* When all objects have one size a hit only trades places: nothing is lost.
HitKeepsAll == [][found' # 4 /\ ~file_size => Cached' = Cached]_vars
=============================================================================
