------------------------------ MODULE LRUCache ------------------------------
(***************************************************************************)
(* The class LRUCache of caches/lru_variants.{h,cpp} on top of the base    *)
(* class Cache of cache.h, as operators on a record that stands for one    *)
(* cache object.  The simulators keep such a record, or an array of them,  *)
(* in their variables.  An operator whose name says what it gets wrong      *)
(* (EvictReturnKeepsIndex, HitInPlace, ...) is a mutant of the definition  *)
(* that follows it; only the sensitivity checks of the README use it.      *)
(*                                                                         *)
(* _cacheList is the sequence "list", front (most recent) first.           *)
(* _cacheMap sends each key to a list iterator; "map" is its set of keys,  *)
(* and the iterator of key o is the first cell of "list" that holds o:     *)
(* admit() points it at the cell it has just pushed to the front, and no   *)
(* operation moves another cell of the same key before that one.           *)
(***************************************************************************)
EXTENDS Integers, FiniteSets, SequencesExt

CONSTANT Ids        \* the object identifiers of the trace

\* cache_object.h: an object is its id together with its size; two requests
\* for one id with different sizes are requests for different objects.
Objects == [id : Ids, size : Nat]

LRUCaches == [size       : Nat,             \* _cacheSize
              current    : Nat,             \* _currentSize
              list       : Seq(Objects),    \* _cacheList
              map        : SUBSET Objects,  \* keys of _cacheMap
              requestNum : Nat,             \* _requestNum
              uniqueFile : SUBSET Ids]      \* _uniqueFile

\* LRUCache::LRUCache()
NewCache == [size |-> 0, current |-> 0, list |-> <<>>, map |-> {},
             requestNum |-> 0, uniqueFile |-> {}]

\* The cell the iterator _cacheMap[o] points to.
Cell(list, o) == CHOOSE i \in 1..Len(list) :
                    /\ list[i] = o
                    /\ \A j \in 1..(i-1) : list[j] # o

EvictReturnKeepsIndex(c) ==
  IF c.list = <<>>
  THEN c
  ELSE [c EXCEPT !.current = @ - Last(c.list).size, !.list = Front(@)]

EvictReturnCountsTwice(c) ==
  IF c.list = <<>>
  THEN c
  ELSE [c EXCEPT !.current = @ - 2 * Last(c.list).size,
                 !.map     = @ \ {Last(c.list)},
                 !.list    = Front(@)]

\* LRUCache::evict_return(): drop the least recent object.  On an empty list
\* the method returns NULL and changes nothing.
EvictReturn(c) ==
  IF c.list = <<>>
  THEN c
  ELSE [c EXCEPT !.current = @ - Last(c.list).size,
                 !.map     = @ \ {Last(c.list)},
                 !.list    = Front(@)]

\* LRUCache::evict(req): drop one given object.
Evict(c, o) ==
  IF o \in c.map
  THEN [c EXCEPT !.current = @ - o.size,
                 !.map     = @ \ {o},
                 !.list    = RemoveAt(@, Cell(@, o))]
  ELSE c

\* The cache after k calls of evict(), for every k up to the last useful one.
Evictions(c) ==
  LET after[k \in 0..Len(c.list)] ==
        IF k = 0 THEN c ELSE EvictReturn(after[k-1])
  IN  after

MakeRoomForNothing(c, size) ==
  LET Fits(k) == Evictions(c)[k].current <= c.size
  IN  Evictions(c)[CHOOSE k \in 0..Len(c.list) :
                      Fits(k) /\ \A j \in 0..(k-1) : ~Fits(j)]

\* The loop "while (_currentSize + size > _cacheSize) evict();".
MakeRoom(c, size) ==
  LET Fits(k) == Evictions(c)[k].current + size <= c.size
  IN  Evictions(c)[CHOOSE k \in 0..Len(c.list) :
                      Fits(k) /\ \A j \in 0..(k-1) : ~Fits(j)]

\* Cache::setSize(cs).
SetSize(c, cs) == MakeRoom([c EXCEPT !.size = cs], 0)

HitInPlace(c, o) == c

\* LRUCache::hit(): splice the cell of o to the front of the list.
Hit(c, o) ==
  [c EXCEPT !.list = <<o>> \o RemoveAt(@, Cell(@, o))]

IsHit(c, o) == o \in c.map

\* LRUCache::lookup(req), up to the call of hit(), which FIFO overrides.
Count(c, o) == [c EXCEPT !.requestNum = @ + 1,
                         !.uniqueFile = @ \cup {o.id}]

\* LRUCache::lookup(req).
Lookup(c, o) == IF IsHit(c, o) THEN Hit(Count(c, o), o) ELSE Count(c, o)

\* LRUCache::admit(req), past the feasibility test and the evictions.
PushFront(c, o) ==
  [c EXCEPT !.list    = <<o>> \o @,
            !.map     = @ \cup {o},
            !.current = @ + o.size]

\* LRUCache::admit(req).
Admit(c, o) ==
  IF o.size > c.size THEN c ELSE PushFront(MakeRoom(c, o.size), o)

----------------------------------------------------------------------------
(***************************************************************************)
(* What the fields promise of each other.                                  *)
(***************************************************************************)

\* The bytes of the first 0, 1, 2, ... objects of a list, and of all of them.
Upto(list) ==
  LET upto[i \in 0..Len(list)] ==
        IF i = 0 THEN 0 ELSE upto[i-1] + list[i].size
  IN  upto
Bytes(list) == Upto(list)[Len(list)]

\* _currentSize is the bytes of the objects in the list, within capacity.
\* The eviction loops of admit() and setSize() stop only because of it.
SizeExact(c) == c.current = Bytes(c.list) /\ c.current <= c.size

\* _cacheMap indexes exactly the objects in the list, and the list holds no
\* object twice: every iterator is valid and every object can be found.
IndexExact(c) == c.map = ToSet(c.list) /\ IsInjective(c.list)

=============================================================================
