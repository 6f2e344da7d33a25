----------------------------- MODULE RingProofs -----------------------------
(***************************************************************************)
(* The ring: the search in it and the moves of its virtual nodes.          *)
(*                                                                         *)
(* The binary search of find_nearest_node() is correct for every sorted    *)
(* list and every hash value.  Shuffler keeps such a list, in step with    *)
(* its map of virtual nodes, however it moves them: for every ring of four *)
(* servers, every number of virtual nodes, every hash function, window     *)
(* size and length of trace.                                               *)
(***************************************************************************)
EXTENDS Shuffler, NearestNode, ClassLemmas

(***************************************************************************)
(* The search.                                                             *)
(***************************************************************************)

\* While the loop runs, everything before low is before the hash value and
\* the position at high is not: the answer lies between the two.
Bracket ==
  /\ pc = "start" => low = 0 /\ high = Len(list) - 1
  /\ pc = "loop" => /\ low <= high
                    /\ \A i \in 0..(low - 1) : At(i) < hash
                    /\ At(high) >= hash

SearchIInv == SearchTypeOK /\ Bracket /\ FindsNearest

\* The lists searched are sorted and not empty.
LEMMA ListFacts ==
  ASSUME NEW s \in Lists
  PROVE  /\ s \in Seq(Nat) /\ Len(s) \in Nat \ {0}
         /\ \A i \in 1..Len(s) : s[i] \in Nat
         /\ \A i, j \in 1..Len(s) : i <= j => s[i] <= s[j]
BY ListsAssumption DEF Sorted

\* The invariant holds initially.
LEMMA InitSearchIInv == SearchInit => SearchIInv
BY ListFacts DEF SearchInit, SearchIInv, SearchTypeOK, Bracket, FindsNearest

\* Every step of the search keeps the invariant.
LEMMA NextSearchIInv == SearchIInv /\ [SearchNext]_searchVars => SearchIInv'
<1> SUFFICES ASSUME SearchIInv, [SearchNext]_searchVars PROVE SearchIInv'
  OBVIOUS
<1> USE DEF SearchIInv, SearchTypeOK, Bracket, At
<1>0. /\ Len(list) \in Nat \ {0} /\ hash \in Nat
      /\ \A i \in 1..Len(list) : list[i] \in Nat
      /\ \A i, j \in 1..Len(list) : i <= j => list[i] <= list[j]
  BY ListFacts, ListsAssumption
<1>1. CASE Start
  <2>1. CASE hash > At(high)
    <3>1. \A j \in 1..Len(list) : list[j] < hash
      BY <1>0, <1>1, <2>1 DEF Start
    <3> QED BY <1>0, <1>1, <2>1, <3>1 DEF Start, Return, FindsNearest, NearestIn
  <2>2. CASE ~(hash > At(high))
    BY <1>0, <1>1, <2>2 DEF Start, FindsNearest
  <2> QED BY <2>1, <2>2
<1>m. ASSUME pc = "loop", low < high
      PROVE  /\ Mid \in low..(high - 1) /\ Mid \in 0..(Len(list) - 1)
             /\ Mid + 1 \in 1..Len(list)
  BY <1>m, <1>0 DEF Mid
<1>2. CASE Equal
  <2>1. NearestIn(list, hash, Mid)
    BY <1>0, <1>2, <1>m DEF Equal, NearestIn
  <2> QED BY <1>0, <1>2, <1>m, <2>1 DEF Equal, Return, FindsNearest
<1>3. CASE GoLeft
  BY <1>0, <1>3, <1>m DEF GoLeft, FindsNearest
<1>4. CASE GoRight
  <2>1. \A i \in 0..Mid : list[i + 1] < hash
    <3> TAKE i \in 0..Mid
    <3>1. i + 1 \in 1..Len(list) /\ Mid + 1 \in 1..Len(list) /\ i + 1 <= Mid + 1
      BY <1>0, <1>4, <1>m DEF GoRight
    <3>2. list[i + 1] <= list[Mid + 1]
      BY <3>1, <1>0
    <3>3. list[Mid + 1] < hash
      BY <1>4 DEF GoRight
    <3>4. list[i + 1] \in Nat /\ list[Mid + 1] \in Nat /\ hash \in Nat
      BY <3>1, <1>0
    <3> HIDE DEF SearchIInv, SearchTypeOK, Bracket
    <3> QED BY <3>2, <3>3, <3>4
  <2>2. /\ UNCHANGED <<list, hash, high, pc, result>>
        /\ pc = "loop" /\ low' = Mid + 1
        /\ low' \in 0..(Len(list) - 1) /\ low' <= high
    BY <1>0, <1>4, <1>m DEF GoRight
  <2>3. \A i \in 0..(low' - 1) : At(i) < hash
    <3>1. Mid \in Int /\ low' - 1 = Mid
      BY <1>m, <1>0, <1>4, <2>2 DEF GoRight
    <3> QED BY <2>1, <3>1
  <2>4. SearchTypeOK'
    BY <2>2
  <2>5. Bracket' /\ FindsNearest'
    BY <2>2, <2>3 DEF FindsNearest
  <2> QED BY <2>4, <2>5
<1>5. CASE Finish
  <2>1. low = high /\ list[low + 1] >= hash
    BY <1>0, <1>5 DEF Finish
  <2>2. \A j \in 1..Len(list) : list[j] >= hash => j >= low + 1
    <3> SUFFICES ASSUME NEW j \in 1..Len(list), ~(j >= low + 1)
                 PROVE  ~(list[j] >= hash)
      OBVIOUS
    <3>1. j - 1 \in 0..(low - 1) /\ (j - 1) + 1 = j
      BY <1>0
    <3>2. At(j - 1) < hash
      BY <3>1, <1>5 DEF Finish
    <3>3. list[j] < hash
      BY <3>1, <3>2
    <3> QED BY <3>3, <1>0
  <2>3. NearestIn(list, hash, low)
    BY <1>0, <2>1, <2>2 DEF NearestIn
  <2> QED BY <1>0, <1>5, <2>3 DEF Finish, Return, FindsNearest
<1>6. CASE UNCHANGED searchVars
  BY <1>6 DEF searchVars, FindsNearest, NearestIn
<1> QED BY <1>1, <1>2, <1>3, <1>4, <1>5, <1>6 DEF SearchNext

\* The invariant holds in every state.
LEMMA SearchInvariant == SearchSpec => []SearchIInv
BY InitSearchIInv, NextSearchIInv, PTL DEF SearchSpec

\* The variables of the search keep their types: no index leaves the list.
THEOREM SearchTypeCorrect == SearchSpec => []SearchTypeOK
<1>1. SearchIInv => SearchTypeOK
  BY DEF SearchIInv
<1> QED BY <1>1, SearchInvariant, PTL

\* find_nearest_node() returns the nearest virtual node on the ring.
THEOREM SearchCorrect == SearchSpec => []FindsNearest
<1>1. SearchIInv => FindsNearest
  BY DEF SearchIInv
<1> QED BY <1>1, SearchInvariant, PTL

----------------------------------------------------------------------------
(***************************************************************************)
(* The ranks.  The greatest is at least the least, unless they are no      *)
(* numbers; a virtual node then moves by less than the gap behind it.      *)
(***************************************************************************)

\* The ranks of the servers, 0..n.
Fractions == [num : Nat, den : Nat]

AtLeast(q, r) == ~IsNaN(q) /\ ~IsNaN(r) /\ q.num * r.den >= r.num * q.den

\* a/b >= c/d >= e/f, without the divisions.
LEMMA Multiplied ==
  ASSUME NEW x \in Nat, NEW y \in Nat, NEW p \in Nat \ {0}
  PROVE  x >= y <=> x * p >= y * p
<1>1. x >= y => x * p >= y * p
  OBVIOUS
<1>2. x < y => x * p < y * p
  OBVIOUS
<1>3. x * p \in Nat /\ y * p \in Nat
  OBVIOUS
<1> QED BY <1>1, <1>2, <1>3

LEMMA Products ==
  ASSUME NEW a \in Nat, NEW b \in Nat, NEW c \in Nat
  PROVE  a * b \in Nat /\ (a * b) * c = (a * c) * b /\ a * b = b * a
OBVIOUS

LEMMA FractionsOrder ==
  ASSUME NEW a \in Nat, NEW b \in Nat \ {0}, NEW c \in Nat,
         NEW d \in Nat \ {0}, NEW e \in Nat, NEW f \in Nat \ {0},
         a * d >= c * b, c * f >= e * d
  PROVE  a * f >= e * b
<1>1. /\ a * d \in Nat /\ c * b \in Nat /\ c * f \in Nat /\ e * d \in Nat
      /\ a * f \in Nat /\ e * b \in Nat
  BY Products
<1>2. (a * d) * f >= (c * b) * f
  BY <1>1, Multiplied
<1>3. (c * f) * b >= (e * d) * b
  BY <1>1, Multiplied
<1>4. /\ (a * d) * f = (a * f) * d
      /\ (c * b) * f = (c * f) * b
      /\ (e * d) * b = (e * b) * d
  BY Products
<1>5. /\ (a * f) * d \in Nat /\ (c * f) * b \in Nat /\ (e * b) * d \in Nat
  BY <1>1, Products
<1>6. (a * f) * d >= (e * b) * d
  BY <1>2, <1>3, <1>4, <1>5
<1> QED BY <1>1, <1>6, Multiplied

LEMMA AtLeastTransitive ==
  ASSUME NEW q \in Fractions, NEW r \in Fractions, NEW s \in Fractions,
         AtLeast(q, r), AtLeast(r, s)
  PROVE  AtLeast(q, s)
<1>1. /\ q.num \in Nat /\ q.den \in Nat \ {0} /\ r.num \in Nat
      /\ r.den \in Nat \ {0} /\ s.num \in Nat /\ s.den \in Nat \ {0}
      /\ q.num * r.den >= r.num * q.den /\ r.num * s.den >= s.num * r.den
  BY DEF AtLeast, IsNaN, Fractions
<1>2. q.num * s.den >= s.num * q.den
  BY <1>1, FractionsOrder
<1> QED BY <1>2 DEF AtLeast

LEMMA AboveAtLeast ==
  ASSUME NEW q \in Fractions, NEW r \in Fractions, Above(q, r)
  PROVE  AtLeast(q, r)
<1>1. /\ q.num \in Nat /\ r.num \in Nat /\ q.den \in Nat /\ r.den \in Nat
  BY DEF Fractions
<1>2. q.num * r.den \in Nat /\ r.num * q.den \in Nat
  BY <1>1, Products
<1> QED BY <1>2 DEF AtLeast, Above

\* Both loops start from server 0, and stay there if its rank is no number.
LEMMA MaxOverFirst ==
  ASSUME NEW n \in Nat, NEW rank \in [0..n -> Fractions]
  PROVE  IF IsNaN(rank[0]) THEN MaxServer(rank) = 0
         ELSE AtLeast(rank[MaxServer(rank)], rank[0])
<1>1. PICK f : MaxLoop(f, rank, n) /\ MaxServer(rank) = f[n]
  BY MaxServerLoop
<1>2. /\ f \in [0..n -> 0..n] /\ f[0] = 0
      /\ \A i \in 1..n : f[i] = IF Above(rank[i], rank[f[i-1]]) THEN i ELSE f[i-1]
  BY <1>1 DEF MaxLoop
<1> DEFINE Holds(i) == IF IsNaN(rank[0]) THEN f[i] = 0
                       ELSE AtLeast(rank[f[i]], rank[0])
           P == {i \in 0..n : Holds(i)}
<1>3. 0 \in P
  <2>1. rank[0] \in Fractions
    OBVIOUS
  <2>2. rank[0].num * rank[0].den \in Nat
    BY <2>1, Products DEF Fractions
  <2> QED BY <1>2, <2>2 DEF AtLeast
<1>4. ASSUME NEW i \in 1..n, i - 1 \in P PROVE i \in P
  <2>1. /\ i \in 0..n /\ i - 1 \in 0..n /\ f[i-1] \in 0..n
        /\ rank[i] \in Fractions /\ rank[f[i-1]] \in Fractions
        /\ rank[0] \in Fractions /\ Holds(i-1)
    BY <1>2, <1>4
  <2>2. CASE Above(rank[i], rank[f[i-1]])
    <3>1. f[i] = i /\ AtLeast(rank[i], rank[f[i-1]])
      BY <1>2, <2>1, <2>2, AboveAtLeast
    <3>2. CASE IsNaN(rank[0])
      BY <2>1, <2>2, <3>2 DEF Above
    <3>3. CASE ~IsNaN(rank[0])
      <4>1. AtLeast(rank[f[i-1]], rank[0])
        BY <2>1, <3>3
      <4>2. AtLeast(rank[i], rank[0])
        BY <2>1, <3>1, <4>1, AtLeastTransitive
      <4> QED BY <2>1, <3>1, <3>3, <4>2
    <3> QED BY <3>2, <3>3
  <2>3. CASE ~Above(rank[i], rank[f[i-1]])
    BY <1>2, <2>1, <2>3
  <2> QED BY <2>2, <2>3
<1>5. P \in SUBSET (0..n)
  OBVIOUS
<1> HIDE DEF P
<1>6. P = 0..n
  BY <1>3, <1>4, <1>5, UptoInduction
<1>7. Holds(n)
  BY <1>6 DEF P
<1> QED BY <1>1, <1>7

LEMMA FirstOverMin ==
  ASSUME NEW n \in Nat, NEW rank \in [0..n -> Fractions]
  PROVE  IF IsNaN(rank[0]) THEN MinServer(rank) = 0
         ELSE AtLeast(rank[0], rank[MinServer(rank)])
<1>1. PICK f : MinLoop(f, rank, n) /\ MinServer(rank) = f[n]
  BY MinServerLoop
<1>2. /\ f \in [0..n -> 0..n] /\ f[0] = 0
      /\ \A i \in 1..n : f[i] = IF Above(rank[f[i-1]], rank[i]) THEN i ELSE f[i-1]
  BY <1>1 DEF MinLoop
<1> DEFINE Holds(i) == IF IsNaN(rank[0]) THEN f[i] = 0
                       ELSE AtLeast(rank[0], rank[f[i]])
           P == {i \in 0..n : Holds(i)}
<1>3. 0 \in P
  <2>1. rank[0] \in Fractions
    OBVIOUS
  <2>2. rank[0].num * rank[0].den \in Nat
    BY <2>1, Products DEF Fractions
  <2> QED BY <1>2, <2>2 DEF AtLeast
<1>4. ASSUME NEW i \in 1..n, i - 1 \in P PROVE i \in P
  <2>1. /\ i \in 0..n /\ i - 1 \in 0..n /\ f[i-1] \in 0..n
        /\ rank[i] \in Fractions /\ rank[f[i-1]] \in Fractions
        /\ rank[0] \in Fractions /\ Holds(i-1)
    BY <1>2, <1>4
  <2>2. CASE Above(rank[f[i-1]], rank[i])
    <3>1. f[i] = i /\ AtLeast(rank[f[i-1]], rank[i])
      BY <1>2, <2>1, <2>2, AboveAtLeast
    <3>2. CASE IsNaN(rank[0])
      BY <2>1, <2>2, <3>2 DEF Above
    <3>3. CASE ~IsNaN(rank[0])
      <4>1. AtLeast(rank[0], rank[f[i-1]])
        BY <2>1, <3>3
      <4>2. AtLeast(rank[0], rank[i])
        BY <2>1, <3>1, <4>1, AtLeastTransitive
      <4> QED BY <2>1, <3>1, <3>3, <4>2
    <3> QED BY <3>2, <3>3
  <2>3. CASE ~Above(rank[f[i-1]], rank[i])
    BY <1>2, <2>1, <2>3
  <2> QED BY <2>2, <2>3
<1>5. P \in SUBSET (0..n)
  OBVIOUS
<1> HIDE DEF P
<1>6. P = 0..n
  BY <1>3, <1>4, <1>5, UptoInduction
<1>7. Holds(n)
  BY <1>6 DEF P
<1> QED BY <1>1, <1>7

\* The rank of max_i is at least that of min_i, or they are the same server.
LEMMA MaxOverMin ==
  ASSUME NEW n \in Nat, NEW rank \in [0..n -> Fractions]
  PROVE  \/ MaxServer(rank) = MinServer(rank)
         \/ AtLeast(rank[MaxServer(rank)], rank[MinServer(rank)])
<1>1. MaxServer(rank) \in 0..n /\ MinServer(rank) \in 0..n /\ 0 \in 0..n
  BY MaxServerRanked, MinServerRanked
<1>2. CASE IsNaN(rank[0])
  BY <1>2, MaxOverFirst, FirstOverMin
<1>3. CASE ~IsNaN(rank[0])
  <2>1. /\ AtLeast(rank[MaxServer(rank)], rank[0])
        /\ AtLeast(rank[0], rank[MinServer(rank)])
    BY <1>3, MaxOverFirst, FirstOverMin
  <2>2. /\ rank[MaxServer(rank)] \in Fractions /\ rank[0] \in Fractions
        /\ rank[MinServer(rank)] \in Fractions
    BY <1>1
  <2> QED BY <2>1, <2>2, AtLeastTransitive
<1> QED BY <1>2, <1>3

\* A fraction of at most 1 of a tenth of the gap.
LEMMA TenthOfGap ==
  ASSUME NEW gap \in Nat \ {0}, NEW top \in Nat \ {0}, NEW bot \in Nat,
         bot <= top
  PROVE  (gap * (top - bot)) \div (10 * top) \in 0..(gap - 1)
<1> DEFINE x == gap * (top - bot)
           p == 10 * top
           z == x \div p
<1>1. x \in Nat /\ p \in Nat \ {0}
  OBVIOUS
<1>2. x <= gap * top
  <2>1. top - bot \in Nat /\ top - bot <= top
    OBVIOUS
  <2>2. top * gap >= (top - bot) * gap
    BY <2>1, Multiplied
  <2> QED BY <2>1, <2>2
<1>3. gap * top < gap * p
  <2>1. gap * top \in Nat /\ gap * top > 0
    OBVIOUS
  <2>2. gap * p = 10 * (gap * top)
    OBVIOUS
  <2> HIDE DEF p
  <2> QED BY <2>1, <2>2
<1> HIDE DEF x, p
<1>4. z \in Nat /\ z * p <= x
  <2>1. z \in Nat
    BY <1>1
  <2>2. p * z <= x
    BY <1>1
  <2>3. p * z = z * p
    BY <1>1, <2>1
  <2> QED BY <2>1, <2>2, <2>3
<1> HIDE DEF z
<1>5. gap * top \in Nat /\ gap * p \in Nat /\ z * p \in Nat
  BY <1>1, <1>4, Products
<1>6. ~(z * p >= gap * p)
  BY <1>1, <1>2, <1>3, <1>4, <1>5
<1>7. ~(z >= gap)
  BY <1>1, <1>4, <1>6, Multiplied
<1>8. z \in 0..(gap - 1)
  BY <1>4, <1>7
<1> QED BY <1>8 DEF z, x, p

\* The virtual node stays before the next one, and moves only if the ranks
\* differ.
LEMMA ShiftSmall ==
  ASSUME NEW gap \in Nat \ {0}, NEW q \in Fractions, NEW r \in Fractions,
         q = r \/ AtLeast(q, r)
  PROVE  Shift(gap, q, r) \in 0..(gap - 1) /\ (q = r => Shift(gap, q, r) = 0)
<1> DEFINE top == q.num * r.den
           bot == r.num * q.den
<1>1. top \in Nat /\ bot \in Nat
  BY Products DEF Fractions
<1>2. bot <= top /\ (q = r => bot = top)
  BY <1>1 DEF AtLeast
<1>3. Shift(gap, q, r)
        = IF top = 0 THEN 0 ELSE (gap * (top - bot)) \div (10 * top)
  BY DEF Shift
<1> HIDE DEF top, bot
<1>4. CASE top = 0
  BY <1>3, <1>4
<1>5. CASE top # 0
  <2>1. Shift(gap, q, r) \in 0..(gap - 1)
    BY <1>1, <1>2, <1>3, <1>5, TenthOfGap
  <2>2. ASSUME q = r PROVE Shift(gap, q, r) = 0
    <3>1. gap * (top - bot) = 0
      BY <1>1, <1>2, <2>2
    <3>2. 10 * top \in Nat \ {0}
      BY <1>1, <1>5
    <3>3. \A p \in Nat \ {0} : 0 \div p = 0
      OBVIOUS
    <3> QED BY <1>3, <1>5, <3>1, <3>2, <3>3
  <2> QED BY <2>1, <2>2
<1> QED BY <1>4, <1>5

----------------------------------------------------------------------------
(***************************************************************************)
(* Moving a virtual node.                                                  *)
(***************************************************************************)

\* A sorted list without repetitions increases.
Increasing(s) == \A i, j \in 1..Len(s) : i < j => s[i] < s[j]

LEMMA SortedIncreases ==
  ASSUME NEW m \in Nat, NEW s \in Seq(0..m), Sorted(s), IsInjective(s)
  PROVE  Increasing(s) /\ \A i, j \in 1..Len(s) : s[i] < s[j] => i < j
<1>1. Len(s) \in Nat /\ DOMAIN s = 1..Len(s) /\ \A i \in 1..Len(s) : s[i] \in Nat
  OBVIOUS
<1>2. ASSUME NEW i \in 1..Len(s), NEW j \in 1..Len(s), i < j
      PROVE  s[i] < s[j]
  <2>1. s[i] <= s[j]
    BY <1>2 DEF Sorted
  <2>2. s[i] # s[j]
    BY <1>1, <1>2 DEF IsInjective
  <2> QED BY <1>1, <2>1, <2>2
<1>3. ASSUME NEW i \in 1..Len(s), NEW j \in 1..Len(s), s[i] < s[j]
      PROVE  i < j
  <2>1. ~(j <= i)
    <3>1. j <= i => s[j] <= s[i]
      BY DEF Sorted
    <3> QED BY <1>1, <1>3, <3>1
  <2> QED BY <2>1
<1> QED BY <1>2, <1>3 DEF Increasing

\* The list after one of its positions has moved towards the next.
MovedTo(s, i, mid) == [s EXCEPT ![i] = mid]

SameElsewhere(t, s, i) == \A j \in 1..Len(s) : j # i => t[j] = s[j]

Vacant(s, i, mid) == mid = s[i] \/ \A j \in 1..Len(s) : s[j] # mid

LEMMA MovedIncreases ==
  ASSUME NEW m \in Nat, NEW s \in Seq(0..m), Increasing(s),
         NEW i \in 1..Len(s), i < Len(s), NEW mid \in Nat,
         s[i] <= mid, mid < s[i+1]
  PROVE  /\ MovedTo(s, i, mid) \in Seq(0..m) /\ Len(MovedTo(s, i, mid)) = Len(s)
         /\ MovedTo(s, i, mid)[i] = mid
         /\ SameElsewhere(MovedTo(s, i, mid), s, i)
         /\ Increasing(MovedTo(s, i, mid)) /\ Vacant(s, i, mid)
<1> DEFINE q == MovedTo(s, i, mid)
<1>1. /\ Len(s) \in Nat /\ DOMAIN s = 1..Len(s) /\ i \in 1..Len(s)
      /\ i + 1 \in 1..Len(s) /\ \A j \in 1..Len(s) : s[j] \in 0..m
  OBVIOUS
<1>2. s[i] \in 0..m /\ s[i+1] \in 0..m
  BY <1>1
<1>3. mid \in 0..m /\ s[i] <= mid /\ mid < s[i+1]
  BY <1>2
<1>4. q \in Seq(0..m) /\ Len(q) = Len(s)
  BY <1>1, <1>3 DEF MovedTo
<1>5. q[i] = mid /\ \A j \in 1..Len(s) : j # i => q[j] = s[j]
  BY <1>1 DEF MovedTo
<1> HIDE DEF q
<1>6. \A j \in 1..Len(s) : (j < i => s[j] < s[i]) /\ (j > i => s[j] >= s[i+1])
  <2> SUFFICES ASSUME NEW j \in 1..Len(s)
               PROVE  (j < i => s[j] < s[i]) /\ (j > i => s[j] >= s[i+1])
    OBVIOUS
  <2>1. j < i => s[j] < s[i]
    BY <1>1 DEF Increasing
  <2>2. j = i + 1 \/ (j > i + 1 => s[i+1] < s[j])
    BY <1>1 DEF Increasing
  <2>3. s[j] \in Nat /\ s[i+1] \in Nat
    BY <1>1
  <2> QED BY <2>1, <2>2, <2>3
<1>7. ASSUME NEW j \in 1..Len(s), NEW l \in 1..Len(s), j < l
      PROVE  q[j] < q[l]
  <2>1. s[j] < s[l] /\ s[j] \in Nat /\ s[l] \in Nat
    BY <1>1, <1>7 DEF Increasing
  <2>2. CASE j = i
    <3>1. s[l] >= s[i+1] /\ q[j] = mid /\ q[l] = s[l]
      BY <1>5, <1>6, <1>7, <2>2
    <3> QED BY <1>2, <1>3, <2>1, <3>1
  <2>3. CASE l = i
    <3>1. q[l] = mid /\ q[j] = s[j] /\ s[l] <= mid
      BY <1>3, <1>5, <1>7, <2>3
    <3> QED BY <1>3, <2>1, <3>1
  <2>4. CASE j # i /\ l # i
    BY <1>5, <2>1, <2>4
  <2> QED BY <2>2, <2>3, <2>4
<1>8. ASSUME mid # s[i], NEW j \in 1..Len(s) PROVE s[j] # mid
  <2>1. s[j] \in Nat
    BY <1>1
  <2>2. j < i \/ j = i \/ j > i
    BY <1>1
  <2> QED BY <1>2, <1>3, <1>6, <1>8, <2>1, <2>2
<1>9. Increasing(q)
  BY <1>4, <1>7 DEF Increasing
<1> QED BY <1>4, <1>5, <1>8, <1>9 DEF q, SameElsewhere, Vacant

LEMMA IncreasingIsSorted ==
  ASSUME NEW m \in Nat, NEW s \in Seq(0..m), Increasing(s)
  PROVE  Sorted(s) /\ IsInjective(s)
<1>1. Len(s) \in Nat /\ DOMAIN s = 1..Len(s) /\ \A i \in 1..Len(s) : s[i] \in Nat
  OBVIOUS
<1>2. ASSUME NEW i \in 1..Len(s), NEW j \in 1..Len(s), i <= j
      PROVE  s[i] <= s[j]
  <2>1. i = j \/ i < j
    BY <1>2
  <2>2. i < j => s[i] < s[j]
    BY DEF Increasing
  <2> QED BY <1>1, <2>1, <2>2
<1>3. ASSUME NEW i \in 1..Len(s), NEW j \in 1..Len(s), s[i] = s[j]
      PROVE  i = j
  <2>1. /\ i < j => s[i] < s[j]
        /\ j < i => s[j] < s[i]
    BY DEF Increasing
  <2> QED BY <1>1, <1>3, <2>1
<1> QED BY <1>1, <1>2, <1>3 DEF Sorted, IsInjective

\* The fields of a ring after a move.
OwnerMoved(own, old, mid) ==
  [p \in (DOMAIN own \ {old}) \cup {mid} |-> IF p = mid THEN own[old] ELSE own[p]]

LEMMA MoveNodeFields ==
  ASSUME NEW r, IsRing(r), NEW i, NEW mid, NEW q, q = MoveNode(r, i, mid)
  PROVE  /\ IsRing(q) /\ q.realNodes = r.realNodes
         /\ q.list = MovedTo(r.list, i, mid)
         /\ q.owner = OwnerMoved(r.owner, r.list[i], mid)
<1> DEFINE own == OwnerMoved(r.owner, r.list[i], mid)
           lst == MovedTo(r.list, i, mid)
<1>1. q = [r EXCEPT !.owner = own, !.list = lst]
  BY DEF MoveNode, OwnerMoved, MovedTo
<1> HIDE DEF own, lst
<1>2. q = [list |-> lst, uidHash |-> r.uidHash, owner |-> own,
           realNodes |-> r.realNodes, fileVnode |-> r.fileVnode,
           fileRnode |-> r.fileRnode]
  BY <1>1 DEF IsRing
<1> QED BY <1>2 DEF IsRing, own, lst

\* The virtual nodes of each server after a move.
NodesOf(own, sv) == {p \in DOMAIN own : own[p] = sv}

LEMMA NodesMoved ==
  ASSUME NEW own, NEW old \in DOMAIN own, NEW mid,
         mid = old \/ mid \notin DOMAIN own,
         IsFiniteSet(DOMAIN own), NEW sv,
         NEW new, new = OwnerMoved(own, old, mid)
  PROVE  Cardinality(NodesOf(new, sv)) = Cardinality(NodesOf(own, sv))
<1> DEFINE A == NodesOf(own, sv)
           B == NodesOf(new, sv)
<1> USE DEF NodesOf
<1>1. /\ DOMAIN new = (DOMAIN own \ {old}) \cup {mid}
      /\ \A p \in DOMAIN new : new[p] = IF p = mid THEN own[old] ELSE own[p]
  BY DEF OwnerMoved
<1>2. IsFiniteSet(A) /\ IsFiniteSet(A \ {old})
  BY FS_Subset
<1>3. CASE mid = old
  <2>1. B = A
    BY <1>1, <1>3
  <2> QED BY <2>1
<1>4. CASE mid # old /\ own[old] = sv
  <2>1. old \in A /\ B = (A \ {old}) \cup {mid} /\ mid \notin A \ {old}
    BY <1>1, <1>4
  <2> HIDE DEF A, B
  <2>2. Cardinality(A \ {old}) = Cardinality(A) - 1 /\ Cardinality(A) \in Nat
    BY <1>2, <2>1, FS_RemoveElement, FS_CardinalityType
  <2>3. Cardinality(B) = Cardinality(A \ {old}) + 1
    BY <1>2, <2>1, FS_AddElement
  <2>4. Cardinality(B) = Cardinality(A)
    BY <2>2, <2>3
  <2> QED BY <2>4 DEF A, B
<1>5. CASE mid # old /\ own[old] # sv
  <2>1. B = A
    BY <1>1, <1>5
  <2> QED BY <2>1
<1> QED BY <1>3, <1>4, <1>5

\* A move keeps the ring in step, and the servers in order.
LEMMA MoveNodeInv ==
  ASSUME NEW r, IsRing(r), NEW n, NEW m \in Nat, RingInv(r, n, m),
         NEW i \in 1..(Len(r.list) - 1),
         NEW mid \in r.list[i]..(r.list[i+1] - 1),
         NEW q, q = MoveNode(r, i, mid)
  PROVE  IsRing(q) /\ RingInv(q, n, m) /\ q.realNodes = r.realNodes
         /\ OwnersInOrder(q) = OwnersInOrder(r)
         /\ q.list = MovedTo(r.list, i, mid)
<1> DEFINE s == r.list
           own == r.owner
           old == r.list[i]
<1>1. /\ s \in Seq(0..m) /\ Sorted(s) /\ IsInjective(s)
      /\ ToSet(s) = DOMAIN own /\ r.realNodes \in Nat
      /\ \A p \in DOMAIN own : own[p] \in 0..(r.realNodes - 1)
      /\ \A sv \in 0..(r.realNodes - 1) :
           Cardinality({p \in DOMAIN own : own[p] = sv}) = n
  BY DEF RingInv, RingOf
<1>2. /\ IsRing(q) /\ q.realNodes = r.realNodes
      /\ q.list = MovedTo(s, i, mid) /\ q.owner = OwnerMoved(own, old, mid)
  BY MoveNodeFields
<1>3. Increasing(s) /\ DOMAIN s = 1..Len(s) /\ i \in 1..Len(s) /\ Len(s) \in Nat
  BY <1>1, SortedIncreases
<1>4. /\ q.list \in Seq(0..m) /\ Len(q.list) = Len(s) /\ q.list[i] = mid
      /\ \A j \in 1..Len(s) : j # i => q.list[j] = s[j]
      /\ Increasing(q.list) /\ (mid = s[i] \/ \A j \in 1..Len(s) : s[j] # mid)
  <2>1. i < Len(s) /\ mid \in Nat /\ s[i] <= mid /\ mid < s[i+1]
    <3>1. s[i] \in 0..m /\ s[i+1] \in 0..m
      BY <1>1, <1>3
    <3> QED BY <1>3, <3>1
  <2> HIDE DEF s
  <2> DEFINE t == MovedTo(s, i, mid)
  <2>2. /\ t \in Seq(0..m) /\ Len(t) = Len(s) /\ t[i] = mid
        /\ SameElsewhere(t, s, i) /\ Increasing(t) /\ Vacant(s, i, mid)
    <3>1. s \in Seq(0..m) /\ Increasing(s) /\ i \in 1..Len(s)
      BY <1>1, <1>3
    <3> QED BY <2>1, <3>1, MovedIncreases
  <2>3. q.list = t
    BY <1>2
  <2> HIDE DEF t
  <2> QED BY <2>2, <2>3 DEF SameElsewhere, Vacant
<1> HIDE DEF s, own, old
<1>5. Sorted(q.list) /\ IsInjective(q.list) /\ DOMAIN q.list = 1..Len(s)
  BY <1>4, IncreasingIsSorted
<1>6. DOMAIN own = {s[j] : j \in 1..Len(s)} /\ old = s[i] /\ old \in DOMAIN own
  BY <1>1, <1>3 DEF ToSet, old, s
<1>7. mid = old \/ mid \notin DOMAIN own
  BY <1>4, <1>6
<1>8. /\ DOMAIN q.owner = (DOMAIN own \ {old}) \cup {mid}
      /\ \A p \in DOMAIN q.owner :
           q.owner[p] = IF p = mid THEN own[old] ELSE own[p]
  BY <1>2 DEF OwnerMoved
<1>9. \A j \in 1..Len(s) : j # i => s[j] # old
  BY <1>1, <1>3, <1>6 DEF IsInjective
<1>10. ToSet(q.list) = DOMAIN q.owner
  <2>1. ToSet(q.list) = {q.list[j] : j \in 1..Len(s)}
    BY <1>5 DEF ToSet
  <2>2. ASSUME NEW j \in 1..Len(s) PROVE q.list[j] \in DOMAIN q.owner
    BY <1>4, <1>6, <1>8, <1>9
  <2>3. ASSUME NEW p \in DOMAIN q.owner PROVE \E j \in 1..Len(s) : q.list[j] = p
    <3>1. CASE p = mid
      BY <1>3, <1>4, <3>1
    <3>2. CASE p # mid
      <4>1. PICK j \in 1..Len(s) : s[j] = p /\ p # old
        BY <1>6, <1>8, <3>2
      <4> QED BY <1>4, <1>6, <4>1
    <3> QED BY <3>1, <3>2
  <2> QED BY <2>1, <2>2, <2>3
<1>11. \A p \in DOMAIN q.owner : q.owner[p] \in 0..(q.realNodes - 1)
  BY <1>1, <1>2, <1>6, <1>8
<1>12. IsFiniteSet(DOMAIN own)
  <2>1. \A a, b \in 1..Len(s) : s[a] = s[b] => a = b
    BY <1>1, <1>3 DEF IsInjective
  <2> QED BY <1>1, <2>1, InjectiveLength
<1>13. \A sv \in 0..(q.realNodes - 1) :
         Cardinality({p \in DOMAIN q.owner : q.owner[p] = sv}) = n
  <2> SUFFICES ASSUME NEW sv \in 0..(q.realNodes - 1)
               PROVE  Cardinality({p \in DOMAIN q.owner : q.owner[p] = sv}) = n
    OBVIOUS
  <2>1. Cardinality(NodesOf(q.owner, sv)) = Cardinality(NodesOf(own, sv))
    <3>1. /\ q.owner = OwnerMoved(own, old, mid) /\ old \in DOMAIN own
          /\ mid = old \/ mid \notin DOMAIN own
          /\ IsFiniteSet(DOMAIN own)
      BY <1>2, <1>6, <1>7, <1>12
    <3> QED BY <3>1, NodesMoved
  <2> QED BY <1>1, <1>2, <2>1 DEF NodesOf
<1>14. RingInv(q, n, m)
  BY <1>1, <1>2, <1>4, <1>5, <1>10, <1>11, <1>13 DEF RingInv, RingOf
<1>15. ASSUME NEW j \in 1..Len(s) PROVE q.owner[q.list[j]] = own[s[j]]
  <2>1. CASE j = i
    BY <1>4, <1>6, <1>8, <2>1
  <2>2. CASE j # i
    <3>1. q.list[j] = s[j] /\ s[j] # old /\ s[j] \in DOMAIN own /\ s[j] # mid
      BY <1>4, <1>6, <1>9, <2>2
    <3> QED BY <1>8, <3>1
  <2> QED BY <2>1, <2>2
<1>16. OwnersInOrder(q) = OwnersInOrder(r)
  BY <1>3, <1>5, <1>15 DEF OwnersInOrder, s, own
<1> QED BY <1>2, <1>14, <1>16 DEF s

----------------------------------------------------------------------------
(***************************************************************************)
(* Which files change their server when a virtual node moves.              *)
(***************************************************************************)

LEMMA PositionsNat ==
  ASSUME NEW m \in Nat, NEW s \in Seq(0..m)
  PROVE  \A j \in 1..Len(s) : s[j] \in Nat
OBVIOUS

\* The nearest node by its place in the list.
FirstFrom(s, n, h, a) ==
  \/ s[a + 1] >= h /\ \A j \in 1..n : s[j] >= h => j >= a + 1
  \/ (\A j \in 1..n : s[j] < h) /\ a = 0

LEMMA NearestIsFirst ==
  ASSUME NEW m \in Nat, NEW s \in Seq(0..m), Increasing(s), NEW h \in Nat,
         NEW a \in 0..(Len(s) - 1), NearestIn(s, h, a)
  PROVE  FirstFrom(s, Len(s), h, a)
<1>1. Len(s) \in Nat /\ a + 1 \in 1..Len(s) /\ \A i \in 1..Len(s) : s[i] \in Nat
  OBVIOUS
<1>2. CASE s[a + 1] >= h /\ \A j \in 1..Len(s) : s[j] >= h => s[j] >= s[a + 1]
  <2>1. ASSUME NEW j \in 1..Len(s), s[j] >= h PROVE j >= a + 1
    <3>1. s[j] >= s[a + 1] /\ s[j] \in Nat /\ s[a + 1] \in Nat
      BY <1>1, <1>2, <2>1
    <3>2. j < a + 1 => s[j] < s[a + 1]
      BY <1>1 DEF Increasing
    <3> QED BY <1>1, <3>1, <3>2
  <2> QED BY <1>2, <2>1 DEF FirstFrom
<1>3. CASE (\A j \in 1..Len(s) : s[j] < h) /\ a = 0
  BY <1>3 DEF FirstFrom
<1> QED BY <1>2, <1>3 DEF NearestIn

\* s increases, and t is s with what is at i moved towards the next.
OneMoved(s, t, n, i) ==
  /\ \A j \in 1..n : s[j] \in Nat /\ t[j] \in Nat
  /\ \A j, k \in 1..n : j < k => s[j] < s[k]
  /\ \A j \in 1..n : j # i => t[j] = s[j]
  /\ s[i] <= t[i] /\ t[i] < s[i + 1]

\* The place of the nearest node stays, but for the hash values the virtual
\* node passes: for them it was the next node, and is the one moved.
LEMMA FirstMoved ==
  ASSUME NEW n \in Nat, NEW s, NEW t, NEW i \in 1..n, i + 1 \in 1..n,
         OneMoved(s, t, n, i),
         NEW h \in Nat,
         NEW a \in Nat, a + 1 \in 1..n, FirstFrom(s, n, h, a),
         NEW b \in Nat, b + 1 \in 1..n, FirstFrom(t, n, h, b)
  PROVE  a = b \/ (t[i] # s[i] /\ a = i /\ b = i - 1)
<1>2. /\ \A j \in 1..n : s[j] \in Nat /\ t[j] \in Nat
      /\ \A j, k \in 1..n : j < k => s[j] < s[k]
      /\ \A j \in 1..n : j # i => t[j] = s[j]
      /\ s[i] <= t[i] /\ t[i] < s[i + 1]
  BY DEF OneMoved
<1>1. s[i] \in Nat /\ s[i+1] \in Nat /\ t[i] \in Nat
  BY <1>2
<1>3. \/ s[a + 1] >= h /\ \A j \in 1..n : s[j] >= h => j >= a + 1
      \/ (\A j \in 1..n : s[j] < h) /\ a = 0
  BY DEF FirstFrom
<1>4. \/ t[b + 1] >= h /\ \A j \in 1..n : t[j] >= h => j >= b + 1
      \/ (\A j \in 1..n : t[j] < h) /\ b = 0
  BY DEF FirstFrom
<1>5. CASE s[i] < h /\ h <= t[i]
  <2>1. a = i
    <3>1. s[i + 1] >= h /\ ~(s[i] >= h)
      BY <1>1, <1>2, <1>5
    <3>2. s[a + 1] >= h /\ \A j \in 1..n : s[j] >= h => j >= a + 1
      BY <1>1, <1>2, <1>3, <3>1
    <3>3. i + 1 >= a + 1 /\ a + 1 # i
      BY <1>1, <1>2, <3>1, <3>2
    <3>4. ~(a + 1 < i)
      <4>1. a + 1 < i => s[a + 1] < s[i]
        BY <1>1, <1>2
      <4> QED BY <1>1, <1>2, <1>5, <3>2, <4>1
    <3> QED BY <1>1, <1>2, <3>3, <3>4
  <2>2. b = i - 1
    <3>1. t[i] >= h
      BY <1>1, <1>2, <1>5
    <3>2. t[b + 1] >= h /\ \A j \in 1..n : t[j] >= h => j >= b + 1
      BY <1>1, <1>2, <1>4, <3>1
    <3>3. i >= b + 1
      BY <3>1, <3>2
    <3>4. ~(b + 1 < i)
      <4>1. b + 1 < i => s[b + 1] < s[i] /\ t[b + 1] = s[b + 1]
        BY <1>1, <1>2
      <4> QED BY <1>1, <1>2, <1>5, <3>2, <4>1
    <3> QED BY <1>1, <1>2, <3>3, <3>4
  <2>3. t[i] # s[i]
    BY <1>1, <1>2, <1>5
  <2> QED BY <2>1, <2>2, <2>3
<1>6. CASE ~(s[i] < h /\ h <= t[i])
  <2>1. \A j \in 1..n : t[j] >= h <=> s[j] >= h
    <3> SUFFICES ASSUME NEW j \in 1..n PROVE t[j] >= h <=> s[j] >= h
      OBVIOUS
    <3>1. CASE j = i
      BY <1>1, <1>2, <1>6, <3>1
    <3>2. CASE j # i
      BY <1>2, <3>2
    <3> QED BY <3>1, <3>2
  <2>2. CASE \A j \in 1..n : s[j] < h
    <3>1. \A j \in 1..n : ~(s[j] >= h) /\ ~(t[j] >= h)
      BY <1>1, <1>2, <2>1, <2>2
    <3> QED BY <1>1, <1>2, <1>3, <1>4, <3>1
  <2>3. CASE ~ \A j \in 1..n : s[j] < h
    <3>1. ~ \A j \in 1..n : t[j] < h
      BY <1>1, <1>2, <2>1, <2>3
    <3>2. s[a + 1] >= h /\ \A j \in 1..n : s[j] >= h => j >= a + 1
      BY <1>1, <1>2, <1>3, <2>3
    <3>3. t[b + 1] >= h /\ \A j \in 1..n : t[j] >= h => j >= b + 1
      BY <1>4, <3>1
    <3>4. b + 1 >= a + 1 /\ a + 1 >= b + 1
      BY <1>1, <1>2, <2>1, <3>2, <3>3
    <3> QED BY <1>1, <1>2, <3>4
  <2> QED BY <2>2, <2>3
<1> QED BY <1>5, <1>6

\* A file is served by the owner of a place in the list.
LEMMA ServedByOwner ==
  ASSUME NEW r, NEW n, NEW m \in Nat, RingInv(r, n, m), Len(r.list) > 0,
         NEW h \in Nat
  PROVE  /\ Nearest(r, h) \in 0..(Len(r.list) - 1)
         /\ FirstFrom(r.list, Len(r.list), h, Nearest(r, h))
         /\ ServedAt(r, h) = IF Nearest(r, h) + 1 >= Len(r.list) THEN 0
                             ELSE Nearest(r, h) + 1
         /\ ServedAt(r, h) + 1 \in 1..Len(r.list)
         /\ CacheIndex(r, h) = OwnersInOrder(r)[ServedAt(r, h) + 1]
         /\ CacheIndex(r, h) \in 0..(r.realNodes - 1)
<1>1. /\ r.list \in Seq(0..m) /\ Sorted(r.list) /\ IsInjective(r.list)
      /\ ToSet(r.list) = DOMAIN r.owner
      /\ \A p \in DOMAIN r.owner : r.owner[p] \in 0..(r.realNodes - 1)
  BY DEF RingInv, RingOf
<1>2. /\ Nearest(r, h) \in 0..(Len(r.list) - 1)
      /\ NearestIn(r.list, h, Nearest(r, h))
  <2>1. r.list \in Seq(Nat) /\ r.list # <<>>
    BY <1>1
  <2> QED BY <1>1, <2>1, NearestFound
<1>3. FirstFrom(r.list, Len(r.list), h, Nearest(r, h))
  <2>1. Increasing(r.list)
    BY <1>1, SortedIncreases
  <2> QED BY <1>1, <1>2, <2>1, NearestIsFirst
<1>4. ServedAt(r, h) = IF Nearest(r, h) + 1 >= Len(r.list) THEN 0
                       ELSE Nearest(r, h) + 1
  BY DEF ServedAt
<1>5. ServedAt(r, h) + 1 \in 1..Len(r.list) /\ DOMAIN r.list = 1..Len(r.list)
  BY <1>1, <1>2, <1>4
<1>6. CacheIndex(r, h) = OwnersInOrder(r)[ServedAt(r, h) + 1]
  BY <1>5 DEF CacheIndex, OwnersInOrder
<1>7. CacheIndex(r, h) \in 0..(r.realNodes - 1)
  <2>1. r.list[ServedAt(r, h) + 1] \in ToSet(r.list)
    BY <1>5 DEF ToSet
  <2> QED BY <1>1, <2>1 DEF CacheIndex
<1> QED BY <1>2, <1>3, <1>4, <1>5, <1>6, <1>7

\* The files of the arc passed go to the owner of the node after it.
LEMMA MoveNodeServes ==
  ASSUME NEW r, IsRing(r), NEW n, NEW m \in Nat, RingInv(r, n, m),
         NEW i \in 1..(Len(r.list) - 1),
         NEW mid \in r.list[i]..(r.list[i+1] - 1),
         NEW q, q = MoveNode(r, i, mid), NEW h \in Nat,
         CacheIndex(q, h) # CacheIndex(r, h)
  PROVE  mid # r.list[i] /\ CacheIndex(q, h) = OwnersInOrder(r)[i + 1]
<1> DEFINE s == r.list
           t == q.list
           a == Nearest(r, h)
           b == Nearest(q, h)
<1>1. /\ RingInv(q, n, m) /\ OwnersInOrder(q) = OwnersInOrder(r)
      /\ t = MovedTo(s, i, mid)
  BY MoveNodeInv
<1>2. s \in Seq(0..m) /\ Increasing(s) /\ Len(s) \in Nat
  <2>1. s \in Seq(0..m) /\ Sorted(s) /\ IsInjective(s)
    BY DEF RingInv, RingOf
  <2> QED BY <2>1, SortedIncreases
<1>3. /\ i \in 1..Len(s) /\ i < Len(s) /\ mid \in Nat /\ s[i] <= mid
      /\ mid < s[i+1]
  <2>1. i \in 1..Len(s) /\ i + 1 \in 1..Len(s)
    BY <1>2
  <2>2. s[i] \in 0..m /\ s[i+1] \in 0..m
    <3> HIDE DEF s
    <3> QED BY <1>2, <2>1
  <2> QED BY <2>1, <2>2
<1>4. t \in Seq(0..m) /\ Len(t) = Len(s) /\ t[i] = mid /\ SameElsewhere(t, s, i)
  <2> HIDE DEF s, t
  <2> QED BY <1>1, <1>2, <1>3, MovedIncreases
<1>5. /\ a \in 0..(Len(s) - 1) /\ FirstFrom(s, Len(s), h, a)
      /\ CacheIndex(r, h) = OwnersInOrder(r)[ServedAt(r, h) + 1]
      /\ ServedAt(r, h) = IF a + 1 >= Len(s) THEN 0 ELSE a + 1
  BY <1>3, ServedByOwner
<1>6. /\ b \in 0..(Len(s) - 1) /\ FirstFrom(t, Len(t), h, b)
      /\ CacheIndex(q, h) = OwnersInOrder(r)[ServedAt(q, h) + 1]
      /\ ServedAt(q, h) = IF b + 1 >= Len(s) THEN 0 ELSE b + 1
  <2>1. Len(t) > 0
    BY <1>2, <1>3, <1>4
  <2>2. /\ b \in 0..(Len(t) - 1) /\ FirstFrom(t, Len(t), h, b)
        /\ CacheIndex(q, h) = OwnersInOrder(q)[ServedAt(q, h) + 1]
        /\ ServedAt(q, h) = IF b + 1 >= Len(t) THEN 0 ELSE b + 1
    BY <1>1, <2>1, ServedByOwner
  <2> QED BY <1>1, <1>4, <2>2
<1> HIDE DEF s, t, a, b
<1>7. a # b
  BY <1>5, <1>6
<1>8. mid # s[i] /\ b = i - 1
  <2> DEFINE n0 == Len(s)
  <2>2. /\ n0 \in Nat /\ i + 1 \in 1..n0 /\ i \in 1..n0
        /\ a + 1 \in 1..n0 /\ b + 1 \in 1..n0 /\ a \in Nat /\ b \in Nat
    BY <1>2, <1>3, <1>5, <1>6
  <2>3. /\ \A j \in 1..n0 : s[j] \in Nat
        /\ \A j \in 1..n0 : t[j] \in Nat
    BY <1>2, <1>4, PositionsNat
  <2>4. \A j \in 1..n0 : s[j] \in Nat /\ t[j] \in Nat
    BY <2>3
  <2>5. \A j, k \in 1..n0 : j < k => s[j] < s[k]
    BY <1>2 DEF Increasing
  <2>6. /\ \A j \in 1..n0 : j # i => t[j] = s[j]
        /\ s[i] <= t[i] /\ t[i] < s[i + 1] /\ t[i] = mid
    BY <1>3, <1>4 DEF SameElsewhere
  <2>8. OneMoved(s, t, n0, i)
    BY <2>4, <2>5, <2>6 DEF OneMoved
  <2>7. FirstFrom(s, n0, h, a) /\ FirstFrom(t, n0, h, b)
    BY <1>4, <1>5, <1>6
  <2> HIDE DEF n0
  <2>1. a = b \/ (mid # s[i] /\ a = i /\ b = i - 1)
    <3>1. a = b \/ (t[i] # s[i] /\ a = i /\ b = i - 1)
      BY <2>2, <2>7, <2>8, FirstMoved
    <3> QED BY <2>6, <3>1
  <2> QED BY <1>7, <2>1
<1>9. ServedAt(q, h) = i
  BY <1>2, <1>3, <1>6, <1>8
<1> QED BY <1>6, <1>8, <1>9 DEF s

----------------------------------------------------------------------------
(***************************************************************************)
(* The ranks update() gives the servers, and the rings it may leave.       *)
(***************************************************************************)

Counts == [requests : Nat, hits : Nat, misses : Nat]

LEMMA ServersAre == Servers = 0..3 /\ cache_number = 4
BY DEF Servers, cache_number

\* Every server has a rank, a fraction.
LEMMA RanksAre ==
  ASSUME NEW n \in [0..3 -> Counts],
         NEW total, total = [i \in 0..3 |-> n[i].requests]
  PROVE  RanksOf(n, total, alpha) \in [0..3 -> Fractions]
<1> DEFINE all == {n[j].requests : j \in DOMAIN n}
           bound == n[0].requests + n[1].requests + n[2].requests + n[3].requests
<1>1. \A i \in 0..3 : n[i].requests \in Nat /\ n[i].misses \in Nat
  BY DEF Counts
<1>2. bound \in Nat /\ \A j \in 0..3 : n[j].requests <= bound
  BY <1>1
<1>3. /\ all \in SUBSET Nat /\ n[0].requests \in all
      /\ \A x \in all : x <= bound
  BY <1>1, <1>2
<1> HIDE DEF all, bound
<1>4. Max(all) \in Nat
  BY <1>2, <1>3, MaxGreatest
<1> DEFINE top == Max(all)
<1>5. RanksOf(n, total, alpha) =
        [i \in 0..3 |-> [num |-> alpha * n[i].misses * top
                                   + (100 - alpha) * n[i].requests * total[i],
                         den |-> total[i]]]
  BY DEF RanksOf, all, top
<1> HIDE DEF top
<1>6. alpha \in Nat /\ 100 - alpha \in Nat /\ top \in Nat
  BY <1>4, ParametersAssumption DEF top
<1>7. ASSUME NEW i \in 0..3
      PROVE  /\ alpha * n[i].misses * top
                  + (100 - alpha) * n[i].requests * total[i] \in Nat
             /\ total[i] \in Nat
  <2>1. n[i].misses \in Nat /\ n[i].requests \in Nat /\ total[i] \in Nat
    BY <1>1
  <2>2. alpha * n[i].misses \in Nat /\ (100 - alpha) * n[i].requests \in Nat
    BY <1>6, <2>1, Products
  <2>3. /\ alpha * n[i].misses * top \in Nat
        /\ (100 - alpha) * n[i].requests * total[i] \in Nat
    BY <1>6, <2>1, <2>2, Products
  <2> QED BY <2>1, <2>3
<1> QED BY <1>5, <1>7 DEF Fractions

\* What is kept of the ring.
Kept(r, m) ==
  /\ IsRing(r) /\ RingInv(r, virtual_node, m)
  /\ r.realNodes = 4 /\ Len(r.list) = 4 * virtual_node

\* update() leaves the ring as it is, or moves one virtual node that the
\* server of least rank has before one of the server of greatest rank.
LEMMA ShuffledRing ==
  ASSUME NEW r, NEW m \in Nat, Kept(r, m),
         OwnersInOrder(r) = cache_index_each_node,
         NEW rank \in [0..3 -> Fractions], NEW q \in Shuffled(r, rank)
  PROVE  \/ q = r
         \/ \E i \in 1..(Len(r.list) - 1) :
              \E mid \in r.list[i]..(r.list[i+1] - 1) :
                /\ q = MoveNode(r, i, mid)
                /\ cache_index_each_node[i + 1] = MaxServer(rank)
                /\ mid # r.list[i] => MaxServer(rank) # MinServer(rank)
<1> DEFINE max_i == MaxServer(rank)
           min_i == MinServer(rank)
<1>1. CASE Min2Max(max_i, min_i) = {}
  BY <1>1 DEF Shuffled
<1>2. CASE Min2Max(max_i, min_i) # {}
  <2>1. PICK i \in Min2Max(max_i, min_i) :
          q = MoveNode(r, i, r.list[i] + Shift(Gap(r, i), rank[max_i],
                                               rank[min_i]))
    BY <1>2 DEF Shuffled
  <2> DEFINE z == Shift(Gap(r, i), rank[max_i], rank[min_i])
             mid == r.list[i] + z
  <2>2. /\ r.list \in Seq(0..m) /\ Increasing(r.list)
        /\ DOMAIN r.list = 1..Len(r.list) /\ Len(r.list) \in Nat
    <3>1. r.list \in Seq(0..m) /\ Sorted(r.list) /\ IsInjective(r.list)
      BY DEF Kept, RingInv, RingOf
    <3> QED BY <3>1, SortedIncreases
  <2>3. Len(cache_index_each_node) = Len(r.list)
    BY <2>2 DEF OwnersInOrder
  <2>4. i \in 1..(Len(r.list) - 1) /\ cache_index_each_node[i + 1] = max_i
    BY <2>3 DEF Min2Max
  <2>5. /\ r.list[i] \in Nat /\ r.list[i+1] \in Nat /\ r.list[i] < r.list[i+1]
        /\ Gap(r, i) \in Nat \ {0} /\ Gap(r, i) = r.list[i+1] - r.list[i]
    <3>1. i \in 1..Len(r.list) /\ i + 1 \in 1..Len(r.list) /\ i < i + 1
      BY <2>2, <2>4
    <3>2. r.list[i] \in Nat /\ r.list[i+1] \in Nat
      BY <2>2, <3>1, PositionsNat
    <3>3. r.list[i] < r.list[i+1]
      BY <2>2, <3>1 DEF Increasing
    <3> QED BY <3>2, <3>3 DEF Gap
  <2>6. max_i \in 0..3 /\ min_i \in 0..3
    BY MaxServerRanked, MinServerRanked
  <2>7. rank[max_i] = rank[min_i] \/ AtLeast(rank[max_i], rank[min_i])
    <3>1. max_i = min_i \/ AtLeast(rank[max_i], rank[min_i])
      BY MaxOverMin
    <3> QED BY <3>1
  <2>8. z \in 0..(Gap(r, i) - 1) /\ (max_i = min_i => z = 0)
    <3>1. rank[max_i] \in Fractions /\ rank[min_i] \in Fractions
      BY <2>6
    <3> HIDE DEF max_i, min_i
    <3> QED BY <2>5, <2>7, <3>1, ShiftSmall
  <2> HIDE DEF z
  <2>9. /\ mid \in r.list[i]..(r.list[i+1] - 1)
        /\ mid # r.list[i] => max_i # min_i
    BY <2>5, <2>8
  <2>10. q = MoveNode(r, i, mid)
    BY <2>1 DEF z
  <2> HIDE DEF mid
  <2> QED BY <2>4, <2>9, <2>10
<1> QED BY <1>1, <1>2

\* So the ring stays in step with its owners, and a file that changes its
\* server gets that of greatest rank.
LEMMA ShuffledKept ==
  ASSUME NEW r, NEW m \in Nat, Kept(r, m),
         OwnersInOrder(r) = cache_index_each_node,
         NEW rank \in [0..3 -> Fractions], NEW q \in Shuffled(r, rank)
  PROVE  /\ Kept(q, m) /\ OwnersInOrder(q) = cache_index_each_node
         /\ \A h \in Nat : CacheIndex(q, h) # CacheIndex(r, h) =>
              /\ CacheIndex(q, h) = MaxServer(rank)
              /\ MaxServer(rank) # MinServer(rank)
<1>1. CASE q = r
  BY <1>1
<1>2. ASSUME NEW i \in 1..(Len(r.list) - 1),
             NEW mid \in r.list[i]..(r.list[i+1] - 1), q = MoveNode(r, i, mid),
             cache_index_each_node[i + 1] = MaxServer(rank),
             mid # r.list[i] => MaxServer(rank) # MinServer(rank)
      PROVE  /\ Kept(q, m) /\ OwnersInOrder(q) = cache_index_each_node
             /\ \A h \in Nat : CacheIndex(q, h) # CacheIndex(r, h) =>
                  /\ CacheIndex(q, h) = MaxServer(rank)
                  /\ MaxServer(rank) # MinServer(rank)
  <2>0. /\ IsRing(r) /\ RingInv(r, virtual_node, m) /\ r.realNodes = 4
        /\ Len(r.list) = 4 * virtual_node /\ r.list \in Seq(0..m)
    BY DEF Kept, RingInv
  <2>1. /\ IsRing(q) /\ RingInv(q, virtual_node, m) /\ q.realNodes = 4
        /\ OwnersInOrder(q) = cache_index_each_node
        /\ q.list = MovedTo(r.list, i, mid)
    <3>1. IsRing(r) /\ RingInv(r, virtual_node, m) /\ q = MoveNode(r, i, mid)
      BY <1>2, <2>0
    <3>2. /\ IsRing(q) /\ RingInv(q, virtual_node, m)
          /\ q.realNodes = r.realNodes /\ OwnersInOrder(q) = OwnersInOrder(r)
          /\ q.list = MovedTo(r.list, i, mid)
      BY <3>1, MoveNodeInv
    <3> QED BY <2>0, <3>2
  <2>2. Len(q.list) = Len(r.list)
    <3>1. DOMAIN q.list = DOMAIN r.list
      BY <2>1 DEF MovedTo
    <3>2. q.list \in Seq(0..m)
      BY <2>1 DEF RingInv
    <3> QED BY <2>0, <3>1, <3>2
  <2>3. Kept(q, m)
    BY <2>0, <2>1, <2>2 DEF Kept
  <2>4. ASSUME NEW h \in Nat, CacheIndex(q, h) # CacheIndex(r, h)
        PROVE  /\ CacheIndex(q, h) = MaxServer(rank)
               /\ MaxServer(rank) # MinServer(rank)
    <3>1. mid # r.list[i] /\ CacheIndex(q, h) = OwnersInOrder(r)[i + 1]
      <4>1. IsRing(r) /\ RingInv(r, virtual_node, m) /\ q = MoveNode(r, i, mid)
        BY <1>2, <2>0
      <4> QED BY <2>4, <4>1, MoveNodeServes
    <3> QED BY <1>2, <3>1
  <2> QED BY <2>1, <2>3, <2>4
<1> QED BY <1>1, <1>2, ShuffledRing

----------------------------------------------------------------------------
(***************************************************************************)
(* Shuffler.  The inductive invariant: the ring is kept, every server is a *)
(* consistent cache, and the counts are numbers.                           *)
(***************************************************************************)

\* The greatest position a port may hash to.
MaxHash == CHOOSE m \in Nat : Positions \subseteq 0..m

LEMMA MaxHashIs == MaxHash \in Nat /\ Positions \subseteq 0..MaxHash
BY FiniteBounded, ParametersAssumption DEF MaxHash

RingKeeps ==
  /\ Kept(chash, MaxHash)
  /\ OwnersInOrder(chash) = cache_index_each_node

CachesKeep ==
  /\ caches_list \in [Servers -> LRUCaches]
  /\ \A s \in Servers : CacheInv(caches_list[s])

NumbersKeep ==
  /\ hashOf \in HashFunctions
  /\ counts \in [Servers -> Counts]
  /\ position \in 0..(window_size - 1)
  /\ reqs \in 0..MaxReqs /\ hits \in 0..reqs
  /\ ranked \in [max : Servers, min : Servers]

IInv == RingKeeps /\ CachesKeep /\ NumbersKeep

\* The invariant holds initially.
LEMMA InitIInv == Init => IInv
<1> SUFFICES ASSUME Init PROVE IInv
  OBVIOUS
<1>1. RingKeeps
  <2>1. chash \in Rings(4, virtual_node, Positions)
    BY DEF Init, cache_number
  <2>2. virtual_node \in Nat /\ MaxHash \in Nat /\ Positions \in SUBSET (0..MaxHash)
    BY MaxHashIs, ParametersAssumption
  <2>3. /\ Ring(chash, virtual_node, MaxHash, Positions) /\ chash.realNodes = 4
        /\ chash \in RingRecords(MaxHash, Positions)
    BY <2>1, <2>2, RingsBuilt
  <2>4. IsRing(chash)
    BY <2>3 DEF RingRecords, IsRing
  <2>5. Kept(chash, MaxHash)
    BY <2>3, <2>4 DEF Ring, Kept
  <2> QED BY <2>5 DEF Init, RingKeeps
<1>2. CachesKeep
  <2>1. \A s \in Servers : CacheInv(SetSize(NewCache, cache_size))
    BY FreshServer, ParametersAssumption
  <2>2. SetSize(NewCache, cache_size) \in LRUCaches
    BY FreshServer, ParametersAssumption DEF CacheInv
  <2> QED BY <2>1, <2>2 DEF Init, CachesKeep
<1>3. NumbersKeep
  <2>1. Servers = 0..3
    BY ServersAre
  <2>2. NoCounts \in Counts
    BY DEF NoCounts, Counts
  <2>3. 0 \in 0..(window_size - 1) /\ 0 \in 0..MaxReqs
    BY ParametersAssumption
  <2> QED BY <2>1, <2>2, <2>3 DEF Init, NumbersKeep
<1> QED BY <1>1, <1>2, <1>3 DEF IInv

\* A file is sent to one of the servers.
LEMMA DestinationIs ==
  ASSUME IInv, NEW o \in Lines
  PROVE  o \in Objects /\ hashOf[o.id] \in Nat /\ Destination(o) \in Servers
<1>1. o \in Objects /\ o.id \in Ids
  BY LinesAssumption DEF Objects
<1>2. hashOf[o.id] \in Nat
  BY <1>1, ParametersAssumption DEF IInv, NumbersKeep
<1>3. /\ RingInv(chash, virtual_node, MaxHash) /\ Len(chash.list) > 0
      /\ chash.realNodes = 4
  <2>1. Len(chash.list) = 4 * virtual_node /\ virtual_node \in Nat \ {0}
    BY ParametersAssumption DEF IInv, RingKeeps, Kept
  <2> QED BY <2>1 DEF IInv, RingKeeps, Kept
<1>4. Destination(o) \in 0..(chash.realNodes - 1)
  <2>1. CacheIndex(chash, hashOf[o.id]) \in 0..(chash.realNodes - 1)
    BY <1>2, <1>3, MaxHashIs, ServedByOwner
  <2> QED BY <2>1 DEF Destination
<1> QED BY <1>1, <1>2, <1>3, <1>4, ServersAre

\* What a lookup records changes nothing of the ring.
LEMMA LookedUpKept ==
  ASSUME IInv, NEW o \in Lines
  PROVE  /\ Kept(LookedUp(o), MaxHash)
         /\ OwnersInOrder(LookedUp(o)) = cache_index_each_node
         /\ \A h : CacheIndex(LookedUp(o), h) = CacheIndex(chash, h)
<1> DEFINE q == LookedUp(o)
<1>1. q = LookUp(chash, o.id, hashOf[o.id])
  BY DEF LookedUp
<1>2. Kept(chash, MaxHash) /\ OwnersInOrder(chash) = cache_index_each_node
  BY DEF IInv, RingKeeps
<1> HIDE DEF q
<1>3. IsRing(q) /\ SameNodes(q, chash)
  BY <1>1, <1>2, LookUpRing DEF Kept
<1>4. \A h : CacheIndex(q, h) = CacheIndex(chash, h)
  BY <1>3, ServedBySame
<1>5. Kept(q, MaxHash)
  BY <1>2, <1>3 DEF Kept, SameNodes, RingInv, RingOf
<1>6. OwnersInOrder(q) = cache_index_each_node
  BY <1>2, <1>3 DEF OwnersInOrder, SameNodes
<1> QED BY <1>4, <1>5, <1>6 DEF q

\* What a request does to the caches and the counts.
LEMMA ServeKeeps ==
  ASSUME IInv, NEW o \in Lines, Serve(o)
  PROVE  CachesKeep' /\ Counted(o) \in [Servers -> Counts]
         /\ reqs' \in 0..MaxReqs /\ hits' \in 0..reqs'
<1> DEFINE s == Destination(o)
<1>1. s \in Servers /\ o \in Objects
  BY DestinationIs
<1>2. /\ caches_list \in [Servers -> LRUCaches]
      /\ \A x \in Servers : CacheInv(caches_list[x])
      /\ counts \in [Servers -> Counts] /\ reqs \in Nat /\ hits \in 0..reqs
  BY DEF IInv, CachesKeep, NumbersKeep
<1> HIDE DEF s
<1>3. Counted(o) \in [Servers -> Counts]
  <2>1. /\ counts[s] \in Counts
        /\ counts[s].requests \in Nat /\ counts[s].hits \in Nat
        /\ counts[s].misses \in Nat
    BY <1>1, <1>2 DEF Counts
  <2>2. /\ [counts[s] EXCEPT !.requests = @ + 1, !.hits = @ + 1] \in Counts
        /\ [counts[s] EXCEPT !.requests = @ + 1, !.misses = @ + 1] \in Counts
    <3> DEFINE c == counts[s]
    <3>1. /\ c \in Counts /\ c.requests + 1 \in Nat /\ c.hits + 1 \in Nat
          /\ c.misses + 1 \in Nat
      BY <2>1
    <3> HIDE DEF c
    <3>2. /\ [c EXCEPT !.requests = @ + 1, !.hits = @ + 1] \in Counts
          /\ [c EXCEPT !.requests = @ + 1, !.misses = @ + 1] \in Counts
      BY <3>1 DEF Counts
    <3> QED BY <3>2 DEF c
  <2>3. Counted(o) \in
          {[counts EXCEPT ![s] = [counts[s] EXCEPT !.requests = @ + 1,
                                                   !.hits = @ + 1]],
           [counts EXCEPT ![s] = [counts[s] EXCEPT !.requests = @ + 1,
                                                   !.misses = @ + 1]]}
    BY DEF Counted, s
  <2> QED BY <1>1, <1>2, <2>2, <2>3
<1>4. PICK d : CacheInv(d) /\ caches_list' = [caches_list EXCEPT ![s] = d]
  <2>1. CASE IsHit(caches_list[s], o)
    <3>1. CacheInv(Lookup(caches_list[s], o))
      BY <1>1, <1>2, ServeHit
    <3>2. caches_list' = [caches_list EXCEPT ![s] = Lookup(caches_list[s], o)]
      BY <2>1 DEF Serve, s
    <3> QED BY <3>1, <3>2
  <2>2. CASE ~IsHit(caches_list[s], o)
    <3>1. CacheInv(Admit(Lookup(caches_list[s], o), o))
      BY <1>1, <1>2, <2>2, ServeMiss DEF IsHit
    <3>2. caches_list' = [caches_list EXCEPT
                            ![s] = Admit(Lookup(caches_list[s], o), o)]
      BY <2>2 DEF Serve, s
    <3> QED BY <3>1, <3>2
  <2> QED BY <2>1, <2>2
<1>5. CachesKeep'
  <2>1. Servers' = Servers
    BY DEF Servers, cache_number
  <2>2. d \in LRUCaches
    BY <1>4 DEF CacheInv
  <2>3. /\ caches_list' \in [Servers -> LRUCaches]
        /\ \A x \in Servers : CacheInv(caches_list'[x])
    BY <1>1, <1>2, <1>4, <2>2
  <2> QED BY <2>1, <2>3 DEF CachesKeep
<1>6. reqs' \in 0..MaxReqs /\ hits' \in 0..reqs'
  <2>1. /\ reqs < MaxReqs /\ reqs' = reqs + 1
        /\ hits' = hits + 1 \/ hits' = hits
    BY DEF Serve
  <2> QED BY <1>2, <2>1, ParametersAssumption
<1> QED BY <1>3, <1>5, <1>6

\* The ranks at the end of a window.
EndRanks(o) ==
  RanksOf(Counted(o), [i \in Servers |-> Counted(o)[i].requests], alpha)

LEMMA EndRanksAre ==
  ASSUME IInv, NEW o \in Lines, Serve(o)
  PROVE  /\ EndRanks(o) \in [0..3 -> Fractions]
         /\ MaxServer(EndRanks(o)) \in Servers /\ MinServer(EndRanks(o)) \in Servers
<1>1. Counted(o) \in [0..3 -> Counts]
  BY ServeKeeps, ServersAre
<1>2. EndRanks(o) \in [0..3 -> Fractions]
  BY <1>1, RanksAre, ServersAre DEF EndRanks
<1> QED BY <1>2, MaxServerRanked, MinServerRanked, ServersAre

\* Every step keeps the invariant.
LEMMA NextIInv == IInv /\ [Next]_vars => IInv'
<1> SUFFICES ASSUME IInv, [Next]_vars PROVE IInv'
  OBVIOUS
<1>0. Servers' = Servers
  BY DEF Servers, cache_number
<1>1. ASSUME NEW o \in Lines, Request(o) PROVE IInv'
  <2>1. /\ Serve(o) /\ position + 1 < window_size /\ position' = position + 1
        /\ counts' = Counted(o) /\ chash' = LookedUp(o) /\ ranked' = ranked
        /\ hashOf' = hashOf /\ cache_index_each_node' = cache_index_each_node
    BY <1>1 DEF Request, Serve
  <2>2. CachesKeep' /\ counts' \in [Servers -> Counts]
        /\ reqs' \in 0..MaxReqs /\ hits' \in 0..reqs'
    BY <2>1, ServeKeeps
  <2>3. RingKeeps'
    BY <2>1, LookedUpKept DEF RingKeeps
  <2>4. position' \in 0..(window_size - 1)
    BY <2>1, ParametersAssumption DEF IInv, NumbersKeep
  <2>5. NumbersKeep'
    BY <1>0, <2>1, <2>2, <2>4 DEF IInv, NumbersKeep
  <2> QED BY <2>2, <2>3, <2>5 DEF IInv
<1>2. ASSUME NEW o \in Lines, RequestUpdate(o) PROVE IInv'
  <2>1. /\ Serve(o) /\ position' = 0
        /\ counts' = [s \in Servers |-> NoCounts]
        /\ chash' \in Shuffled(LookedUp(o), EndRanks(o))
        /\ ranked' = [max |-> MaxServer(EndRanks(o)), min |-> MinServer(EndRanks(o))]
        /\ hashOf' = hashOf /\ cache_index_each_node' = cache_index_each_node
    BY <1>2 DEF RequestUpdate, Serve, EndRanks
  <2>2. CachesKeep' /\ reqs' \in 0..MaxReqs /\ hits' \in 0..reqs'
    BY <2>1, ServeKeeps
  <2>3. RingKeeps'
    <3>1. /\ Kept(LookedUp(o), MaxHash)
          /\ OwnersInOrder(LookedUp(o)) = cache_index_each_node
      BY LookedUpKept
    <3>2. EndRanks(o) \in [0..3 -> Fractions] /\ MaxHash \in Nat
      BY <2>1, EndRanksAre, MaxHashIs
    <3>3. /\ Kept(chash', MaxHash) /\ OwnersInOrder(chash') = cache_index_each_node
      BY <2>1, <3>1, <3>2, ShuffledKept
    <3> QED BY <2>1, <3>3 DEF RingKeeps
  <2>4. counts' \in [Servers -> Counts]
    BY <2>1 DEF NoCounts, Counts
  <2>5. position' \in 0..(window_size - 1)
    BY <2>1, ParametersAssumption
  <2>6. ranked' \in [max : Servers, min : Servers]
    BY <2>1, EndRanksAre
  <2>7. NumbersKeep'
    BY <1>0, <2>1, <2>2, <2>4, <2>5, <2>6 DEF IInv, NumbersKeep
  <2> QED BY <2>2, <2>3, <2>7 DEF IInv
<1>3. CASE UNCHANGED vars
  BY <1>0, <1>3 DEF vars, IInv, RingKeeps, CachesKeep, NumbersKeep
<1> QED BY <1>1, <1>2, <1>3 DEF Next

\* The invariant holds in every state.
LEMMA Invariant == Spec => []IInv
BY InitIInv, NextIInv, PTL DEF Spec

\* The variables keep their types: every virtual node belongs to one of the
\* four servers, and the hits are among the requests.
THEOREM TypesHold == Spec => []TypeOK
<1>1. IInv => TypeOK
  <2> SUFFICES ASSUME IInv PROVE TypeOK
    OBVIOUS
  <2>1. /\ chash.list \in Seq(Nat)
        /\ \A p \in DOMAIN chash.owner : chash.owner[p] \in Servers
    <3>1. /\ chash.list \in Seq(0..MaxHash) /\ chash.realNodes = 4
          /\ \A p \in DOMAIN chash.owner :
               chash.owner[p] \in 0..(chash.realNodes - 1)
      BY DEF IInv, RingKeeps, Kept, RingInv
    <3> QED BY <3>1, MaxHashIs, ServersAre
  <2>2. caches_list \in [Servers -> LRUCaches]
    BY DEF IInv, CachesKeep
  <2> QED BY <2>1, <2>2 DEF IInv, NumbersKeep, Counts, TypeOK
<1> QED BY <1>1, Invariant, PTL

\* However often virtual nodes are moved, the list stays sorted and without
\* repetitions, in step with the map and with the servers in ring order.
THEOREM RingKeptHolds == Spec => []RingKept
<1>1. IInv => RingKept
  BY DEF IInv, RingKeeps, Kept, RingInv, RingKept
<1> QED BY <1>1, Invariant, PTL

\* A file that changes its server goes to the server of greatest rank.
LEMMA LoadStep ==
  ASSUME IInv, [Next]_vars, NEW id \in Ids,
         CacheIndex(chash', hashOf[id]) # CacheIndex(chash, hashOf[id])
  PROVE  CacheIndex(chash', hashOf[id]) = ranked'.max /\ ranked'.max # ranked'.min
<1>1. ASSUME NEW o \in Lines, Request(o) PROVE FALSE
  <2>1. chash' = LookedUp(o)
    BY <1>1 DEF Request
  <2> QED BY <2>1, LookedUpKept
<1>2. ASSUME NEW o \in Lines, RequestUpdate(o)
      PROVE  CacheIndex(chash', hashOf[id]) = ranked'.max
             /\ ranked'.max # ranked'.min
  <2>1. /\ Serve(o) /\ chash' \in Shuffled(LookedUp(o), EndRanks(o))
        /\ ranked' = [max |-> MaxServer(EndRanks(o)), min |-> MinServer(EndRanks(o))]
    BY <1>2 DEF RequestUpdate, EndRanks
  <2>2. /\ Kept(LookedUp(o), MaxHash)
        /\ OwnersInOrder(LookedUp(o)) = cache_index_each_node
        /\ CacheIndex(LookedUp(o), hashOf[id]) = CacheIndex(chash, hashOf[id])
    BY LookedUpKept
  <2>3. EndRanks(o) \in [0..3 -> Fractions] /\ MaxHash \in Nat
    BY <2>1, EndRanksAre, MaxHashIs
  <2>4. hashOf[id] \in Nat
    BY ParametersAssumption DEF IInv, NumbersKeep
  <2>5. \A h \in Nat : CacheIndex(chash', h) # CacheIndex(LookedUp(o), h) =>
          /\ CacheIndex(chash', h) = MaxServer(EndRanks(o))
          /\ MaxServer(EndRanks(o)) # MinServer(EndRanks(o))
    BY <2>1, <2>2, <2>3, ShuffledKept
  <2> QED BY <2>1, <2>2, <2>4, <2>5
<1>3. CASE UNCHANGED vars
  BY <1>3 DEF vars
<1> QED BY <1>1, <1>2, <1>3 DEF Next

\* The files of a moved arc go to the server of greatest rank, never away
\* from it: what the documentation promises is the other way round.
THEOREM LoadForMaxHolds == Spec => LoadForMax
<1>1. IInv /\ [Next]_vars =>
        [\A id \in Ids :
           CacheIndex(chash', hashOf[id]) # CacheIndex(chash, hashOf[id]) =>
             /\ CacheIndex(chash', hashOf[id]) = ranked'.max
             /\ ranked'.max # ranked'.min]_vars
  BY LoadStep
<1> QED BY <1>1, Invariant, PTL DEF Spec, LoadForMax
=============================================================================
