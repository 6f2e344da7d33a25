---------------------------- MODULE ClassLemmas ----------------------------
(***************************************************************************)
(* The lemmas the proofs of several components share.                      *)
(*                                                                         *)
(* Numbers, sets, sequences and sums.  Least elements stand in for         *)
(* induction: a claim that fails for some number, or some finite set,      *)
(* fails for a least one.                                                  *)
(*                                                                         *)
(* LRUCache, for every cache and object: _currentSize stays the bytes of   *)
(* the list and within the capacity, _cacheMap stays the index of the      *)
(* list, and the eviction loop of admit() and setSize() always finds room  *)
(* before the list is empty.                                               *)
(*                                                                         *)
(* consistent_hash: the ring stays in step with its map of virtual nodes,  *)
(* whatever free positions the virtual nodes of each new real node get.    *)
(*                                                                         *)
(* What the clusters share: the servers of greatest and least rank that    *)
(* the loops of update() find, the rings that init_mapper() can build, and *)
(* what a request does to the server it is sent to.                        *)
(***************************************************************************)
EXTENDS LRUCache, StackModel, ConsistentHash, Ranks, FiniteSetTheorems,
        SequenceTheorems, WellFoundedInduction, TLAPS

(***************************************************************************)
(* Numbers, sets and sequences.                                            *)
(***************************************************************************)

\* Every nonempty set of natural numbers has a least element.
LEMMA LeastNat ==
  ASSUME NEW T \in SUBSET Nat, T # {}
  PROVE  \E n \in T : \A m \in T : n <= m
<1> DEFINE R == {ss \in Nat \X Nat : ss[1] < ss[2]}
<1>1. IsWellFoundedOn(R, Nat)
  BY NatLessThanWellFounded, Zenon DEF OpToRel
<1>2. \A x, y \in Nat : y < x => <<y, x>> \in R
  OBVIOUS
<1> HIDE DEF R
<1>3. PICK x \in T : \A y \in T : ~ (<<y, x>> \in R)
  BY <1>1, WFMin
<1>4. \A m \in T : ~(m < x)
  BY <1>2, <1>3
<1>5. \A m \in T : x <= m
  BY <1>4
<1> QED BY <1>3, <1>5

\* Every nonempty family of finite sets has a member of least cardinality.
LEMMA LeastSet ==
  ASSUME NEW F, F # {}, \A T \in F : IsFiniteSet(T)
  PROVE  \E T \in F : \A U \in F : Cardinality(T) <= Cardinality(U)
<1> DEFINE C == {Cardinality(T) : T \in F}
<1>1. C \in SUBSET Nat /\ C # {}
  BY FS_CardinalityType
<1>2. PICK n \in C : \A m \in C : n <= m
  BY <1>1, LeastNat
<1>3. PICK T \in F : n = Cardinality(T)
  BY <1>2
<1>4. \A U \in F : Cardinality(T) <= Cardinality(U)
  BY <1>2, <1>3
<1> QED BY <1>4

\* What satisfies P at 0 and passes it on satisfies it up to n.
LEMMA UptoInduction ==
  ASSUME NEW n \in Nat, NEW P \in SUBSET (0..n), 0 \in P,
         \A k \in 1..n : k - 1 \in P => k \in P
  PROVE  P = 0..n
<1> DEFINE Bad == (0..n) \ P
<1>1. CASE Bad = {}
  BY <1>1
<1>2. CASE Bad # {}
  <2>1. Bad \in SUBSET Nat
    OBVIOUS
  <2>2. PICK k \in Bad : \A m \in Bad : k <= m
    BY <1>2, <2>1, LeastNat
  <2>3. k # 0 /\ k \in 1..n
    OBVIOUS
  <2>4. k - 1 \notin Bad /\ k - 1 \in 0..n
    BY <2>2, <2>3
  <2> QED BY <2>2, <2>3, <2>4
<1> QED BY <1>1, <1>2

\* f is what a recursion on 0..n computes from c, in a set of values V.
IsRecursion(f, n, V, c, step) ==
  /\ f \in [0..n -> V]
  /\ f[0] = c /\ \A k \in 1..n : f[k] = step[k][f[k-1]]

\* A recursion whose steps stay in a set defines a function.
LEMMA RecursionExists ==
  ASSUME NEW n \in Nat, NEW V, NEW c, c \in V,
         NEW step, step \in [1..n -> [V -> V]]
  PROVE  \E f : IsRecursion(f, n, V, c, step)
<1> DEFINE P == {m \in 0..n : \E f : IsRecursion(f, m, V, c, step)}
<1>1. 0 \in P
  <2>1. IsRecursion([k \in 0..0 |-> c], 0, V, c, step) /\ 0 \in 0..n
    BY DEF IsRecursion
  <2> QED BY <2>1, Zenon
<1>2. ASSUME NEW m \in 1..n, m - 1 \in P PROVE m \in P
  <2>1. PICK f : IsRecursion(f, m - 1, V, c, step)
    BY <1>2
  <2> DEFINE g == [k \in 0..m |-> IF k = m THEN step[m][f[m-1]] ELSE f[k]]
  <2>2. f[m-1] \in V
    BY <2>1 DEF IsRecursion
  <2>3. step[m][f[m-1]] \in V
    BY <2>2
  <2>4. g \in [0..m -> V] /\ g[0] = c
    BY <2>1, <2>3 DEF IsRecursion
  <2>5. ASSUME NEW k \in 1..m PROVE g[k] = step[k][g[k-1]]
    <3>1. CASE k = m
      <4>1. k - 1 \in 0..m /\ k - 1 # m /\ k \in 0..m
        BY <3>1
      <4>2. g[k] = step[m][f[m-1]] /\ g[k-1] = f[k-1]
        BY <3>1, <4>1
      <4> QED BY <3>1, <4>2
    <3>2. CASE k # m
      <4>1. k \in 1..(m-1) /\ k - 1 # m /\ k - 1 \in 0..m
        BY <3>2
      <4>2. g[k] = f[k] /\ g[k-1] = f[k-1]
        BY <4>1
      <4> QED BY <2>1, <4>1, <4>2 DEF IsRecursion
    <3> QED BY <3>1, <3>2
  <2>6. IsRecursion(g, m, V, c, step)
    BY <2>4, <2>5 DEF IsRecursion
  <2>7. m \in 0..n
    OBVIOUS
  <2> HIDE DEF g
  <2> QED BY <2>6, <2>7, Zenon
<1> HIDE DEF P
<1>3. P = 0..n
  <2>1. P \in SUBSET (0..n)
    BY DEF P
  <2> QED BY <1>1, <1>2, <2>1, UptoInduction
<1>4. n \in P
  BY <1>3
<1> QED BY <1>4 DEF P

\* Every nonempty finite set of integers has a greatest element.
LEMMA MaxGreatest ==
  ASSUME NEW T \in SUBSET Nat, T # {}, NEW n \in Nat, \A m \in T : m <= n
  PROVE  Max(T) \in T /\ \A m \in T : m <= Max(T)
<1> DEFINE D == {n - m : m \in T}
<1>1. D \in SUBSET Nat /\ D # {}
  <2>1. \A m \in T : n - m \in Nat
    OBVIOUS
  <2> QED BY <2>1
<1>2. PICK d \in D : \A x \in D : d <= x
  BY <1>1, LeastNat
<1>3. PICK m \in T : d = n - m
  BY <1>2
<1>4. \A x \in T : m >= x
  BY <1>2, <1>3
<1>5. \E x \in T : \A y \in T : x >= y
  BY <1>4
<1> QED BY <1>5 DEF Max

\* A finite set of natural numbers has a bound.
LEMMA FiniteBounded ==
  ASSUME NEW S \in SUBSET Nat, IsFiniteSet(S)
  PROVE  \E n \in Nat : S \subseteq 0..n
<1> DEFINE Bounded(T) == \E n \in Nat : T \subseteq 0..n
           F == {T \in SUBSET S : ~Bounded(T)}
<1> SUFFICES ASSUME F # {} PROVE FALSE
  OBVIOUS
<1>1. \A T \in F : T \in SUBSET S /\ IsFiniteSet(T)
  BY FS_Subset
<1>2. PICK T \in F : \A U \in F : Cardinality(T) <= Cardinality(U)
  <2> HIDE DEF F
  <2> QED BY <1>1, LeastSet
<1>3. T # {}
  <2>1. {} \subseteq 0..0
    OBVIOUS
  <2> QED BY <2>1
<1>4. PICK x \in T : TRUE
  BY <1>3
<1>5. /\ Cardinality(T \ {x}) = Cardinality(T) - 1
      /\ Cardinality(T) \in Nat
  BY <1>1, <1>2, FS_RemoveElement, FS_CardinalityType
<1>6. T \ {x} \notin F
  BY <1>2, <1>5
<1>7. PICK n \in Nat : T \ {x} \subseteq 0..n
  BY <1>1, <1>2, <1>6
<1>8. x \in Nat
  BY <1>1, <1>2, <1>4
<1>9. T \subseteq 0..(n + x)
  BY <1>7, <1>8
<1>10. n + x \in Nat
  BY <1>8
<1> QED BY <1>2, <1>9, <1>10

\* A set of indices that has every index before one of its own is an interval.
LEMMA InitialSegment ==
  ASSUME NEW n \in Nat, NEW T \in SUBSET (1..n),
         \A i \in T : \A j \in 1..i : j \in T
  PROVE  /\ T = 1..Cardinality(T) /\ IsFiniteSet(T)
         /\ Cardinality(T) \in 0..n
<1> DEFINE D == {m \in Nat : m + 1 \notin T}
<1>1. n \in D
  OBVIOUS
<1>2. PICK m \in D : \A x \in D : m <= x
  <2>1. D \in SUBSET Nat /\ D # {}
    BY <1>1
  <2> QED BY <2>1, LeastNat
<1>3. m \in Nat /\ m <= n
  BY <1>1, <1>2
<1>4. \A i \in 1..m : i \in T
  <2> SUFFICES ASSUME NEW i \in 1..m PROVE i \in T
    OBVIOUS
  <2>1. i - 1 \in Nat /\ ~(m <= i - 1)
    BY <1>3
  <2>2. i - 1 \notin D
    BY <1>2, <2>1
  <2> QED BY <2>1, <2>2
<1>5. \A i \in T : i \in 1..m
  BY <1>2, <1>3
<1>6. T = 1..m
  BY <1>4, <1>5
<1>7. IsFiniteSet(1..m) /\ Cardinality(1..m) = IF 1 > m THEN 0 ELSE m - 1 + 1
  BY <1>3, FS_Interval
<1> QED BY <1>3, <1>6, <1>7

----------------------------------------------------------------------------
(***************************************************************************)
(* Sequences, cell by cell.                                                *)
(***************************************************************************)
\* Removing a cell of a list: what is left, cell by cell.
LEMMA RemoveAtCells ==
  ASSUME NEW S, NEW s \in Seq(S), NEW n \in 1..Len(s)
  PROVE  /\ RemoveAt(s, n) \in Seq(S)
         /\ Len(RemoveAt(s, n)) = Len(s) - 1
         /\ \A i \in 1..(Len(s)-1) :
               RemoveAt(s, n)[i] = IF i < n THEN s[i] ELSE s[i+1]
<1> DEFINE a == SubSeq(s, 1, n-1)
           b == SubSeq(s, n+1, Len(s))
<1>1. /\ a \in Seq(S) /\ Len(a) = n-1
      /\ \A i \in 1..(n-1) : a[i] = s[i]
  BY SubSeqProperties, ElementOfSeq
<1>2. /\ b \in Seq(S) /\ Len(b) = Len(s)-n
      /\ \A i \in 1..(Len(s)-n) : b[i] = s[n+i]
  BY SubSeqProperties, ElementOfSeq
<1> HIDE DEF a, b
<1>3. /\ a \o b \in Seq(S) /\ Len(a \o b) = Len(s)-1
      /\ \A i \in 1..(Len(s)-1) :
            (a \o b)[i] = IF i <= n-1 THEN a[i] ELSE b[i-(n-1)]
  BY <1>1, <1>2, ConcatProperties
<1>4. ASSUME NEW i \in 1..(Len(s)-1)
      PROVE  (a \o b)[i] = IF i < n THEN s[i] ELSE s[i+1]
  <2>1. CASE i < n
    BY <2>1, <1>1, <1>3
  <2>2. CASE ~(i < n)
    BY <2>2, <1>2, <1>3
  <2> QED BY <2>1, <2>2
<1>5. RemoveAt(s, n) = a \o b
  BY DEF RemoveAt, a, b
<1> QED BY <1>3, <1>4, <1>5

\* Removing a cell of a list without repetitions removes its entry.
LEMMA RemoveAtSet ==
  ASSUME NEW S, NEW s \in Seq(S), NEW n \in 1..Len(s), IsInjective(s)
  PROVE  /\ ToSet(RemoveAt(s, n)) = ToSet(s) \ {s[n]}
         /\ IsInjective(RemoveAt(s, n))
<1> DEFINE t == RemoveAt(s, n)
<1>1. /\ t \in Seq(S) /\ Len(t) = Len(s)-1
      /\ \A i \in 1..(Len(s)-1) : t[i] = IF i < n THEN s[i] ELSE s[i+1]
  BY RemoveAtCells
<1> HIDE DEF t
<1>2. DOMAIN t = 1..(Len(s)-1) /\ DOMAIN s = 1..Len(s) /\ Len(s) \in Nat
  BY <1>1, LenProperties
<1>3. \A i, j \in 1..Len(s) : s[i] = s[j] => i = j
  BY <1>2 DEF IsInjective
<1>4. ToSet(t) = ToSet(s) \ {s[n]}
  <2>1. ASSUME NEW x \in ToSet(t) PROVE x \in ToSet(s) \ {s[n]}
    <3>1. PICK i \in 1..(Len(s)-1) : x = t[i]
      BY <1>2 DEF ToSet
    <3>2. PICK j \in 1..Len(s) : x = s[j] /\ j # n
      BY <3>1, <1>1, <1>2
    <3> QED BY <3>2, <1>2, <1>3 DEF ToSet
  <2>2. ASSUME NEW x \in ToSet(s), x # s[n] PROVE x \in ToSet(t)
    <3>1. PICK j \in 1..Len(s) : x = s[j] /\ j # n
      BY <2>2, <1>2 DEF ToSet
    <3>2. \E i \in 1..(Len(s)-1) : x = t[i]
      <4>1. CASE j < n
        <5>1. j \in 1..(Len(s)-1) /\ t[j] = s[j]
          BY <4>1, <1>1, <1>2
        <5> QED BY <5>1, <3>1
      <4>2. CASE j > n
        <5>1. j-1 \in 1..(Len(s)-1) /\ t[j-1] = s[j]
          BY <4>2, <1>1, <1>2
        <5> QED BY <5>1, <3>1
      <4> QED BY <4>1, <4>2, <3>1, <1>2
    <3> QED BY <3>2, <1>2 DEF ToSet
  <2> QED BY <2>1, <2>2
<1>5. IsInjective(t)
  <2>1. ASSUME NEW i \in 1..(Len(s)-1), NEW j \in 1..(Len(s)-1), t[i] = t[j]
        PROVE  i = j
    BY <2>1, <1>1, <1>2, <1>3
  <2> QED BY <2>1, <1>2 DEF IsInjective
<1> QED BY <1>4, <1>5 DEF t

\* RemoveFirst() removes the cell of an entry that is there once.
LEMMA RemoveFirstCell ==
  ASSUME NEW S, NEW s \in Seq(S), IsInjective(s), NEW o
  PROVE  /\ o \notin ToSet(s) => RemoveFirst(s, o) = s
         /\ \A n \in 1..Len(s) :
              s[n] = o => RemoveFirst(s, o) = RemoveAt(s, n)
<1>1. DOMAIN s = 1..Len(s) /\ Len(s) \in Nat
  BY LenProperties
<1>2. ASSUME o \notin ToSet(s) PROVE RemoveFirst(s, o) = s
  <2>1. ~\E i \in 1..Len(s) : s[i] = o
    BY <1>1, <1>2 DEF ToSet
  <2> QED BY <2>1 DEF RemoveFirst
<1>3. ASSUME NEW n \in 1..Len(s), s[n] = o
      PROVE  RemoveFirst(s, o) = RemoveAt(s, n)
  <2> DEFINE T == {i \in 1..Len(s) : s[i] = o}
  <2>1. T = {n}
    BY <1>1, <1>3 DEF IsInjective
  <2>2. SelectInSeq(s, LAMBDA v : v = o) = IF T # {} THEN Min(T) ELSE 0
    BY DEF SelectInSeq
  <2> HIDE DEF T
  <2>3. Min(T) = n
    <3>1. n \in {n} /\ \A y \in {n} : n <= y
      BY <1>1
    <3>2. \A x \in {n} : x = n
      OBVIOUS
    <3> QED BY <2>1, <3>1, <3>2 DEF Min
  <2>4. RemoveFirst(s, o) = RemoveAt(s, SelectInSeq(s, LAMBDA v : v = o))
    BY <1>3 DEF RemoveFirst
  <2> QED BY <2>1, <2>2, <2>3, <2>4
<1> QED BY <1>2, <1>3

\* RemoveFirst() removes the entry, and nothing else, from a list without
\* repetitions.
LEMMA RemoveFirstSet ==
  ASSUME NEW S, NEW s \in Seq(S), IsInjective(s), NEW o
  PROVE  /\ RemoveFirst(s, o) \in Seq(S) /\ IsInjective(RemoveFirst(s, o))
         /\ ToSet(RemoveFirst(s, o)) = ToSet(s) \ {o}
<1>1. DOMAIN s = 1..Len(s)
  BY LenProperties
<1>2. CASE o \notin ToSet(s)
  BY <1>2, RemoveFirstCell
<1>3. CASE o \in ToSet(s)
  <2>1. PICK n \in 1..Len(s) : s[n] = o
    BY <1>1, <1>3 DEF ToSet
  <2>2. RemoveFirst(s, o) = RemoveAt(s, n)
    BY <2>1, RemoveFirstCell
  <2> QED BY <2>1, <2>2, RemoveAtCells, RemoveAtSet
<1> QED BY <1>2, <1>3

\* Inserting a cell into a list.
LEMMA InsertAtCells ==
  ASSUME NEW S, NEW s \in Seq(S), NEW e \in S, NEW n \in 1..(Len(s)+1)
  PROVE  /\ InsertAt(s, n, e) \in Seq(S)
         /\ Len(InsertAt(s, n, e)) = Len(s) + 1
         /\ \A i \in 1..(Len(s)+1) :
              InsertAt(s, n, e)[i] = IF i < n THEN s[i]
                                     ELSE IF i = n THEN e ELSE s[i-1]
<1> DEFINE a == SubSeq(s, 1, n-1)
           b == SubSeq(s, n, Len(s))
           ae == a \o <<e>>
<1>1. /\ a \in Seq(S) /\ Len(a) = n-1
      /\ \A i \in 1..(n-1) : a[i] = s[i]
  BY SubSeqProperties, ElementOfSeq
<1>2. /\ b \in Seq(S) /\ Len(b) = Len(s)-n+1
      /\ \A i \in 1..(Len(s)-n+1) : b[i] = s[n+i-1]
  BY SubSeqProperties, ElementOfSeq
<1> HIDE DEF a, b
<1>3. /\ <<e>> \in Seq(S) /\ Len(<<e>>) = 1 /\ <<e>>[1] = e
  OBVIOUS
<1>4. /\ ae \in Seq(S) /\ Len(ae) = n
      /\ \A i \in 1..n : ae[i] = IF i < n THEN s[i] ELSE e
  BY <1>1, <1>3, ConcatProperties
<1> HIDE DEF ae
<1>5. /\ ae \o b \in Seq(S) /\ Len(ae \o b) = Len(s) + 1
      /\ \A i \in 1..(Len(s)+1) :
           (ae \o b)[i] = IF i <= n THEN ae[i] ELSE b[i-n]
  BY <1>2, <1>4, ConcatProperties
<1>6. ASSUME NEW i \in 1..(Len(s)+1)
      PROVE  (ae \o b)[i] = IF i < n THEN s[i] ELSE IF i = n THEN e ELSE s[i-1]
  <2>1. CASE i <= n
    BY <2>1, <1>4, <1>5
  <2>2. CASE ~(i <= n)
    <3>1. i - n \in 1..(Len(s)-n+1) /\ n + (i - n) - 1 = i - 1
      BY <2>2
    <3> QED BY <2>2, <3>1, <1>2, <1>5
  <2> QED BY <2>1, <2>2
<1>7. InsertAt(s, n, e) = ae \o b
  BY DEF InsertAt, a, b, ae
<1> QED BY <1>5, <1>6, <1>7

\* A list that repeats nothing has as many elements as cells.
LEMMA InjectiveLength ==
  ASSUME NEW S, NEW s \in Seq(S),
         \A i, j \in 1..Len(s) : s[i] = s[j] => i = j
  PROVE  IsFiniteSet(ToSet(s)) /\ Cardinality(ToSet(s)) = Len(s)
<1>1. DOMAIN s = 1..Len(s) /\ Len(s) \in Nat /\ s \in [1..Len(s) -> S]
  BY LenProperties
<1>2. s \in [1..Len(s) -> ToSet(s)] /\ IsInjective(s)
  BY <1>1 DEF IsInjective, ToSet
<1>3. \A x \in ToSet(s) : \E i \in 1..Len(s) : s[i] = x
  BY <1>1 DEF ToSet
<1>4. s \in Bijection(1..Len(s), ToSet(s))
  BY <1>2, <1>3 DEF Bijection, Injection, Surjection
<1>5. ExistsBijection(1..Len(s), ToSet(s))
  BY <1>4, Zenon DEF ExistsBijection
<1>6. /\ IsFiniteSet(1..Len(s))
      /\ Cardinality(1..Len(s)) = IF 1 > Len(s) THEN 0 ELSE Len(s) - 1 + 1
  BY <1>1, FS_Interval
<1>7. Cardinality(1..Len(s)) = Len(s)
  BY <1>1, <1>6
<1> QED BY <1>5, <1>6, <1>7, FS_Bijection

----------------------------------------------------------------------------
(***************************************************************************)
(* Sums of the values of a function of numbers over a finite set.  The     *)
(* library takes the elements in an order CHOOSE gives; the lemmas show    *)
(* that the order does not matter.                                         *)
(***************************************************************************)
First(S) == CHOOSE x \in S : TRUE
Sums(w, f, S) == [T \in SUBSET S |-> IF T = {} THEN 0
                                    ELSE w[First(T)] + f[T \ {First(T)}]]

Weighed(w, S) == IsFiniteSet(S) /\ \A o \in S : w[o] \in Nat

\* The library defines a sum as the value of a function chosen by its recursion.
LEMMA SumSums ==
  ASSUME NEW w, NEW S
  PROVE  SumFunctionOnSet(w, S) = (CHOOSE f : f = Sums(w, f, S))[S]
BY DEF SumFunctionOnSet, FoldFunctionOnSet, MapThenFoldSet, Sums, First

\* The element a recursion takes out first is in the set.
LEMMA FirstIn ==
  ASSUME NEW S, S # {}, IsFiniteSet(S)
  PROVE  /\ First(S) \in S /\ IsFiniteSet(S \ {First(S)})
         /\ Cardinality(S \ {First(S)}) = Cardinality(S) - 1
         /\ Cardinality(S) \in Nat
BY FS_RemoveElement, FS_CardinalityType DEF First

\* There is a function of the subsets of a set that satisfies the recursion.
LEMMA SumsExist ==
  ASSUME NEW w, NEW S, Weighed(w, S)
  PROVE  \E f : f = Sums(w, f, S) /\ f \in [SUBSET S -> Nat]
<1> DEFINE Small(m) == {T \in SUBSET S : Cardinality(T) <= m}
           Def(f, T) == IF T = {} THEN 0 ELSE w[First(T)] + f[T \ {First(T)}]
           Good(m, f) == /\ f \in [Small(m) -> Nat]
                         /\ \A T \in Small(m) : f[T] = Def(f, T)
           n == Cardinality(S)
           P == {m \in 0..n : \E f : Good(m, f)}
<1>0. /\ n \in Nat
      /\ \A T \in SUBSET S : /\ IsFiniteSet(T) /\ Cardinality(T) \in Nat
                             /\ Cardinality(T) <= n
  BY FS_Subset, FS_CardinalityType DEF Weighed
<1>1. \A T \in SUBSET S :
        T # {} => /\ First(T) \in S /\ w[First(T)] \in Nat
                  /\ T \ {First(T)} \in SUBSET S
                  /\ Cardinality(T \ {First(T)}) = Cardinality(T) - 1
  BY <1>0, FirstIn DEF Weighed
<1>2. 0 \in P
  <2> DEFINE g == [T \in Small(0) |-> 0]
  <2>1. \A T \in Small(0) : T = {}
    BY <1>0, FS_EmptySet
  <2>2. Good(0, g)
    BY <2>1
  <2>3. 0 \in 0..n
    BY <1>0
  <2> HIDE DEF Good, g
  <2> QED BY <2>2, <2>3, Zenon
<1>3. ASSUME NEW m \in 1..n, m - 1 \in P PROVE m \in P
  <2>1. PICK f : Good(m - 1, f)
    BY <1>3
  <2> DEFINE g == [T \in Small(m) |-> Def(f, T)]
  <2>2. \A T \in Small(m) : T # {} => T \ {First(T)} \in Small(m-1)
    BY <1>0, <1>1
  <2>3. \A T \in Small(m-1) : T \in Small(m) /\ g[T] = f[T]
    BY <1>0, <2>1
  <2>4. g \in [Small(m) -> Nat]
    BY <1>1, <2>1, <2>2
  <2>5. \A T \in Small(m) : g[T] = Def(g, T)
    BY <2>2, <2>3
  <2>6. Good(m, g)
    BY <2>4, <2>5
  <2>7. m \in 0..n
    OBVIOUS
  <2> HIDE DEF Good, g
  <2> QED BY <2>6, <2>7, Zenon
<1> HIDE DEF P
<1>4. P \in SUBSET (0..n)
  BY DEF P
<1>5. P = 0..n
  BY <1>0, <1>2, <1>3, <1>4, UptoInduction
<1>6. n \in P
  BY <1>0, <1>5
<1>7. PICK f : Good(n, f)
  BY <1>6 DEF P
<1>8. Small(n) = SUBSET S
  BY <1>0
<1>9. f \in [SUBSET S -> Nat] /\ \A T \in SUBSET S : f[T] = Def(f, T)
  BY <1>7, <1>8
<1>10. f = Sums(w, f, S)
  BY <1>9 DEF Sums
<1> QED BY <1>9, <1>10

\* Two such functions agree where the numbers do.
LEMMA SumsAgree ==
  ASSUME NEW w, NEW S, NEW f, f = Sums(w, f, S),
         NEW v, NEW R, NEW g, g = Sums(v, g, R),
         NEW T \in SUBSET (S \cap R), IsFiniteSet(T),
         \A o \in T : w[o] = v[o]
  PROVE  f[T] = g[T]
<1> DEFINE Bad == {U \in SUBSET T : f[U] # g[U]}
<1>1. \A U \in SUBSET T : IsFiniteSet(U)
  BY FS_Subset
<1>2. CASE Bad = {}
  BY <1>2
<1>3. CASE Bad # {}
  <2>1. PICK U \in Bad : \A W \in Bad : Cardinality(U) <= Cardinality(W)
    BY <1>1, <1>3, LeastSet
  <2>2. U # {}
    BY DEF Sums
  <2>3. /\ U \ {First(U)} \in SUBSET T /\ First(U) \in T
        /\ Cardinality(U \ {First(U)}) = Cardinality(U) - 1
        /\ Cardinality(U) \in Nat
    BY <1>1, <2>2, FirstIn
  <2>4. U \ {First(U)} \notin Bad
    BY <2>1, <2>3
  <2>5. f[U] = w[First(U)] + f[U \ {First(U)}]
    BY <2>2 DEF Sums
  <2>6. g[U] = v[First(U)] + g[U \ {First(U)}]
    BY <2>2 DEF Sums
  <2> QED BY <2>1, <2>3, <2>4, <2>5, <2>6
<1> QED BY <1>2, <1>3

\* Any such function gives the sums of the subsets.
LEMMA SumsOfSubset ==
  ASSUME NEW w, NEW S, Weighed(w, S), NEW f, f = Sums(w, f, S),
         NEW T \in SUBSET S
  PROVE  f[T] = SumFunctionOnSet(w, T)
<1>1. Weighed(w, T) /\ IsFiniteSet(T)
  BY FS_Subset DEF Weighed
<1>2. \E h : h = Sums(w, h, T)
  BY <1>1, SumsExist
<1> DEFINE g == CHOOSE h : h = Sums(w, h, T)
<1>3. g = Sums(w, g, T) /\ g[T] = SumFunctionOnSet(w, T)
  BY <1>2, SumSums
<1> HIDE DEF g
<1>4. f[T] = g[T]
  BY <1>1, <1>3, SumsAgree
<1> QED BY <1>3, <1>4

\* The sum depends on the values on the set only.
LEMMA SumSame ==
  ASSUME NEW w, NEW S, Weighed(w, S), NEW v, \A o \in S : w[o] = v[o]
  PROVE  Weighed(v, S) /\ SumFunctionOnSet(v, S) = SumFunctionOnSet(w, S)
<1>1. Weighed(v, S) /\ IsFiniteSet(S)
  BY DEF Weighed
<1>2. PICK f : f = Sums(w, f, S)
  BY SumsExist
<1>3. PICK g : g = Sums(v, g, S)
  BY <1>1, SumsExist
<1>4. f[S] = g[S]
  BY <1>1, <1>2, <1>3, SumsAgree
<1>5. f[S] = SumFunctionOnSet(w, S) /\ g[S] = SumFunctionOnSet(v, S)
  BY <1>1, <1>2, <1>3, SumsOfSubset
<1> QED BY <1>1, <1>4, <1>5

\* A sum is a number: that of the first element and the sum of the rest.
LEMMA SumFirst ==
  ASSUME NEW w, NEW S, Weighed(w, S)
  PROVE  /\ SumFunctionOnSet(w, {}) = 0 /\ SumFunctionOnSet(w, S) \in Nat
         /\ S # {} => SumFunctionOnSet(w, S)
                        = w[First(S)] + SumFunctionOnSet(w, S \ {First(S)})
<1>1. PICK f : f = Sums(w, f, S) /\ f \in [SUBSET S -> Nat]
  BY SumsExist
<1>2. /\ f[S] = SumFunctionOnSet(w, S) /\ f[{}] = SumFunctionOnSet(w, {})
      /\ f[S \ {First(S)}] = SumFunctionOnSet(w, S \ {First(S)})
  BY <1>1, SumsOfSubset
<1>3. f[{}] = 0 /\ f[S] \in Nat
  BY <1>1 DEF Sums
<1>4. S # {} => f[S] = w[First(S)] + f[S \ {First(S)}]
  BY <1>1 DEF Sums
<1> QED BY <1>2, <1>3, <1>4

\* Any element can be taken out of the sum.
LEMMA SumRemove ==
  ASSUME NEW w, NEW S, Weighed(w, S), NEW a \in S
  PROVE  /\ SumFunctionOnSet(w, S) = w[a] + SumFunctionOnSet(w, S \ {a})
         /\ SumFunctionOnSet(w, S \ {a}) \in Nat /\ Weighed(w, S \ {a})
<1> DEFINE Sum(T) == SumFunctionOnSet(w, T)
           Holds(T) == \A b \in T : Sum(T) = w[b] + Sum(T \ {b})
           Bad == {T \in SUBSET S : ~Holds(T)}
<1>1. \A T \in SUBSET S : Weighed(w, T)
  BY FS_Subset DEF Weighed
<1>2. \A T \in SUBSET S : Sum(T) \in Nat
  BY <1>1, SumFirst
<1>3. \A T \in SUBSET S : T # {} => Sum(T) = w[First(T)] + Sum(T \ {First(T)})
  BY <1>1, SumFirst
<1> HIDE DEF Sum
<1>4. Bad = {}
  <2>1. SUFFICES ASSUME Bad # {} PROVE FALSE
    OBVIOUS
  <2>2. \A T \in Bad : IsFiniteSet(T)
    BY <1>1 DEF Weighed
  <2>3. PICK T \in Bad : \A U \in Bad : Cardinality(T) <= Cardinality(U)
    BY <2>1, <2>2, LeastSet
  <2>4. PICK b \in T : Sum(T) # w[b] + Sum(T \ {b})
    OBVIOUS
  <2> DEFINE x == First(T)
  <2>5. x \in T /\ Sum(T) = w[x] + Sum(T \ {x})
    BY <2>2, <1>3, FirstIn
  <2> HIDE DEF x
  <2>6. x # b
    BY <2>4, <2>5
  <2>7. \A y \in T : Holds(T \ {y})
    <3> SUFFICES ASSUME NEW y \in T PROVE Holds(T \ {y})
      OBVIOUS
    <3>1. Cardinality(T \ {y}) = Cardinality(T) - 1 /\ Cardinality(T) \in Nat
      BY <2>2, FS_RemoveElement, FS_CardinalityType
    <3>2. T \ {y} \notin Bad
      BY <2>3, <3>1
    <3>3. T \ {y} \in SUBSET S
      OBVIOUS
    <3>4. T \ {y} \in SUBSET S /\ ~Holds(T \ {y}) => T \ {y} \in Bad
      <4> HIDE DEF Holds
      <4> QED BY Zenon
    <3> HIDE DEF Holds, Bad
    <3> QED BY <3>2, <3>3, <3>4
  <2>8. Sum(T \ {x}) = w[b] + Sum((T \ {x}) \ {b})
    BY <2>5, <2>6, <2>7
  <2>9. Sum(T \ {b}) = w[x] + Sum((T \ {b}) \ {x})
    BY <2>5, <2>6, <2>7
  <2>10. (T \ {x}) \ {b} = (T \ {b}) \ {x}
    OBVIOUS
  <2>11. w[x] \in Nat /\ w[b] \in Nat /\ Sum((T \ {b}) \ {x}) \in Nat
    <3>1. T \in SUBSET S /\ (T \ {b}) \ {x} \in SUBSET S
      OBVIOUS
    <3> HIDE DEF Bad
    <3> QED BY <1>2, <2>4, <2>5, <3>1 DEF Weighed
  <2> DEFINE r == Sum((T \ {b}) \ {x})
  <2>12. Sum(T) = w[x] + (w[b] + r) /\ Sum(T \ {b}) = w[x] + r
    BY <2>5, <2>8, <2>9, <2>10
  <2> HIDE DEF r, Bad
  <2>13. w[x] + (w[b] + r) = w[b] + (w[x] + r)
    BY <2>11 DEF r
  <2> QED BY <2>4, <2>12, <2>13
<1>5. S \in SUBSET S /\ ~Holds(S) => S \in Bad
  <2> HIDE DEF Holds
  <2> QED BY Zenon
<1>6. Holds(S)
  <2> HIDE DEF Holds, Bad
  <2>1. S \in SUBSET S
    OBVIOUS
  <2> QED BY <1>4, <1>5, <2>1
<1>7. Sum(S) = w[a] + Sum(S \ {a})
  BY <1>6
<1>8. S \ {a} \in SUBSET S
  OBVIOUS
<1> HIDE DEF Bad, Holds
<1> QED BY <1>1, <1>2, <1>7, <1>8 DEF Sum

\* One more at one element is one more in the sum, whatever is added there.
LEMMA SumRaise ==
  ASSUME NEW w, NEW S, Weighed(w, S), NEW a \in S, NEW d \in Nat,
         NEW v, v[a] = w[a] + d, \A o \in S : o # a => v[o] = w[o]
  PROVE  Weighed(v, S) /\ SumFunctionOnSet(v, S) = SumFunctionOnSet(w, S) + d
<1>1. Weighed(v, S) /\ w[a] \in Nat
  BY DEF Weighed
<1>2. /\ SumFunctionOnSet(w, S) = w[a] + SumFunctionOnSet(w, S \ {a})
      /\ SumFunctionOnSet(w, S \ {a}) \in Nat /\ Weighed(w, S \ {a})
  BY SumRemove
<1>3. SumFunctionOnSet(v, S) = v[a] + SumFunctionOnSet(v, S \ {a})
  BY <1>1, SumRemove
<1>4. SumFunctionOnSet(v, S \ {a}) = SumFunctionOnSet(w, S \ {a})
  BY <1>2, SumSame
<1> QED BY <1>1, <1>2, <1>3, <1>4

\* A sum of zeros is zero.
LEMMA SumZero ==
  ASSUME NEW w, NEW S, IsFiniteSet(S), \A o \in S : w[o] = 0
  PROVE  Weighed(w, S) /\ SumFunctionOnSet(w, S) = 0
<1>1. Weighed(w, S)
  BY DEF Weighed
<1>2. PICK f : f = Sums(w, f, S)
  BY <1>1, SumsExist
<1> DEFINE z == [T \in SUBSET S |-> 0]
           v == [o \in S |-> 0]
<1>3. \A T \in SUBSET S : T # {} => First(T) \in S /\ T \ {First(T)} \in SUBSET S
  BY DEF First
<1>4. z = Sums(v, z, S)
  BY <1>3 DEF Sums
<1>5. f[S] = z[S]
  <2>1. S \in SUBSET (S \cap S) /\ \A o \in S : w[o] = v[o]
    OBVIOUS
  <2> HIDE DEF z, v
  <2> QED BY <1>2, <1>4, <2>1, SumsAgree
<1>6. f[S] = SumFunctionOnSet(w, S)
  BY <1>1, <1>2, SumsOfSubset
<1> QED BY <1>1, <1>5, <1>6

\* A sum grows by what is added at one place, nothing included.
LEMMA TotalRaise ==
  ASSUME NEW S, IsFiniteSet(S), NEW w \in [S -> Nat], NEW v \in [S -> Nat],
         NEW a \in S, NEW d \in Nat, v[a] = w[a] + d,
         \A o \in S : o # a => v[o] = w[o]
  PROVE  SumFunction(v) = SumFunction(w) + d
<1>1. DOMAIN w = S /\ DOMAIN v = S /\ Weighed(w, S)
  BY DEF Weighed
<1>2. SumFunctionOnSet(v, S) = SumFunctionOnSet(w, S) + d
  BY <1>1, SumRaise
<1> QED BY <1>1, <1>2 DEF SumFunction

\* A sum of zeros is zero.
LEMMA TotalZero ==
  ASSUME NEW S, IsFiniteSet(S), NEW w, DOMAIN w = S, \A o \in S : w[o] = 0
  PROVE  SumFunction(w) = 0
BY SumZero DEF SumFunction

----------------------------------------------------------------------------
(***************************************************************************)
(* Sums of the sizes of objects.                                           *)
(***************************************************************************)
SizeSum(S) == MapThenSumSet(LAMBDA o : o.size, S)

SizesOf(S) == [o \in S |-> o.size]

Sized(S) == IsFiniteSet(S) /\ \A o \in S : o.size \in Nat

\* The sum of sizes is that of the function of sizes.
LEMMA SizeSumIs ==
  ASSUME NEW S, Sized(S), NEW T \in SUBSET S
  PROVE  /\ Weighed(SizesOf(S), T) /\ Sized(T)
         /\ SizeSum(T) = SumFunctionOnSet(SizesOf(S), T)
<1> DEFINE SizeSums(f) == [U \in SUBSET T |->
             IF U = {} THEN 0 ELSE First(U).size + f[U \ {First(U)}]]
           g == CHOOSE f : f = SizeSums(f)
<1>1. SizeSum(T) = g[T]
  BY DEF SizeSum, MapThenSumSet, MapThenFoldSet, First
<1>2. \A f : SizeSums(f) = Sums(SizesOf(S), f, T)
  <2>1. \A U \in SUBSET T : U # {} => First(U).size = SizesOf(S)[First(U)]
    BY DEF First, SizesOf
  <2> QED BY <2>1 DEF Sums
<1> HIDE DEF SizeSums
<1>3. Weighed(SizesOf(S), T) /\ IsFiniteSet(T) /\ Sized(T)
  BY FS_Subset DEF Weighed, Sized, SizesOf
<1>4. \E f : f = SizeSums(f)
  BY <1>2, <1>3, SumsExist
<1>5. g = SizeSums(g)
  BY <1>4
<1> HIDE DEF g
<1>6. g = Sums(SizesOf(S), g, T)
  BY <1>2, <1>5
<1>7. g[T] = SumFunctionOnSet(SizesOf(S), T)
  BY <1>3, <1>6, SumsOfSubset
<1> QED BY <1>1, <1>3, <1>7

\* The sum of sizes is a number, zero of nothing.
LEMMA SizeSumNat ==
  ASSUME NEW S, Sized(S)
  PROVE  SizeSum({}) = 0 /\ SizeSum(S) \in Nat
<1>1. /\ Weighed(SizesOf(S), S) /\ SizeSum(S) = SumFunctionOnSet(SizesOf(S), S)
      /\ SizeSum({}) = SumFunctionOnSet(SizesOf(S), {})
  BY SizeSumIs
<1>2. /\ SumFunctionOnSet(SizesOf(S), {}) = 0
      /\ SumFunctionOnSet(SizesOf(S), S) \in Nat
  BY <1>1, SumFirst
<1> QED BY <1>1, <1>2

\* Any object can be taken out of the sum.
LEMMA SizeSumRemove ==
  ASSUME NEW S, Sized(S), NEW a \in S
  PROVE  /\ SizeSum(S) = a.size + SizeSum(S \ {a})
         /\ SizeSum(S \ {a}) \in Nat /\ Sized(S \ {a})
<1> DEFINE w == SizesOf(S)
<1>1. w[a] = a.size
  BY DEF SizesOf
<1> HIDE DEF w
<1>2. /\ Weighed(w, S) /\ Sized(S \ {a})
      /\ SizeSum(S) = SumFunctionOnSet(w, S)
      /\ SizeSum(S \ {a}) = SumFunctionOnSet(w, S \ {a})
  BY SizeSumIs DEF w
<1>3. /\ SumFunctionOnSet(w, S) = w[a] + SumFunctionOnSet(w, S \ {a})
      /\ SumFunctionOnSet(w, S \ {a}) \in Nat
  BY <1>2, SumRemove
<1> QED BY <1>1, <1>2, <1>3

\* A new object adds its size to a sum.
LEMMA SizeSumAdd ==
  ASSUME NEW S, Sized(S), NEW a, a \notin S, a.size \in Nat
  PROVE  Sized(S \cup {a}) /\ SizeSum(S \cup {a}) = SizeSum(S) + a.size
<1>1. Sized(S \cup {a})
  BY FS_AddElement DEF Sized
<1>2. (S \cup {a}) \ {a} = S
  OBVIOUS
<1>3. /\ SizeSum(S \cup {a}) = a.size + SizeSum((S \cup {a}) \ {a})
      /\ SizeSum((S \cup {a}) \ {a}) \in Nat
  BY <1>1, SizeSumRemove
<1>4. SizeSum(S \cup {a}) = a.size + SizeSum(S) /\ SizeSum(S) \in Nat
  BY <1>2, <1>3
<1> QED BY <1>1, <1>4

----------------------------------------------------------------------------
(***************************************************************************)
(* The recursive functions are what their equations say.                   *)
(***************************************************************************)

\* There is a function that sums the sizes of the objects of a list.
LEMMA UptoExists ==
  ASSUME NEW s \in Seq(Objects)
  PROVE  \E f : f = [i \in 0..Len(s) |->
                       IF i = 0 THEN 0 ELSE f[i-1] + s[i].size]
<1> DEFINE Good(n) == \E f : f = [i \in 0..n |->
                                    IF i = 0 THEN 0 ELSE f[i-1] + s[i].size]
           Bad == {n \in 0..Len(s) : ~Good(n)}
<1> HIDE DEF Good
<1>1. Good(0)
  <2>1. [i \in 0..0 |-> 0]
          = [i \in 0..0 |->
               IF i = 0 THEN 0 ELSE [j \in 0..0 |-> 0][i-1] + s[i].size]
    OBVIOUS
  <2> QED BY <2>1 DEF Good
<1>2. ASSUME NEW n \in 0..Len(s), n # 0, Good(n-1)
      PROVE  Good(n)
  <2>1. PICK f : f = [i \in 0..(n-1) |->
                        IF i = 0 THEN 0 ELSE f[i-1] + s[i].size]
    BY <1>2 DEF Good
  <2> DEFINE g == [i \in 0..n |-> IF i = n THEN f[n-1] + s[n].size ELSE f[i]]
  <2>2. g = [i \in 0..n |-> IF i = 0 THEN 0 ELSE g[i-1] + s[i].size]
    BY <2>1, <1>2
  <2> QED BY <2>2 DEF Good
<1>3. Bad = {}
  <2> SUFFICES ASSUME Bad # {} PROVE FALSE
    OBVIOUS
  <2>1. Bad \in SUBSET Nat
    OBVIOUS
  <2> HIDE DEF Bad
  <2>2. PICK n \in Bad : \A m \in Bad : n <= m
    BY <2>1, LeastNat
  <2>3. n \in 0..Len(s) /\ ~Good(n)
    BY DEF Bad
  <2>4. n # 0
    BY <2>3, <1>1
  <2>5. n-1 \in 0..Len(s) /\ n-1 \notin Bad
    BY <2>2, <2>3, <2>4
  <2>6. Good(n-1)
    BY <2>5 DEF Bad
  <2> QED BY <1>2, <2>3, <2>4, <2>6
<1> QED BY <1>3 DEF Good

\* The sizes in a list are natural numbers.
LEMMA SizesNat ==
  ASSUME NEW s \in Seq(Objects), NEW i \in 1..Len(s)
  PROVE  s[i] \in Objects /\ s[i].size \in Nat
<1>1. s[i] \in Objects
  BY ElementOfSeq
<1> QED BY <1>1 DEF Objects

\* Upto satisfies its recursion equation and yields natural numbers.
LEMMA UptoDef ==
  ASSUME NEW s \in Seq(Objects)
  PROVE  /\ Upto(s)[0] = 0
         /\ \A i \in 1..Len(s) : Upto(s)[i] = Upto(s)[i-1] + s[i].size
         /\ \A i \in 0..Len(s) : Upto(s)[i] \in Nat
<1>1. Upto(s) = [i \in 0..Len(s) |->
                   IF i = 0 THEN 0 ELSE Upto(s)[i-1] + s[i].size]
  BY UptoExists DEF Upto
<1> HIDE DEF Upto
<1>2. Upto(s)[0] = 0 /\ \A i \in 1..Len(s) :
                          Upto(s)[i] = Upto(s)[i-1] + s[i].size
  BY <1>1
<1> DEFINE Bad == {i \in 0..Len(s) : Upto(s)[i] \notin Nat}
<1>3. Bad = {}
  <2> SUFFICES ASSUME Bad # {} PROVE FALSE
    OBVIOUS
  <2>1. Bad \in SUBSET Nat
    OBVIOUS
  <2> HIDE DEF Bad
  <2>2. PICK n \in Bad : \A m \in Bad : n <= m
    BY <2>1, LeastNat
  <2>3. n \in 0..Len(s) /\ n # 0
    BY <1>2 DEF Bad
  <2>4. n-1 \in 0..Len(s) /\ n-1 \notin Bad
    BY <2>2, <2>3
  <2>5. Upto(s)[n-1] \in Nat
    BY <2>4 DEF Bad
  <2>6. s[n].size \in Nat
    BY <2>3, SizesNat
  <2>7. Upto(s)[n] \in Nat
    BY <1>2, <2>3, <2>5, <2>6
  <2> QED BY <2>7 DEF Bad
<1> QED BY <1>2, <1>3

\* A function that satisfies the equation of Upto is Upto.
LEMMA UptoUnique ==
  ASSUME NEW s \in Seq(Objects), NEW f,
         f[0] = 0,
         \A i \in 1..Len(s) : f[i] = f[i-1] + s[i].size
  PROVE  \A i \in 0..Len(s) : f[i] = Upto(s)[i]
<1> DEFINE Bad == {i \in 0..Len(s) : f[i] # Upto(s)[i]}
<1> SUFFICES ASSUME Bad # {} PROVE FALSE
  OBVIOUS
<1>1. Bad \in SUBSET Nat
  OBVIOUS
<1> HIDE DEF Bad
<1>2. PICK n \in Bad : \A m \in Bad : n <= m
  BY <1>1, LeastNat
<1>3. n \in 0..Len(s) /\ n # 0
  BY UptoDef DEF Bad
<1>4. n-1 \in 0..Len(s) /\ n-1 \notin Bad
  BY <1>2, <1>3
<1>5. f[n-1] = Upto(s)[n-1]
  BY <1>4 DEF Bad
<1>6. f[n] = Upto(s)[n]
  BY <1>3, <1>5, UptoDef
<1> QED BY <1>6 DEF Bad

(***************************************************************************)
(* The bytes of a list under the operations on lists.                      *)
(***************************************************************************)

\* An empty list has no bytes, and no list has less.
LEMMA BytesNat ==
  /\ Bytes(<<>>) = 0
  /\ \A s \in Seq(Objects) : Bytes(s) \in Nat
<1>1. <<>> \in Seq(Objects) /\ Len(<<>>) = 0
  OBVIOUS
<1>2. Bytes(<<>>) = 0
  BY <1>1, UptoDef DEF Bytes
<1>3. ASSUME NEW s \in Seq(Objects) PROVE Bytes(s) \in Nat
  <2>1. Len(s) \in 0..Len(s)
    BY LenProperties
  <2> QED BY <2>1, UptoDef DEF Bytes
<1> QED BY <1>2, <1>3

\* Pushing an object on a list adds its size.
LEMMA BytesPush ==
  ASSUME NEW s \in Seq(Objects), NEW o \in Objects
  PROVE  Bytes(<<o>> \o s) = o.size + Bytes(s)
<1> DEFINE t == <<o>> \o s
           f == [i \in 0..(Len(s)+1) |->
                   IF i = 0 THEN 0 ELSE o.size + Upto(s)[i-1]]
<1>1. /\ t \in Seq(Objects) /\ Len(t) = Len(s) + 1
      /\ t[1] = o
      /\ \A i \in 2..Len(t) : t[i] = s[i-1]
  OBVIOUS
<1> HIDE DEF t
<1>2. Len(s) \in Nat /\ o.size \in Nat
  BY DEF Objects
<1>3. f[0] = 0
  BY <1>2
<1>4. ASSUME NEW i \in 1..Len(t) PROVE f[i] = f[i-1] + t[i].size
  <2>1. CASE i = 1
    BY <2>1, <1>1, <1>2, UptoDef
  <2>2. CASE i # 1
    <3>1. i-1 \in 1..Len(s) /\ t[i] = s[i-1]
      BY <2>2, <1>1, <1>2
    <3>2. Upto(s)[i-1] = Upto(s)[i-2] + s[i-1].size
      BY <3>1, UptoDef
    <3>3. f[i] = o.size + Upto(s)[i-1] /\ f[i-1] = o.size + Upto(s)[i-2]
      BY <3>1, <1>2
    <3>4. Upto(s)[i-2] \in Nat /\ s[i-1].size \in Nat
      BY <3>1, UptoDef, SizesNat, <1>2
    <3> QED BY <3>1, <3>2, <3>3, <3>4, <1>2
  <2> QED BY <2>1, <2>2
<1> HIDE DEF f
<1>5. f[Len(t)] = Upto(t)[Len(t)]
  <2>1. \A i \in 0..Len(t) : f[i] = Upto(t)[i]
    BY <1>1, <1>3, <1>4, UptoUnique
  <2> QED BY <2>1, <1>1, <1>2
<1>6. f[Len(t)] = o.size + Upto(s)[Len(s)]
  BY <1>1, <1>2 DEF f
<1> QED BY <1>5, <1>6 DEF Bytes, t

\* Removing a cell takes its size off the bytes.
LEMMA BytesRemoveAt ==
  ASSUME NEW s \in Seq(Objects), NEW n \in 1..Len(s)
  PROVE  Bytes(RemoveAt(s, n)) = Bytes(s) - s[n].size
<1> DEFINE t == RemoveAt(s, n)
           f == [i \in 0..(Len(s)-1) |->
                   IF i < n THEN Upto(s)[i] ELSE Upto(s)[i+1] - s[n].size]
<1>1. /\ t \in Seq(Objects) /\ Len(t) = Len(s)-1
      /\ \A i \in 1..Len(t) : t[i] = IF i < n THEN s[i] ELSE s[i+1]
  BY RemoveAtCells
<1> HIDE DEF t
<1>2. Len(s) \in Nat /\ n \in Nat /\ n >= 1
  OBVIOUS
<1>3. \A i \in 1..Len(s) : s[i].size \in Nat
  BY SizesNat
<1>4. f[0] = 0
  BY <1>2, UptoDef
<1>5. ASSUME NEW i \in 1..Len(t) PROVE f[i] = f[i-1] + t[i].size
  <2>0. /\ i \in 1..Len(s) /\ i+1 \in 1..Len(s) /\ n \in 1..Len(s)
        /\ i-1 \in 0..Len(s) /\ i \in 0..Len(s) /\ i+1 \in 0..Len(s)
        /\ (i+1)-1 = i
    BY <1>1, <1>2
  <2>1. /\ Upto(s)[i] = Upto(s)[i-1] + s[i].size
        /\ Upto(s)[i+1] = Upto(s)[i] + s[i+1].size
        /\ Upto(s)[i-1] \in Nat /\ Upto(s)[i] \in Nat
        /\ Upto(s)[i+1] \in Nat
        /\ s[i].size \in Nat /\ s[i+1].size \in Nat /\ s[n].size \in Nat
    <3>1. \A j \in 1..Len(s) : Upto(s)[j] = Upto(s)[j-1] + s[j].size
      BY UptoDef
    <3>2. \A j \in 0..Len(s) : Upto(s)[j] \in Nat
      BY UptoDef
    <3> QED BY <2>0, <3>1, <3>2, <1>3
  <2>2. CASE i < n
    BY <2>1, <2>2, <1>1, <1>2
  <2>3. CASE i = n
    <3>1. t[i] = s[i+1] /\ i-1 \in 0..(Len(s)-1) /\ i \in 0..(Len(s)-1)
      BY <2>3, <1>1, <1>2
    <3>2. f[i] = Upto(s)[i+1] - s[i].size
      BY <3>1, <2>3, <1>2
    <3>3. f[i-1] = Upto(s)[i-1]
      BY <3>1, <2>3, <1>2
    <3> HIDE DEF f
    <3>4. f[i-1] + t[i].size = Upto(s)[i-1] + s[i+1].size
      BY <3>1, <3>3
    <3>5. Upto(s)[i-1] + s[i+1].size = Upto(s)[i+1] - s[i].size
      <4> DEFINE a == Upto(s)[i-1]
                 b == Upto(s)[i]
                 c == Upto(s)[i+1]
                 x == s[i].size
                 y == s[i+1].size
      <4>1. /\ b = a + x /\ c = b + y
            /\ a \in Nat /\ b \in Nat /\ c \in Nat /\ x \in Nat /\ y \in Nat
        BY <2>1
      <4> HIDE DEF a, b, c, x, y
      <4>2. a + y = c - x
        BY <4>1
      <4> QED BY <4>2 DEF a, b, c, x, y
    <3> QED BY <3>2, <3>4, <3>5
  <2>4. CASE i > n
    <3>1. t[i] = s[i+1] /\ i-1 \in 0..(Len(s)-1) /\ i \in 0..(Len(s)-1)
      BY <2>4, <1>1, <1>2
    <3>2. f[i] = Upto(s)[i+1] - s[n].size
      BY <3>1, <2>4, <1>2
    <3>3. f[i-1] = Upto(s)[i] - s[n].size
      BY <3>1, <2>4, <1>2
    <3> HIDE DEF f
    <3>4. f[i-1] + t[i].size = (Upto(s)[i] - s[n].size) + s[i+1].size
      BY <3>1, <3>3
    <3>5. (Upto(s)[i] - s[n].size) + s[i+1].size = Upto(s)[i+1] - s[n].size
      <4> DEFINE b == Upto(s)[i]
                 c == Upto(s)[i+1]
                 y == s[i+1].size
                 z == s[n].size
      <4>1. c = b + y /\ b \in Nat /\ c \in Nat /\ y \in Nat /\ z \in Nat
        BY <2>1
      <4> HIDE DEF b, c, y, z
      <4>2. (b - z) + y = c - z
        BY <4>1
      <4> QED BY <4>2 DEF b, c, y, z
    <3> QED BY <3>2, <3>4, <3>5
  <2> QED BY <2>2, <2>3, <2>4, <1>2
<1> HIDE DEF f
<1>6. f[Len(t)] = Upto(t)[Len(t)]
  <2>1. \A i \in 0..Len(t) : f[i] = Upto(t)[i]
    BY <1>1, <1>4, <1>5, UptoUnique
  <2> QED BY <2>1, <1>1, <1>2
<1>7. f[Len(t)] = Upto(s)[Len(s)] - s[n].size
  <2>1. CASE n = Len(s)
    <3>1. f[Len(t)] = Upto(s)[n-1]
      BY <2>1, <1>1, <1>2 DEF f
    <3>2. Upto(s)[n] = Upto(s)[n-1] + s[n].size /\ Upto(s)[n-1] \in Nat
      BY <1>2, UptoDef
    <3> QED BY <3>1, <3>2, <2>1, <1>3
  <2>2. CASE n # Len(s)
    BY <2>2, <1>1, <1>2 DEF f
  <2> QED BY <2>1, <2>2
<1> QED BY <1>6, <1>7 DEF Bytes, t

(***************************************************************************)
(* The index under the operations on lists.                                *)
(***************************************************************************)

\* Pushing a new object on a list without repetitions adds it, once.
LEMMA PushSet ==
  ASSUME NEW s \in Seq(Objects), NEW o \in Objects
  PROVE  /\ <<o>> \o s \in Seq(Objects)
         /\ ToSet(<<o>> \o s) = ToSet(s) \cup {o}
         /\ IsInjective(s) /\ o \notin ToSet(s) => IsInjective(<<o>> \o s)
<1> DEFINE t == <<o>> \o s
<1>1. /\ t \in Seq(Objects) /\ Len(t) = Len(s)+1
      /\ t[1] = o
      /\ \A i \in 1..Len(s) : t[i+1] = s[i]
  OBVIOUS
<1> HIDE DEF t
<1>2. DOMAIN t = 1..(Len(s)+1) /\ DOMAIN s = 1..Len(s) /\ Len(s) \in Nat
  BY <1>1, LenProperties
<1>3. \A i \in 1..(Len(s)+1) : i = 1 \/ (i-1 \in 1..Len(s) /\ t[i] = s[i-1])
  BY <1>1, <1>2
<1>4. ToSet(t) = ToSet(s) \cup {o}
  <2>1. ASSUME NEW x \in ToSet(t) PROVE x \in ToSet(s) \cup {o}
    <3>1. PICK i \in 1..(Len(s)+1) : x = t[i]
      BY <1>2 DEF ToSet
    <3>2. x = o \/ \E j \in 1..Len(s) : x = s[j]
      BY <3>1, <1>1, <1>3
    <3> QED BY <3>2, <1>2 DEF ToSet
  <2>2. ASSUME NEW x \in ToSet(s) PROVE x \in ToSet(t)
    <3>1. PICK i \in 1..Len(s) : x = s[i]
      BY <1>2 DEF ToSet
    <3>2. i+1 \in 1..(Len(s)+1) /\ t[i+1] = x
      BY <3>1, <1>1, <1>2
    <3> QED BY <3>2, <1>2 DEF ToSet
  <2>3. o \in ToSet(t)
    BY <1>1, <1>2 DEF ToSet
  <2> QED BY <2>1, <2>2, <2>3
<1>5. ASSUME IsInjective(s), o \notin ToSet(s) PROVE IsInjective(t)
  <2>1. \A i, j \in 1..Len(s) : s[i] = s[j] => i = j
    BY <1>5, <1>2 DEF IsInjective
  <2>2. \A i \in 1..Len(s) : s[i] # o
    BY <1>5, <1>2 DEF ToSet
  <2>3. ASSUME NEW i \in 1..(Len(s)+1), NEW j \in 1..(Len(s)+1), t[i] = t[j]
        PROVE  i = j
    <3>1. CASE i = 1 /\ j # 1
      BY <3>1, <2>2, <2>3, <1>1, <1>3
    <3>2. CASE i # 1 /\ j = 1
      BY <3>2, <2>2, <2>3, <1>1, <1>3
    <3>3. CASE i # 1 /\ j # 1
      <4>1. i-1 \in 1..Len(s) /\ j-1 \in 1..Len(s) /\ s[i-1] = s[j-1]
        BY <3>3, <2>3, <1>3
      <4>2. i-1 = j-1
        BY <4>1, <2>1
      <4> QED BY <4>2
    <3> QED BY <3>1, <3>2, <3>3
  <2> QED BY <2>3, <1>2 DEF IsInjective
<1> QED BY <1>1, <1>4, <1>5 DEF t

\* The iterator of an indexed object points to a cell that holds it.
LEMMA CellOf ==
  ASSUME NEW S, NEW s \in Seq(S), NEW o \in ToSet(s)
  PROVE  Cell(s, o) \in 1..Len(s) /\ s[Cell(s, o)] = o
<1> DEFINE T == {i \in 1..Len(s) : s[i] = o}
<1>1. T \in SUBSET Nat /\ T # {}
  BY LenProperties DEF ToSet
<1> HIDE DEF T
<1>2. PICK i \in T : \A j \in T : i <= j
  BY <1>1, LeastNat
<1>3. i \in 1..Len(s) /\ s[i] = o
  BY DEF T
<1>4. \A j \in 1..(i-1) : s[j] # o
  <2> SUFFICES ASSUME NEW j \in 1..(i-1), s[j] = o PROVE FALSE
    OBVIOUS
  <2>1. Len(s) \in Nat
    OBVIOUS
  <2>2. j \in 1..Len(s) /\ ~(i <= j)
    BY <1>3, <2>1
  <2> QED BY <2>2, <1>2 DEF T
<1> QED BY <1>3, <1>4 DEF Cell

(***************************************************************************)
(* The operations of the cache.  Consistent is what they all preserve;     *)
(* that the current size is within the capacity holds again when one ends. *)
(***************************************************************************)

Consistent(c) == c \in LRUCaches /\ c.current = Bytes(c.list) /\ IndexExact(c)

\* What holds of every cache between two operations.
CacheInv(c) == c \in LRUCaches /\ SizeExact(c) /\ IndexExact(c)

\* Only lookup() counts: what the cache reports at the end is left alone.
SameReport(c, d) == d.requestNum = c.requestNum /\ d.uniqueFile = c.uniqueFile

\* CacheInv is consistency, and fitting into the size.
LEMMA CacheInvConsistent ==
  ASSUME NEW c
  PROVE  CacheInv(c) <=> Consistent(c) /\ c.current <= c.size
BY DEF CacheInv, Consistent, SizeExact

\* A cache just constructed is empty.
LEMMA NewCacheInv == CacheInv(NewCache)
<1>1. <<>> \in Seq(Objects) /\ ToSet(<<>>) = {} /\ IsInjective(<<>>)
  BY DEF ToSet, IsInjective
<1> QED BY <1>1, BytesNat DEF CacheInv, NewCache, LRUCaches, SizeExact, IndexExact

\* evict_return() keeps the fields consistent, adds nothing, and shortens a
\* list that is not empty.
LEMMA EvictReturnInv ==
  ASSUME NEW c, Consistent(c)
  PROVE  /\ Consistent(EvictReturn(c))
         /\ EvictReturn(c).size = c.size
         /\ EvictReturn(c).map \subseteq c.map /\ SameReport(c, EvictReturn(c))
         /\ c.list = <<>> => EvictReturn(c) = c
         /\ c.list # <<>> => Len(EvictReturn(c).list) = Len(c.list) - 1
<1>1. CASE c.list = <<>>
  BY <1>1 DEF EvictReturn, SameReport
<1>2. CASE c.list # <<>>
  <2> DEFINE s == c.list
             n == Len(c.list)
  <2>1. c \in LRUCaches /\ s \in Seq(Objects) /\ n \in 1..n
    BY <1>2, EmptySeq DEF Consistent, LRUCaches
  <2>2. Front(s) = RemoveAt(s, n)
    <3>1. /\ Front(s) \in Seq(Objects) /\ Len(Front(s)) = n-1
          /\ \A i \in 1..(n-1) : Front(s)[i] = s[i]
      BY <2>1, SubSeqProperties, ElementOfSeq DEF Front
    <3>2. /\ RemoveAt(s, n) \in Seq(Objects) /\ Len(RemoveAt(s, n)) = n-1
          /\ \A i \in 1..(n-1) : RemoveAt(s, n)[i] = s[i]
      <4>1. /\ RemoveAt(s, n) \in Seq(Objects) /\ Len(RemoveAt(s, n)) = Len(s)-1
            /\ \A i \in 1..(Len(s)-1) :
                  RemoveAt(s, n)[i] = IF i < n THEN s[i] ELSE s[i+1]
        <5>1. s \in Seq(Objects) /\ n \in 1..Len(s)
          BY <2>1
        <5> HIDE DEF s, n
        <5> QED BY <5>1, RemoveAtCells
      <4> QED BY <4>1
    <3> QED BY <3>1, <3>2, SeqEqual
  <2>3. Bytes(Front(s)) = Bytes(s) - s[n].size
    BY <2>1, <2>2, BytesRemoveAt
  <2>4. ToSet(Front(s)) = ToSet(s) \ {s[n]} /\ IsInjective(Front(s))
    BY <2>1, <2>2, RemoveAtSet DEF Consistent, IndexExact
  <2>5. Front(s) \in Seq(Objects) /\ Len(Front(s)) = n-1
    BY <2>1, <2>2, RemoveAtCells
  <2>6. Bytes(Front(s)) \in Nat
    BY <2>5, BytesNat
  <2>7. EvictReturn(c) = [c EXCEPT !.current = c.current - s[n].size,
                                   !.map     = c.map \ {s[n]},
                                   !.list    = Front(s)]
    BY <1>2 DEF EvictReturn, Last
  <2> DEFINE e == EvictReturn(c)
  <2>8. /\ e.size = c.size /\ e.current = c.current - s[n].size
        /\ e.map = c.map \ {s[n]} /\ e.list = Front(s)
        /\ e.requestNum = c.requestNum /\ e.uniqueFile = c.uniqueFile
        /\ e = [size |-> e.size, current |-> e.current, list |-> e.list,
                map |-> e.map, requestNum |-> e.requestNum,
                uniqueFile |-> e.uniqueFile]
    BY <2>1, <2>7 DEF LRUCaches
  <2> HIDE DEF e
  <2>9. e.current = Bytes(e.list) /\ e.current \in Nat
    BY <2>3, <2>6, <2>8 DEF Consistent
  <2>10. e \in LRUCaches
    BY <2>1, <2>5, <2>8, <2>9 DEF LRUCaches
  <2>11. IndexExact(e)
    BY <2>4, <2>8 DEF Consistent, IndexExact
  <2> QED BY <1>2, <2>5, <2>8, <2>9, <2>10, <2>11 DEF Consistent, SameReport, e
<1> QED BY <1>1, <1>2

\* There is a function that counts the evictions off.
LEMMA EvictionsExists ==
  ASSUME NEW c, NEW n0 \in Nat
  PROVE  \E f : f = [k \in 0..n0 |->
                       IF k = 0 THEN c ELSE EvictReturn(f[k-1])]
<1> DEFINE Good(n) == \E f : f = [k \in 0..n |->
                                    IF k = 0 THEN c ELSE EvictReturn(f[k-1])]
           Bad == {n \in 0..n0 : ~Good(n)}
<1> HIDE DEF Good
<1>1. Good(0)
  <2> DEFINE g == [k \in 0..0 |-> c]
  <2>1. g = [k \in 0..0 |-> IF k = 0 THEN c ELSE EvictReturn(g[k-1])]
    OBVIOUS
  <2> QED BY <2>1 DEF Good
<1>2. ASSUME NEW n \in 0..n0, n # 0, Good(n-1)
      PROVE  Good(n)
  <2>1. PICK f : f = [k \in 0..(n-1) |->
                        IF k = 0 THEN c ELSE EvictReturn(f[k-1])]
    BY <1>2 DEF Good
  <2> DEFINE g == [k \in 0..n |-> IF k = n THEN EvictReturn(f[n-1]) ELSE f[k]]
  <2>2. g = [k \in 0..n |-> IF k = 0 THEN c ELSE EvictReturn(g[k-1])]
    BY <2>1, <1>2
  <2> QED BY <2>2 DEF Good
<1>3. Bad = {}
  <2> SUFFICES ASSUME Bad # {} PROVE FALSE
    OBVIOUS
  <2>1. Bad \in SUBSET Nat
    OBVIOUS
  <2> HIDE DEF Bad
  <2>2. PICK n \in Bad : \A m \in Bad : n <= m
    BY <2>1, LeastNat
  <2>3. n \in 0..n0 /\ ~Good(n)
    BY DEF Bad
  <2>4. n # 0
    BY <2>3, <1>1
  <2>5. n-1 \in 0..n0 /\ n-1 \notin Bad
    BY <2>2, <2>3, <2>4
  <2>6. Good(n-1)
    BY <2>5 DEF Bad
  <2> QED BY <1>2, <2>3, <2>4, <2>6
<1> QED BY <1>3 DEF Good

\* The evictions of a consistent cache: each leaves it consistent and its
\* list one shorter.
LEMMA EvictionsInv ==
  ASSUME NEW c, Consistent(c), NEW k \in 0..Len(c.list)
  PROVE  /\ Consistent(Evictions(c)[k])
         /\ Evictions(c)[k].size = c.size
         /\ Evictions(c)[k].map \subseteq c.map /\ SameReport(c, Evictions(c)[k])
         /\ Len(Evictions(c)[k].list) = Len(c.list) - k
<1> DEFINE e == Evictions(c)
           n0 == Len(c.list)
           Inv(i) == /\ Consistent(e[i]) /\ e[i].size = c.size
                     /\ e[i].map \subseteq c.map /\ SameReport(c, e[i])
                     /\ Len(e[i].list) = n0 - i
           Bad == {i \in 0..n0 : ~Inv(i)}
<1>1. n0 \in Nat /\ c.list \in Seq(Objects)
  BY DEF Consistent, LRUCaches
<1>2. e = [i \in 0..n0 |-> IF i = 0 THEN c ELSE EvictReturn(e[i-1])]
  BY <1>1, EvictionsExists DEF Evictions
<1> HIDE DEF e, n0
<1>3. e[0] = c /\ \A i \in 1..n0 : e[i] = EvictReturn(e[i-1])
  BY <1>1, <1>2
<1>4. Inv(0)
  BY <1>1, <1>3 DEF n0, SameReport
<1>5. ASSUME NEW i \in 1..n0, Inv(i-1) PROVE Inv(i)
  <2>1. e[i] = EvictReturn(e[i-1])
    BY <1>3
  <2>2. Len(e[i-1].list) = n0 - (i-1) /\ n0 - (i-1) > 0
    BY <1>1, <1>5
  <2>3. e[i-1].list # <<>>
    BY <2>2
  <2>4. Len(e[i].list) = (n0 - (i-1)) - 1
    BY <2>1, <2>2, <2>3, <1>5, EvictReturnInv
  <2>5. (n0 - (i-1)) - 1 = n0 - i
    BY <1>1
  <2> QED BY <2>1, <2>4, <2>5, <1>5, EvictReturnInv DEF SameReport
<1> HIDE DEF Inv
<1>6. Bad = {}
  <2> SUFFICES ASSUME Bad # {} PROVE FALSE
    OBVIOUS
  <2>1. Bad \in SUBSET Nat
    BY <1>1
  <2> HIDE DEF Bad
  <2>2. PICK n \in Bad : \A m \in Bad : n <= m
    BY <2>1, LeastNat
  <2>3. n \in 0..n0 /\ ~Inv(n)
    BY DEF Bad
  <2>4. n \in 1..n0
    BY <2>3, <1>1, <1>4
  <2>5. n-1 \in 0..n0 /\ n-1 \notin Bad
    BY <2>2, <2>4, <1>1
  <2>6. Inv(n-1)
    BY <2>5 DEF Bad
  <2> QED BY <1>5, <2>3, <2>4, <2>6
<1>7. Inv(k)
  BY <1>6 DEF n0
<1> QED BY <1>7 DEF Inv, e, n0

\* The eviction loop stops: in a consistent cache there is always a number of
\* evictions that makes room for an object the cache can hold, and what they
\* leave is a consistent cache.
LEMMA MakeRoomInv ==
  ASSUME NEW c, Consistent(c), NEW size \in Nat, size <= c.size
  PROVE  /\ Consistent(MakeRoom(c, size))
         /\ MakeRoom(c, size).size = c.size
         /\ MakeRoom(c, size).map \subseteq c.map
         /\ SameReport(c, MakeRoom(c, size))
         /\ MakeRoom(c, size).current + size <= c.size
<1> DEFINE n0 == Len(c.list)
           Fits(k) == Evictions(c)[k].current + size <= c.size
           T == {k \in 0..n0 : Fits(k)}
<1>1. n0 \in Nat
  BY DEF Consistent, LRUCaches
<1>2. Fits(n0)
  <2>1. n0 \in 0..n0
    BY <1>1
  <2>2. Consistent(Evictions(c)[n0]) /\ Len(Evictions(c)[n0].list) = 0
    <3>1. Consistent(Evictions(c)[n0]) /\ Len(Evictions(c)[n0].list) = n0 - n0
      BY <2>1, EvictionsInv
    <3> QED BY <1>1, <3>1
  <2>3. Evictions(c)[n0].list = <<>>
    BY <2>2, EmptySeq DEF Consistent, LRUCaches
  <2>4. Evictions(c)[n0].current = 0
    BY <2>2, <2>3, BytesNat DEF Consistent
  <2> QED BY <2>4
<1> HIDE DEF Fits
<1>3. T \in SUBSET Nat /\ T # {}
  BY <1>1, <1>2
<1> HIDE DEF T
<1>4. PICK k \in T : \A j \in T : k <= j
  BY <1>3, LeastNat
<1>5. k \in 0..n0 /\ Fits(k)
  BY <1>4 DEF T
<1>6. \A j \in 0..(k-1) : ~Fits(j)
  <2> SUFFICES ASSUME NEW j \in 0..(k-1), Fits(j) PROVE FALSE
    OBVIOUS
  <2>1. j \in 0..n0 /\ ~(k <= j)
    BY <1>1, <1>5
  <2> QED BY <2>1, <1>4 DEF T
<1> DEFINE K == CHOOSE i \in 0..n0 : Fits(i) /\ \A j \in 0..(i-1) : ~Fits(j)
<1>7. K \in 0..n0 /\ Fits(K)
  BY <1>5, <1>6
<1>8. MakeRoom(c, size) = Evictions(c)[K]
  BY DEF MakeRoom, Fits
<1> HIDE DEF K
<1> QED BY <1>7, <1>8, EvictionsInv DEF Fits

\* setSize() on a consistent cache, whatever the new capacity.
LEMMA SetSizeInv ==
  ASSUME NEW c, Consistent(c), NEW cs \in Nat
  PROVE  /\ CacheInv(SetSize(c, cs)) /\ SetSize(c, cs).size = cs
         /\ SetSize(c, cs).map \subseteq c.map /\ SameReport(c, SetSize(c, cs))
<1> DEFINE d == [c EXCEPT !.size = cs]
<1>1. Consistent(d) /\ d.size = cs /\ d.map = c.map /\ SameReport(c, d)
  BY DEF Consistent, LRUCaches, IndexExact, SameReport
<1> HIDE DEF d
<1>2. /\ Consistent(MakeRoom(d, 0)) /\ MakeRoom(d, 0).size = cs
      /\ MakeRoom(d, 0).current + 0 <= cs
      /\ MakeRoom(d, 0).map \subseteq d.map /\ SameReport(d, MakeRoom(d, 0))
  BY <1>1, MakeRoomInv
<1>3. MakeRoom(d, 0).current \in Nat
  BY <1>2 DEF Consistent, LRUCaches
<1> QED BY <1>1, <1>2, <1>3, CacheInvConsistent DEF SetSize, SameReport, d

\* Counting a lookup touches neither the list nor its index.
LEMMA CountInv ==
  ASSUME NEW c, CacheInv(c), NEW o \in Objects
  PROVE  CacheInv(Count(c, o)) /\ Count(c, o).map = c.map /\ Count(c, o).size = c.size
<1> DEFINE d == Count(c, o)
<1>1. /\ c \in LRUCaches /\ c.requestNum + 1 \in Nat
      /\ c.uniqueFile \cup {o.id} \in SUBSET Ids
  BY DEF CacheInv, LRUCaches, Objects
<1>2. /\ d \in LRUCaches
      /\ d.size = c.size /\ d.current = c.current
      /\ d.list = c.list /\ d.map = c.map
  BY <1>1 DEF Count, LRUCaches
<1> HIDE DEF d
<1>3. CacheInv(d)
  BY <1>2 DEF CacheInv, SizeExact, IndexExact
<1> QED BY <1>2, <1>3 DEF d

\* hit() moves an indexed object to the front and keeps the rest.
LEMMA HitInv ==
  ASSUME NEW c, CacheInv(c), NEW o \in c.map
  PROVE  CacheInv(Hit(c, o)) /\ Hit(c, o).map = c.map /\ Hit(c, o).size = c.size
<1> DEFINE s == c.list
           n == Cell(s, o)
           r == RemoveAt(s, n)
           t == <<o>> \o r
<1>1. /\ c \in LRUCaches /\ s \in Seq(Objects) /\ c.map = ToSet(s)
      /\ IsInjective(s) /\ c.current = Bytes(s) /\ c.current <= c.size
  BY DEF CacheInv, LRUCaches, SizeExact, IndexExact
<1>2. n \in 1..Len(s) /\ s[n] = o
  BY <1>1, CellOf
<1>3. o \in Objects /\ o.size \in Nat
  BY <1>1, <1>2, SizesNat
<1> HIDE DEF n
<1>4. /\ r \in Seq(Objects) /\ Bytes(r) = Bytes(s) - o.size
      /\ ToSet(r) = ToSet(s) \ {o} /\ IsInjective(r)
  BY <1>1, <1>2, RemoveAtCells, BytesRemoveAt, RemoveAtSet
<1> HIDE DEF r
<1>5. t \in Seq(Objects) /\ ToSet(t) = ToSet(s) /\ IsInjective(t)
  <2>1. o \notin ToSet(r) /\ ToSet(r) \cup {o} = ToSet(s)
    BY <1>1, <1>4
  <2> QED BY <2>1, <1>3, <1>4, PushSet
<1>6. Bytes(t) = Bytes(s)
  <2>1. Bytes(t) = o.size + Bytes(r)
    BY <1>3, <1>4, BytesPush
  <2>2. Bytes(s) \in Nat
    BY <1>1, BytesNat
  <2> QED BY <2>1, <2>2, <1>3, <1>4
<1>7. Hit(c, o) = [c EXCEPT !.list = t]
  BY DEF Hit, t, r, n
<1> HIDE DEF t
<1> QED BY <1>1, <1>5, <1>6, <1>7 DEF CacheInv, LRUCaches, SizeExact, IndexExact

\* lookup() keeps the cached objects and the invariant.
LEMMA LookupInv ==
  ASSUME NEW c, CacheInv(c), NEW o \in Objects
  PROVE  /\ CacheInv(Lookup(c, o)) /\ Lookup(c, o).map = c.map
         /\ Lookup(c, o).size = c.size
         /\ Lookup(c, o).requestNum = c.requestNum + 1
         /\ Lookup(c, o).uniqueFile = c.uniqueFile \cup {o.id}
<1>1. CacheInv(Count(c, o)) /\ Count(c, o).map = c.map /\ Count(c, o).size = c.size
  BY CountInv
<1>4. /\ Count(c, o).requestNum = c.requestNum + 1
      /\ Count(c, o).uniqueFile = c.uniqueFile \cup {o.id}
  BY DEF Count, CacheInv, LRUCaches
<1>5. ASSUME NEW d, d \in LRUCaches
      PROVE  SameReport(d, Hit(d, o))
  BY <1>5 DEF Hit, LRUCaches, SameReport
<1>2. CASE o \in c.map
  BY <1>1, <1>2, <1>4, <1>5, HitInv DEF Lookup, IsHit, SameReport, CacheInv
<1>3. CASE o \notin c.map
  BY <1>1, <1>3, <1>4 DEF Lookup, IsHit
<1> QED BY <1>2, <1>3

\* admit() of an object that is not cached: nothing is added but that object,
\* and the bytes of what is kept and of the object fit the capacity.
LEMMA AdmitInv ==
  ASSUME NEW c, CacheInv(c), NEW o \in Objects, o \notin c.map
  PROVE  /\ CacheInv(Admit(c, o))
         /\ Admit(c, o).map \subseteq c.map \cup {o}
         /\ Admit(c, o).size = c.size /\ SameReport(c, Admit(c, o))
<1>1. o.size \in Nat /\ c.size \in Nat
  BY DEF Objects, CacheInv, LRUCaches
<1>2. CASE o.size > c.size
  BY <1>2 DEF Admit, SameReport
<1>3. CASE o.size <= c.size
  <2> DEFINE d == MakeRoom(c, o.size)
             e == PushFront(d, o)
  <2>1. /\ Consistent(d) /\ d.size = c.size /\ d.map \subseteq c.map
        /\ d.current + o.size <= c.size /\ SameReport(c, d)
    BY <1>1, <1>3, CacheInvConsistent, MakeRoomInv
  <2> HIDE DEF d
  <2>2. /\ d \in LRUCaches /\ d.list \in Seq(Objects) /\ d.map = ToSet(d.list)
        /\ IsInjective(d.list) /\ d.current = Bytes(d.list) /\ d.current \in Nat
    BY <2>1 DEF Consistent, LRUCaches, IndexExact
  <2> DEFINE l == <<o>> \o d.list
  <2>3. l \in Seq(Objects) /\ ToSet(l) = d.map \cup {o} /\ IsInjective(l)
    BY <2>1, <2>2, PushSet
  <2>4. Bytes(l) = d.current + o.size
    BY <1>1, <2>2, BytesPush
  <2>5. e = [d EXCEPT !.list = l, !.map = d.map \cup {o},
                      !.current = d.current + o.size]
    BY DEF PushFront
  <2> HIDE DEF l, e
  <2>6. d.map \cup {o} \in SUBSET Objects /\ d.current + o.size \in Nat
    BY <1>1, <2>2 DEF LRUCaches
  <2>7. /\ e.size = d.size /\ e.current = d.current + o.size
        /\ e.map = d.map \cup {o} /\ e.list = l
        /\ e \in LRUCaches /\ SameReport(c, e)
    BY <2>1, <2>2, <2>3, <2>5, <2>6 DEF LRUCaches, SameReport
  <2>8. CacheInv(e)
    BY <2>1, <2>3, <2>4, <2>7 DEF CacheInv, SizeExact, IndexExact
  <2>9. Admit(c, o) = e
    BY <1>1, <1>3 DEF Admit, d, e
  <2> QED BY <2>1, <2>7, <2>8, <2>9
<1> QED BY <1>1, <1>2, <1>3

\* evict(req) removes the object asked for and nothing else.
LEMMA EvictInv ==
  ASSUME NEW c, CacheInv(c), NEW o
  PROVE  /\ CacheInv(Evict(c, o))
         /\ Evict(c, o).map = c.map \ {o}
         /\ Evict(c, o).size = c.size
<1>1. CASE o \notin c.map
  BY <1>1 DEF Evict
<1>2. CASE o \in c.map
  <2> DEFINE s == c.list
             n == Cell(s, o)
             r == RemoveAt(s, n)
             e == Evict(c, o)
  <2>1. /\ c \in LRUCaches /\ s \in Seq(Objects) /\ c.map = ToSet(s)
        /\ IsInjective(s) /\ c.current = Bytes(s) /\ c.current <= c.size
        /\ c.current \in Nat /\ c.size \in Nat
    BY DEF CacheInv, LRUCaches, SizeExact, IndexExact
  <2>2. n \in 1..Len(s) /\ s[n] = o
    BY <1>2, <2>1, CellOf
  <2>3. o \in Objects /\ o.size \in Nat
    BY <2>1, <2>2, SizesNat
  <2> HIDE DEF n
  <2>4. /\ r \in Seq(Objects) /\ Bytes(r) = Bytes(s) - o.size
        /\ ToSet(r) = ToSet(s) \ {o} /\ IsInjective(r) /\ Bytes(r) \in Nat
    BY <2>1, <2>2, RemoveAtCells, BytesRemoveAt, RemoveAtSet, BytesNat
  <2> HIDE DEF r
  <2>5. /\ e.size = c.size /\ e.current = c.current - o.size
        /\ e.map = c.map \ {o} /\ e.list = r
        /\ e.requestNum = c.requestNum /\ e.uniqueFile = c.uniqueFile
        /\ e = [size |-> e.size, current |-> e.current, list |-> e.list,
                map |-> e.map, requestNum |-> e.requestNum,
                uniqueFile |-> e.uniqueFile]
    BY <1>2, <2>1 DEF Evict, LRUCaches, r, n
  <2> HIDE DEF e
  <2>6. e \in LRUCaches
    BY <2>1, <2>4, <2>5 DEF LRUCaches
  <2>7. CacheInv(e)
    BY <2>1, <2>3, <2>4, <2>5, <2>6 DEF CacheInv, SizeExact, IndexExact
  <2> QED BY <2>5, <2>7 DEF e
<1> QED BY <1>1, <1>2
----------------------------------------------------------------------------
(***************************************************************************)
(* The stack model: the list of a cache that evicts from its end is the    *)
(* top of the stack of the objects ever placed in it, as far as it fits.   *)
(***************************************************************************)

\* What evict_return() takes is the last cell of the list.
LEMMA EvictReturnLast ==
  ASSUME NEW c, Consistent(c), c.list # <<>>
  PROVE  /\ \A i \in 1..(Len(c.list) - 1) : EvictReturn(c).list[i] = c.list[i]
         /\ c.current = EvictReturn(c).current + c.list[Len(c.list)].size
<1> DEFINE s == c.list
           n == Len(c.list)
<1>1. c \in LRUCaches /\ s \in Seq(Objects) /\ n \in 1..n
  BY EmptySeq DEF Consistent, LRUCaches
<1>2. s[n].size \in Nat /\ c.current \in Nat
  BY <1>1, SizesNat DEF LRUCaches
<1>3. /\ EvictReturn(c).list = Front(s)
      /\ EvictReturn(c).current = c.current - s[n].size
  BY <1>1 DEF EvictReturn, Last, LRUCaches
<1>4. \A i \in 1..(n-1) : Front(s)[i] = s[i]
  BY <1>1, SubSeqProperties, ElementOfSeq DEF Front
<1> QED BY <1>2, <1>3, <1>4

\* The evictions leave the first cells of the list.
LEMMA EvictionsFirst ==
  ASSUME NEW c, Consistent(c), NEW k \in 0..Len(c.list)
  PROVE  /\ \A i \in 1..(Len(c.list) - k) : Evictions(c)[k].list[i] = c.list[i]
         /\ k > 0 => Evictions(c)[k-1].current
                       = Evictions(c)[k].current + c.list[Len(c.list) - k + 1].size
<1> DEFINE e == Evictions(c)
           n0 == Len(c.list)
           Keeps(j) == \A i \in 1..(n0 - j) : e[j].list[i] = c.list[i]
           P == {j \in 0..n0 : Keeps(j)}
<1>1. n0 \in Nat /\ c.list \in Seq(Objects)
  BY DEF Consistent, LRUCaches
<1>2. e = [i \in 0..n0 |-> IF i = 0 THEN c ELSE EvictReturn(e[i-1])]
  BY <1>1, EvictionsExists DEF Evictions
<1>3. \A i \in 0..n0 : Consistent(e[i]) /\ Len(e[i].list) = n0 - i
  BY EvictionsInv
<1> HIDE DEF e, n0
<1>4. e[0] = c /\ \A i \in 1..n0 : e[i] = EvictReturn(e[i-1])
  BY <1>1, <1>2
<1>5. ASSUME NEW i \in 1..n0
      PROVE  /\ \A j \in 1..(n0 - i) : e[i].list[j] = e[i-1].list[j]
             /\ e[i-1].current = e[i].current + e[i-1].list[n0 - i + 1].size
  <2>1. /\ i-1 \in 0..n0 /\ n0 - (i-1) = n0 - i + 1 /\ n0 - i + 1 > 0
        /\ (n0 - i + 1) - 1 = n0 - i
    BY <1>1
  <2>2. /\ Consistent(e[i-1]) /\ Len(e[i-1].list) = n0 - i + 1
        /\ e[i] = EvictReturn(e[i-1])
    BY <1>3, <1>4, <2>1
  <2>3. e[i-1].list # <<>>
    BY <2>1, <2>2
  <2>4. /\ \A j \in 1..(Len(e[i-1].list) - 1) :
             EvictReturn(e[i-1]).list[j] = e[i-1].list[j]
        /\ e[i-1].current = EvictReturn(e[i-1]).current
                              + e[i-1].list[Len(e[i-1].list)].size
    BY <2>2, <2>3, EvictReturnLast
  <2> QED BY <2>1, <2>2, <2>4
<1>6. P = 0..n0
  <2>1. 0 \in P
    BY <1>1, <1>4 DEF n0
  <2>2. ASSUME NEW i \in 1..n0, i-1 \in P PROVE i \in P
    <3>1. /\ i \in 0..n0 /\ i-1 \in 0..n0
          /\ \A j \in 1..(n0 - i) : j \in 1..(n0 - (i-1))
      BY <1>1
    <3>2. Keeps(i-1)
      BY <2>2
    <3> QED BY <1>5, <3>1, <3>2
  <2>3. P \in SUBSET (0..n0)
    OBVIOUS
  <2> HIDE DEF P
  <2> QED BY <1>1, <2>1, <2>2, <2>3, UptoInduction
<1>7. Keeps(k)
  <2>1. k \in P
    BY <1>6 DEF n0
  <2> QED BY <2>1
<1>8. ASSUME k > 0
      PROVE  e[k-1].current = e[k].current + c.list[n0 - k + 1].size
  <2>1. /\ k \in 1..n0 /\ k-1 \in 0..n0
        /\ n0 - k + 1 \in 1..(n0 - (k-1))
    BY <1>1, <1>8 DEF n0
  <2>2. Keeps(k-1)
    BY <1>6, <2>1
  <2>3. e[k-1].list[n0 - k + 1] = c.list[n0 - k + 1]
    BY <2>1, <2>2
  <2> QED BY <1>5, <2>1, <2>3
<1> QED BY <1>7, <1>8 DEF e, n0

\* d is c with the end of its list cut off, no further than needed for an
\* object of some size.
CutFrom(c, d, size) ==
  /\ Len(d.list) <= Len(c.list)
  /\ \A i \in 1..Len(d.list) : d.list[i] = c.list[i]
  /\ Len(d.list) < Len(c.list) =>
       d.current + c.list[Len(d.list) + 1].size + size > c.size
  /\ Len(d.list) = Len(c.list) => d.current = c.current

\* The eviction loop evicts no more than it must.
LEMMA MakeRoomCuts ==
  ASSUME NEW c, Consistent(c), NEW size \in Nat, size <= c.size
  PROVE  CutFrom(c, MakeRoom(c, size), size)
<1> DEFINE n0 == Len(c.list)
           Fits(k) == Evictions(c)[k].current + size <= c.size
           T == {k \in 0..n0 : Fits(k)}
<1>1. n0 \in Nat /\ c.size \in Nat
  BY DEF Consistent, LRUCaches
<1>2. Fits(n0)
  <2>1. n0 \in 0..n0
    BY <1>1
  <2>2. Consistent(Evictions(c)[n0]) /\ Len(Evictions(c)[n0].list) = 0
    <3>1. Consistent(Evictions(c)[n0]) /\ Len(Evictions(c)[n0].list) = n0 - n0
      BY <2>1, EvictionsInv
    <3> QED BY <1>1, <3>1
  <2>3. Evictions(c)[n0].list = <<>>
    BY <2>2, EmptySeq DEF Consistent, LRUCaches
  <2>4. Evictions(c)[n0].current = 0
    BY <2>2, <2>3, BytesNat DEF Consistent
  <2> QED BY <2>4
<1> HIDE DEF Fits
<1>3. T \in SUBSET Nat /\ T # {}
  BY <1>1, <1>2
<1> HIDE DEF T
<1>4. PICK k \in T : \A j \in T : k <= j
  BY <1>3, LeastNat
<1>5. k \in 0..n0 /\ Fits(k)
  BY <1>4 DEF T
<1>6. \A j \in 0..(k-1) : ~Fits(j)
  <2> SUFFICES ASSUME NEW j \in 0..(k-1), Fits(j) PROVE FALSE
    OBVIOUS
  <2>1. j \in 0..n0 /\ ~(k <= j)
    BY <1>1, <1>5
  <2> QED BY <2>1, <1>4 DEF T
<1> DEFINE K == CHOOSE i \in 0..n0 : Fits(i) /\ \A j \in 0..(i-1) : ~Fits(j)
<1>7. K \in 0..n0 /\ \A j \in 0..(K-1) : ~Fits(j)
  BY <1>5, <1>6
<1>8. MakeRoom(c, size) = Evictions(c)[K]
  BY DEF MakeRoom, Fits
<1> HIDE DEF K
<1> DEFINE d == Evictions(c)[K]
<1>9. /\ Consistent(d) /\ Len(d.list) = n0 - K
      /\ \A i \in 1..(n0 - K) : d.list[i] = c.list[i]
  <2>1. K \in 0..Len(c.list)
    BY <1>7
  <2>2. Consistent(d) /\ Len(d.list) = n0 - K
    BY <2>1, EvictionsInv
  <2>3. \A i \in 1..(n0 - K) : d.list[i] = c.list[i]
    BY <2>1, EvictionsFirst
  <2> QED BY <2>2, <2>3
<1>10. ASSUME K > 0 PROVE d.current + c.list[n0 - K + 1].size + size > c.size
  <2>1. K - 1 \in 0..(K-1) /\ K - 1 \in 0..n0 /\ n0 - K + 1 \in 1..n0
    BY <1>1, <1>7, <1>10
  <2>2. ~Fits(K-1)
    BY <1>7, <2>1
  <2>3. Evictions(c)[K-1].current = d.current + c.list[n0 - K + 1].size
    BY <1>7, <1>10, EvictionsFirst
  <2>4. d.current \in Nat /\ c.list[n0 - K + 1].size \in Nat
    BY <1>9, <2>1, SizesNat DEF Consistent, LRUCaches
  <2> QED BY <1>1, <2>2, <2>3, <2>4 DEF Fits
<1>11. ASSUME K = 0 PROVE d = c
  <2>1. Evictions(c) = [i \in 0..n0 |->
                   IF i = 0 THEN c ELSE EvictReturn(Evictions(c)[i-1])]
    BY <1>1, EvictionsExists DEF Evictions
  <2> QED BY <1>1, <1>11, <2>1
<1> HIDE DEF d
<1>12. n0 - K <= n0 /\ (n0 - K < n0 => K > 0) /\ (n0 - K = n0 => K = 0)
  BY <1>1, <1>7
<1> QED BY <1>8, <1>9, <1>10, <1>11, <1>12 DEF CutFrom, d

\* The list is the top of the stack, and the object below does not fit in.
TopOf(c, stack) ==
  /\ stack \in Seq(Objects) /\ IsInjective(stack)
  /\ Len(c.list) <= Len(stack)
  /\ \A i \in 1..Len(c.list) : c.list[i] = stack[i]
  /\ Len(c.list) < Len(stack) =>
       c.current + stack[Len(c.list) + 1].size > c.size

\* Pushing an object on a list, cell by cell.
LEMMA PushCells ==
  ASSUME NEW s \in Seq(Objects), NEW o \in Objects
  PROVE  /\ Len(<<o>> \o s) = Len(s) + 1 /\ (<<o>> \o s)[1] = o
         /\ \A i \in 2..(Len(s) + 1) : (<<o>> \o s)[i] = s[i-1]
OBVIOUS

\* The stack repeats no object.
LEMMA OnTopType ==
  ASSUME NEW stack \in Seq(Objects), IsInjective(stack), NEW o \in Objects
  PROVE  OnTop(o, stack) \in Seq(Objects) /\ IsInjective(OnTop(o, stack))
<1> DEFINE r == RemoveFirst(stack, o)
<1>1. /\ r \in Seq(Objects) /\ IsInjective(r)
      /\ o \notin ToSet(r)
  BY RemoveFirstSet
<1> HIDE DEF r
<1> QED BY <1>1, PushSet DEF OnTop, r

\* A hit moves the object up in the list as in the stack.
LEMMA HitTop ==
  ASSUME NEW c, CacheInv(c), NEW stack, TopOf(c, stack), NEW o \in c.map
  PROVE  TopOf(Hit(c, o), OnTop(o, stack))
<1> DEFINE s == c.list
           n == Cell(s, o)
           r == RemoveAt(s, n)
           q == RemoveAt(stack, n)
           t == <<o>> \o r
           u == <<o>> \o q
<1>1. /\ c \in LRUCaches /\ s \in Seq(Objects) /\ c.map = ToSet(s)
      /\ stack \in Seq(Objects) /\ IsInjective(stack)
      /\ Len(s) \in Nat /\ Len(stack) \in Nat /\ Len(s) <= Len(stack)
  BY DEF CacheInv, LRUCaches, IndexExact, TopOf
<1>2. n \in 1..Len(s) /\ s[n] = o
  BY <1>1, CellOf
<1> HIDE DEF n
<1>3. n \in 1..Len(stack) /\ stack[n] = o /\ o \in Objects
  BY <1>1, <1>2, SizesNat DEF TopOf
<1>4. OnTop(o, stack) = u
  BY <1>1, <1>3, RemoveFirstCell DEF OnTop
<1>5. Hit(c, o) = [c EXCEPT !.list = t]
  BY DEF Hit, n
<1>6. /\ r \in Seq(Objects) /\ Len(r) = Len(s) - 1
      /\ \A i \in 1..(Len(s)-1) : r[i] = IF i < n THEN s[i] ELSE s[i+1]
  BY <1>1, <1>2, RemoveAtCells
<1>7. /\ q \in Seq(Objects) /\ Len(q) = Len(stack) - 1
      /\ \A i \in 1..(Len(stack)-1) :
           q[i] = IF i < n THEN stack[i] ELSE stack[i+1]
  BY <1>1, <1>3, RemoveAtCells
<1> HIDE DEF r, q
<1>8. /\ Len(t) = Len(s) /\ t[1] = o
      /\ \A i \in 2..Len(s) : t[i] = r[i-1]
  BY <1>1, <1>3, <1>6, PushCells
<1>9. /\ Len(u) = Len(stack) /\ u[1] = o
      /\ \A i \in 2..Len(stack) : u[i] = q[i-1]
  BY <1>1, <1>3, <1>7, PushCells
<1>10. u \in Seq(Objects) /\ IsInjective(u)
  BY <1>1, <1>3, <1>4, OnTopType
<1> HIDE DEF t, u, s
<1>11. ASSUME NEW i \in 1..Len(s) PROVE t[i] = u[i]
  <2>1. CASE i = 1
    BY <1>8, <1>9, <2>1
  <2>2. CASE i # 1
    <3>1. /\ i \in 2..Len(s) /\ i \in 2..Len(stack)
          /\ i-1 \in 1..(Len(s)-1) /\ i-1 \in 1..(Len(stack)-1)
          /\ i-1 \in 1..Len(s) /\ i-1+1 \in 1..Len(s)
      BY <1>1, <2>2
    <3>2. s[i-1] = stack[i-1] /\ s[i-1+1] = stack[i-1+1]
      BY <3>1 DEF TopOf, s
    <3>3. r[i-1] = q[i-1]
      BY <1>6, <1>7, <3>1, <3>2
    <3> QED BY <1>8, <1>9, <3>1, <3>3
  <2> QED BY <2>1, <2>2
<1>12. ASSUME Len(s) < Len(stack) PROVE u[Len(s) + 1] = stack[Len(s) + 1]
  <2>1. /\ Len(s) + 1 \in 2..Len(stack) /\ Len(s) \in 1..(Len(stack)-1)
        /\ ~(Len(s) < n) /\ Len(s) + 1 - 1 = Len(s)
    BY <1>1, <1>2, <1>12
  <2>2. q[Len(s)] = stack[Len(s) + 1]
    BY <1>7, <2>1
  <2> QED BY <1>9, <2>1, <2>2
<1>13. Hit(c, o).list = t /\ Hit(c, o).current = c.current /\ Hit(c, o).size = c.size
  BY <1>1, <1>5 DEF LRUCaches
<1> QED BY <1>1, <1>4, <1>8, <1>9, <1>10, <1>11, <1>12, <1>13 DEF TopOf, s

\* Counting a lookup leaves the list alone.
LEMMA CountTop ==
  ASSUME NEW c, CacheInv(c), NEW stack, TopOf(c, stack), NEW o
  PROVE  TopOf(Count(c, o), stack)
<1>1. /\ Count(c, o).list = c.list /\ Count(c, o).current = c.current
      /\ Count(c, o).size = c.size
  BY DEF Count, CacheInv, LRUCaches
<1> QED BY <1>1 DEF TopOf

\* Admitting an object puts it on top of both; what is evicted for it is what
\* the stack no longer has in reach.
LEMMA AdmitTop ==
  ASSUME NEW c, CacheInv(c), NEW stack, TopOf(c, stack),
         NEW o \in Objects, o \notin c.map, o.size <= c.size
  PROVE  TopOf(Admit(c, o), OnTop(o, stack))
<1> DEFINE s == c.list
           d == MakeRoom(c, o.size)
           l == d.list
           q == RemoveFirst(stack, o)
           t == <<o>> \o l
           u == <<o>> \o q
<1>1. /\ c \in LRUCaches /\ s \in Seq(Objects) /\ c.map = ToSet(s)
      /\ DOMAIN s = 1..Len(s)
      /\ stack \in Seq(Objects) /\ IsInjective(stack)
      /\ Len(s) \in Nat /\ Len(stack) \in Nat /\ Len(s) <= Len(stack)
      /\ \A i \in 1..Len(s) : s[i] = stack[i]
  BY DEF CacheInv, LRUCaches, IndexExact, TopOf
<1>2. o.size \in Nat /\ c.size \in Nat /\ c.current \in Nat
  BY <1>1 DEF LRUCaches, Objects
<1>3. /\ Consistent(d) /\ d.size = c.size /\ d.current + o.size <= c.size
      /\ CutFrom(c, d, o.size)
  BY <1>2, CacheInvConsistent, MakeRoomInv, MakeRoomCuts
<1> HIDE DEF d
<1>4. d \in LRUCaches /\ l \in Seq(Objects) /\ Len(l) \in Nat /\ d.current \in Nat
  BY <1>3 DEF Consistent, LRUCaches
<1>5. Admit(c, o) = PushFront(d, o)
  BY <1>2 DEF Admit, d
<1>6. /\ Admit(c, o).list = t /\ Admit(c, o).current = d.current + o.size
      /\ Admit(c, o).size = c.size
  BY <1>3, <1>4, <1>5 DEF PushFront, LRUCaches
<1>7. \A i \in 1..Len(s) : stack[i] # o
  BY <1>1 DEF ToSet
<1>8. /\ q \in Seq(Objects) /\ Len(q) \in Nat
      /\ Len(s) <= Len(q) /\ \A i \in 1..Len(s) : q[i] = stack[i]
      /\ Len(s) < Len(q) =>
           /\ Len(s) < Len(stack)
           /\ q[Len(s) + 1] = stack[Len(s) + 1] \/ stack[Len(s) + 1] = o
  <2>1. CASE o \notin ToSet(stack)
    <3>1. q = stack
      BY <1>1, <2>1, RemoveFirstCell
    <3> HIDE DEF q
    <3> QED BY <1>1, <3>1
  <2>2. CASE o \in ToSet(stack)
    <3>1. PICK n \in 1..Len(stack) : stack[n] = o
      BY <1>1, <2>2 DEF ToSet
    <3>2. n > Len(s)
      BY <1>1, <1>7, <3>1
    <3>3. q = RemoveAt(stack, n)
      BY <1>1, <3>1, RemoveFirstCell
    <3>4. /\ q \in Seq(Objects) /\ Len(q) = Len(stack) - 1
          /\ \A i \in 1..(Len(stack)-1) :
               q[i] = IF i < n THEN stack[i] ELSE stack[i+1]
      <4>1. stack \in Seq(Objects) /\ n \in 1..Len(stack)
        BY <1>1
      <4> HIDE DEF q, s
      <4> QED BY <3>3, <4>1, RemoveAtCells
    <3> HIDE DEF q, s
    <3>5. ASSUME NEW i \in 1..Len(s)
          PROVE  i \in 1..(Len(stack)-1) /\ i < n
      <4>1. i <= Len(s) /\ n <= Len(stack) /\ n \in Int /\ i \in Int /\ i >= 1
        BY <1>1, <3>1
      <4> QED BY <1>1, <3>2, <4>1
    <3>6. ASSUME Len(s) < Len(q)
          PROVE  /\ Len(s) < Len(stack)
                 /\ q[Len(s) + 1] = stack[Len(s) + 1] \/ stack[Len(s) + 1] = o
      <4>1. Len(s) + 1 \in 1..(Len(stack)-1)
        BY <1>1, <3>4, <3>6
      <4>2. CASE Len(s) + 1 < n
        BY <1>1, <3>4, <3>6, <4>1, <4>2
      <4>3. CASE ~(Len(s) + 1 < n)
        <5>1. n = Len(s) + 1
          BY <1>1, <3>1, <3>2, <4>3
        <5> QED BY <1>1, <3>1, <3>4, <3>6, <5>1
      <4> QED BY <4>2, <4>3
    <3>7. Len(q) \in Nat /\ Len(s) <= Len(q)
      BY <1>1, <3>1, <3>2, <3>4
    <3> QED BY <3>4, <3>5, <3>6, <3>7
  <2> QED BY <2>1, <2>2
<1>9. u \in Seq(Objects) /\ IsInjective(u) /\ OnTop(o, stack) = u
  BY <1>1, OnTopType DEF OnTop
<1> HIDE DEF q
<1>10. /\ Len(t) = Len(l) + 1 /\ t[1] = o
       /\ \A i \in 2..(Len(l) + 1) : t[i] = l[i-1]
  BY <1>4, PushCells
<1>11. /\ Len(u) = Len(q) + 1 /\ u[1] = o
       /\ \A i \in 2..(Len(q) + 1) : u[i] = q[i-1]
  BY <1>8, PushCells
<1>12. /\ Len(l) <= Len(s) /\ \A i \in 1..Len(l) : l[i] = s[i]
       /\ Len(l) < Len(s) =>
            d.current + s[Len(l) + 1].size + o.size > c.size
       /\ Len(l) = Len(s) => d.current = c.current
  BY <1>3 DEF CutFrom
<1> HIDE DEF t, u, l, s
<1>13. ASSUME NEW i \in 1..Len(t) PROVE t[i] = u[i]
  <2>1. CASE i = 1
    BY <1>10, <1>11, <2>1
  <2>2. CASE i # 1
    <3>1. /\ i \in 2..(Len(l) + 1) /\ i \in 2..(Len(q) + 1)
          /\ i-1 \in 1..Len(l) /\ i-1 \in 1..Len(s)
      BY <1>1, <1>4, <1>8, <1>10, <1>12, <2>2
    <3> QED BY <1>1, <1>8, <1>10, <1>11, <1>12, <3>1
  <2> QED BY <2>1, <2>2
<1>14. ASSUME Len(t) < Len(u)
       PROVE  d.current + o.size + u[Len(t) + 1].size > c.size
  <2>1. /\ Len(l) < Len(q) /\ Len(t) + 1 \in 2..(Len(q) + 1)
        /\ (Len(t) + 1) - 1 = Len(l) + 1
    BY <1>4, <1>8, <1>10, <1>11, <1>14
  <2>2. u[Len(t) + 1] = q[Len(l) + 1]
    BY <1>11, <2>1
  <2>3. CASE Len(l) < Len(s)
    <3>1. Len(l) + 1 \in 1..Len(s)
      BY <1>1, <1>4, <2>3
    <3>2. q[Len(l) + 1] = s[Len(l) + 1] /\ s[Len(l) + 1].size \in Nat
      BY <1>1, <1>8, <3>1, SizesNat
    <3>3. d.current + s[Len(l) + 1].size + o.size > c.size
      BY <1>12, <2>3
    <3> QED BY <1>2, <1>4, <2>2, <3>2, <3>3
  <2>4. CASE Len(l) = Len(s)
    <3>1. Len(s) < Len(stack) /\ Len(s) + 1 \in 1..Len(stack)
      BY <1>1, <1>8, <2>1, <2>4
    <3>2. stack[Len(s) + 1].size \in Nat
      BY <1>1, <3>1, SizesNat
    <3>3. c.current + stack[Len(s) + 1].size > c.size
      BY <3>1 DEF TopOf, s
    <3>4. stack[Len(s) + 1] # o
      BY <1>2, <1>3, <1>12, <2>4, <3>2, <3>3
    <3>5. q[Len(l) + 1] = stack[Len(s) + 1]
      BY <1>8, <2>1, <2>4, <3>4
    <3>6. d.current = c.current
      BY <1>12, <2>4
    <3> QED BY <1>2, <2>2, <3>2, <3>3, <3>5, <3>6
  <2> QED BY <1>1, <1>4, <1>12, <2>3, <2>4
<1>15. Len(t) <= Len(u)
  BY <1>1, <1>4, <1>8, <1>10, <1>11, <1>12
<1> QED BY <1>6, <1>9, <1>13, <1>14, <1>15 DEF TopOf

\* The bytes of a list grow with each object.
LEMMA UptoGrows ==
  ASSUME NEW s \in Seq(Objects), NEW i \in 0..Len(s), NEW j \in i..Len(s)
  PROVE  Upto(s)[i] <= Upto(s)[j]
<1> DEFINE P == {k \in 0..(Len(s) - i) : Upto(s)[i] <= Upto(s)[i + k]}
<1>1. /\ Len(s) \in Nat /\ Len(s) - i \in Nat /\ i \in Nat
      /\ \A k \in 0..(Len(s) - i) : i + k \in 0..Len(s)
      /\ \A k \in 0..Len(s) : Upto(s)[k] \in Nat
  BY LenProperties, UptoDef
<1>2. 0 \in P
  BY <1>1
<1>3. ASSUME NEW k \in 1..(Len(s) - i), k - 1 \in P PROVE k \in P
  <2>1. /\ k \in 0..(Len(s) - i) /\ i + k \in 1..Len(s)
        /\ (i + k) - 1 = i + (k - 1) /\ i + (k - 1) \in 0..Len(s)
    BY <1>1
  <2>2. Upto(s)[i + k] = Upto(s)[i + (k - 1)] + s[i + k].size
    BY <2>1, UptoDef
  <2>3. s[i + k].size \in Nat
    BY <2>1, SizesNat
  <2>4. Upto(s)[i] <= Upto(s)[i + (k - 1)]
    BY <1>3
  <2>5. Upto(s)[i] <= Upto(s)[i + k]
    BY <1>1, <2>1, <2>2, <2>3, <2>4
  <2> QED BY <2>1, <2>5
<1>4. P \in SUBSET (0..(Len(s) - i))
  OBVIOUS
<1> HIDE DEF P
<1>5. P = 0..(Len(s) - i)
  BY <1>1, <1>2, <1>3, <1>4, UptoInduction
<1>6. j - i \in P /\ i + (j - i) = j
  BY <1>1, <1>5
<1> QED BY <1>6 DEF P

\* What is cached is what the stack has in reach.
LEMMA TopResident ==
  ASSUME NEW c, CacheInv(c), NEW stack, TopOf(c, stack)
  PROVE  Resident(stack, c.size) = c.map
<1> DEFINE s == c.list
           n == Len(s)
<1>1. /\ s \in Seq(Objects) /\ stack \in Seq(Objects) /\ c.map = ToSet(s)
      /\ n \in Nat /\ Len(stack) \in Nat /\ n <= Len(stack)
      /\ DOMAIN stack = 1..Len(stack) /\ DOMAIN s = 1..n
      /\ \A i \in 1..n : s[i] = stack[i]
      /\ c.current = Upto(s)[n] /\ c.current <= c.size
      /\ c.current \in Nat /\ c.size \in Nat
  BY DEF CacheInv, LRUCaches, IndexExact, SizeExact, Bytes, TopOf
<1>2. n < Len(stack) => c.current + stack[n + 1].size > c.size
  BY DEF TopOf
<1> HIDE DEF s
<1>3. \A i \in 0..n : Upto(stack)[i] = Upto(s)[i]
  <2>1. /\ Upto(stack)[0] = 0
        /\ \A i \in 1..n : Upto(stack)[i] = Upto(stack)[i-1] + s[i].size
    <3>1. \A i \in 1..n : i \in 1..Len(stack)
      BY <1>1
    <3> QED BY <1>1, <3>1, UptoDef
  <2> DEFINE f == Upto(stack)
  <2> HIDE DEF f
  <2>2. \A i \in 0..Len(s) : f[i] = Upto(s)[i]
    BY <1>1, <2>1, UptoUnique DEF f
  <2> QED BY <2>2 DEF f
<1>4. \A i \in 0..Len(stack) : Upto(stack)[i] \in Nat
  BY <1>1, UptoDef
<1>5. ASSUME NEW m \in 1..n PROVE Upto(stack)[m] <= c.size
  <2>1. m \in 0..Len(stack) /\ n \in m..Len(stack) /\ n \in 0..n
    BY <1>1
  <2>2. Upto(stack)[m] <= Upto(stack)[n]
    BY <1>1, <2>1, UptoGrows
  <2>3. n \in 0..Len(stack)
    BY <1>1
  <2> QED BY <1>1, <1>3, <1>4, <2>1, <2>2, <2>3
<1>6. ASSUME NEW m \in 1..Len(stack), m > n PROVE ~(Upto(stack)[m] <= c.size)
  <2>1. /\ n + 1 \in 1..Len(stack) /\ n + 1 \in 0..Len(stack)
        /\ m \in (n + 1)..Len(stack) /\ n < Len(stack)
        /\ (n + 1) - 1 = n /\ n \in 0..n /\ n \in 0..Len(stack)
        /\ m \in 0..Len(stack)
    BY <1>1, <1>6
  <2>2. Upto(stack)[n + 1] = Upto(stack)[n] + stack[n + 1].size
    BY <1>1, <2>1, UptoDef
  <2>3. Upto(stack)[n] = c.current
    BY <1>1, <1>3, <2>1
  <2>4. Upto(stack)[n + 1] > c.size
    BY <1>2, <2>1, <2>2, <2>3
  <2>5. Upto(stack)[n + 1] <= Upto(stack)[m]
    BY <1>1, <2>1, UptoGrows
  <2> QED BY <1>1, <1>4, <2>1, <2>4, <2>5
<1>7. {m \in DOMAIN stack : Upto(stack)[m] <= c.size} = 1..n
  <2>1. \A m \in 1..Len(stack) : m \in 1..n \/ m > n
    BY <1>1
  <2>2. \A m \in 1..n : m \in 1..Len(stack)
    BY <1>1
  <2> QED BY <1>1, <1>5, <1>6, <2>1, <2>2
<1>8. {stack[m] : m \in 1..n} = ToSet(s)
  <2>1. {stack[m] : m \in 1..n} = {s[m] : m \in 1..n}
    BY <1>1
  <2> QED BY <1>1, <2>1 DEF ToSet
<1>9. Depths(stack) = Upto(stack)
  BY DEF Depths, Upto
<1> QED BY <1>1, <1>7, <1>8, <1>9 DEF Resident

\* A cache just created holds nothing, and nothing was ever placed in it.
LEMMA EmptyTop ==
  ASSUME NEW c, CacheInv(c), c.map = {}
  PROVE  TopOf(c, <<>>)
<1>1. c.list \in Seq(Objects) /\ ToSet(c.list) = {}
  BY DEF CacheInv, LRUCaches, IndexExact
<1>2. Len(c.list) = 0
  <2>1. DOMAIN c.list = 1..Len(c.list) /\ Len(c.list) \in Nat
    BY <1>1, LenProperties
  <2>2. ~(1 \in DOMAIN c.list)
    BY <1>1 DEF ToSet
  <2> QED BY <2>1, <2>2
<1>3. <<>> \in Seq(Objects) /\ Len(<<>>) = 0 /\ IsInjective(<<>>)
  BY DEF IsInjective
<1> QED BY <1>2, <1>3 DEF TopOf

----------------------------------------------------------------------------
(***************************************************************************)
(* Sorting by ranks.                                                       *)
(***************************************************************************)

\* The numbers from 1 to n are n.
LEMMA CardInterval ==
  ASSUME NEW n \in Nat
  PROVE  IsFiniteSet(1..n) /\ Cardinality(1..n) = n
<1>1. /\ IsFiniteSet(1..n)
      /\ Cardinality(1..n) = IF 1 > n THEN 0 ELSE n - 1 + 1
  BY FS_Interval
<1> QED BY <1>1

\* Of a list, at most all entries are below a position.
LEMMA BelowNat ==
  ASSUME NEW s \in Seq(Nat), NEW p \in Nat
  PROVE  /\ IsFiniteSet({j \in DOMAIN s : s[j] < p})
         /\ Below(s, p) \in Nat /\ Below(s, p) <= Len(s)
<1> DEFINE T == {j \in DOMAIN s : s[j] < p}
<1>1. T \in SUBSET (1..Len(s)) /\ Len(s) \in Nat
  OBVIOUS
<1>2. IsFiniteSet(1..Len(s)) /\ Cardinality(1..Len(s)) = Len(s)
  BY <1>1, CardInterval
<1> HIDE DEF T
<1>3. IsFiniteSet(T) /\ Cardinality(T) <= Len(s) /\ Cardinality(T) \in Nat
  BY <1>1, <1>2, FS_Subset, FS_CardinalityType
<1> QED BY <1>3 DEF T, Below

\* The entries below a position grow with it.
LEMMA BelowMonotone ==
  ASSUME NEW s \in Seq(Nat), NEW p \in Nat, NEW q \in Nat, p <= q
  PROVE  Below(s, p) <= Below(s, q)
<1> DEFINE T == {j \in DOMAIN s : s[j] < p}
           U == {j \in DOMAIN s : s[j] < q}
<1>1. T \in SUBSET U
  <2>1. \A j \in DOMAIN s : s[j] \in Nat
    OBVIOUS
  <2> QED BY <2>1
<1>2. IsFiniteSet(U)
  BY BelowNat
<1> HIDE DEF T, U
<1>3. Cardinality(T) <= Cardinality(U)
  BY <1>1, <1>2, FS_Subset
<1> QED BY <1>3 DEF T, U, Below

\* Where the count goes up there is an entry, and conversely.
LEMMA BelowJumps ==
  ASSUME NEW s \in Seq(Nat), NEW p \in Nat
  PROVE  Below(s, p) < Below(s, p + 1) <=> p \in ToSet(s)
<1> DEFINE T == {j \in DOMAIN s : s[j] < p}
           U == {j \in DOMAIN s : s[j] < p + 1}
<1>1. T \in SUBSET U /\ (T = U <=> p \notin ToSet(s))
  <2>1. \A j \in DOMAIN s : s[j] \in Nat
    OBVIOUS
  <2>2. \A j \in DOMAIN s : s[j] < p + 1 <=> s[j] < p \/ s[j] = p
    BY <2>1
  <2>3. \A j \in DOMAIN s : ~(s[j] < p /\ s[j] = p)
    BY <2>1
  <2> QED BY <2>2, <2>3 DEF ToSet
<1>2. IsFiniteSet(U) /\ IsFiniteSet(T)
  <2>1. p + 1 \in Nat
    OBVIOUS
  <2> QED BY <2>1, BelowNat
<1> HIDE DEF T, U
<1>3. /\ Cardinality(T) <= Cardinality(U)
      /\ Cardinality(T) = Cardinality(U) <=> T = U
      /\ Cardinality(T) \in Nat /\ Cardinality(U) \in Nat
  BY <1>1, <1>2, FS_Subset, FS_CardinalityType
<1>4. Cardinality(T) < Cardinality(U) <=> p \in ToSet(s)
  BY <1>1, <1>3
<1> QED BY <1>4 DEF T, U, Below

\* Each rank is some entry's.
LEMMA RankExists ==
  ASSUME NEW m \in Nat, NEW s \in Seq(0..m), NEW i \in DOMAIN s
  PROVE  \E p \in ToSet(s) : Below(s, p) < i /\ i <= Below(s, p + 1)
<1>1. s \in Seq(Nat) /\ i \in 1..Len(s) /\ \A j \in DOMAIN s : s[j] \in 0..m
  OBVIOUS
<1> DEFINE R == {p \in Nat : i <= Below(s, p + 1)}
<1>2. m \in R
  <2>1. {j \in DOMAIN s : s[j] < m + 1} = 1..Len(s)
    BY <1>1
  <2>2. Below(s, m + 1) = Len(s)
    <3>1. Len(s) \in Nat
      BY <1>1
    <3>2. Cardinality(1..Len(s)) = Len(s)
      BY <3>1, CardInterval
    <3> QED BY <2>1, <3>2 DEF Below
  <2> QED BY <1>1, <2>2
<1>3. R \in SUBSET Nat
  OBVIOUS
<1>4. PICK p \in R : \A q \in R : p <= q
  BY <1>2, <1>3, LeastNat
<1>5. p \in Nat /\ i <= Below(s, p + 1)
  BY <1>4
<1>6. Below(s, p) < i
  <2>1. CASE p = 0
    <3>1. {j \in DOMAIN s : s[j] < 0} = {}
      BY <1>1
    <3>2. Below(s, 0) = 0
      BY <3>1, FS_EmptySet DEF Below
    <3> QED BY <1>1, <2>1, <3>2
  <2>2. CASE p # 0
    <3>1. p - 1 \in Nat /\ p - 1 \notin R
      BY <1>4, <1>5, <2>2
    <3>2. ~(i <= Below(s, (p - 1) + 1)) /\ (p - 1) + 1 = p
      BY <1>5, <3>1
    <3>3. Below(s, p) \in Nat
      BY <1>1, <1>5, BelowNat
    <3> QED BY <1>1, <3>2, <3>3
  <2> QED BY <2>1, <2>2
<1>7. p \in ToSet(s)
  <2>1. Below(s, p) \in Nat /\ Below(s, p + 1) \in Nat
    <3>1. p + 1 \in Nat
      BY <1>5
    <3> QED BY <1>1, <1>5, <3>1, BelowNat
  <2>2. Below(s, p) < Below(s, p + 1)
    BY <1>1, <1>5, <1>6, <2>1
  <2> QED BY <1>1, <1>5, <2>2, BelowJumps
<1> QED BY <1>5, <1>6, <1>7

\* Fewer than i entries are below the one at place i of the sorted list, and at
\* least i are not above it.
LEMMA InOrderRanks ==
  ASSUME NEW m \in Nat, NEW s \in Seq(0..m)
  PROVE  /\ DOMAIN InOrder(s) = 1..Len(s)
         /\ \A i \in 1..Len(s) :
              /\ InOrder(s)[i] \in ToSet(s) /\ InOrder(s)[i] \in 0..m
              /\ Below(s, InOrder(s)[i]) < i
              /\ i <= Below(s, InOrder(s)[i] + 1)
<1>1. DOMAIN s = 1..Len(s) /\ ToSet(s) \subseteq 0..m
  BY DEF ToSet
<1>2. ASSUME NEW i \in 1..Len(s)
      PROVE  /\ InOrder(s)[i] \in ToSet(s)
             /\ Below(s, InOrder(s)[i]) < i
             /\ i <= Below(s, InOrder(s)[i] + 1)
  <2>1. \E p \in ToSet(s) : Below(s, p) < i /\ i <= Below(s, p + 1)
    BY <1>1, RankExists
  <2>2. InOrder(s)[i] =
          CHOOSE p \in ToSet(s) : Below(s, p) < i /\ i <= Below(s, p + 1)
    BY <1>1 DEF InOrder
  <2> QED BY <2>1, <2>2
<1>3. DOMAIN InOrder(s) = 1..Len(s)
  BY <1>1 DEF InOrder
<1> QED BY <1>1, <1>2, <1>3

\* The sequence in order is sorted, has the same entries, and has none twice
\* if there was none twice.
LEMMA InOrderSorts ==
  ASSUME NEW m \in Nat, NEW s \in Seq(0..m)
  PROVE  /\ InOrder(s) \in Seq(0..m) /\ Sorted(InOrder(s))
         /\ ToSet(InOrder(s)) = ToSet(s)
         /\ IsInjective(s) => IsInjective(InOrder(s))
<1> DEFINE t == InOrder(s)
<1>0. s \in Seq(Nat) /\ DOMAIN s = 1..Len(s) /\ Len(s) \in Nat
  OBVIOUS
<1>1. /\ DOMAIN t = 1..Len(s)
      /\ \A i \in 1..Len(s) : /\ t[i] \in ToSet(s) /\ t[i] \in 0..m
                              /\ Below(s, t[i]) < i /\ i <= Below(s, t[i] + 1)
  BY InOrderRanks
<1>2. t \in [1..Len(s) -> 0..m]
  <2>1. t = [i \in DOMAIN s |-> t[i]]
    BY DEF InOrder
  <2> QED BY <1>0, <1>1, <2>1
<1> HIDE DEF t
<1>3. t \in Seq(0..m) /\ Len(t) = Len(s)
  BY <1>0, <1>2
\* A greater rank has no lesser entry.
<1>4. ASSUME NEW i \in 1..Len(s), NEW j \in 1..Len(s), t[j] < t[i]
      PROVE  j < i
  <2>1. t[i] \in Nat /\ t[j] \in Nat /\ t[j] + 1 <= t[i]
    BY <1>1, <1>4
  <2>2. Below(s, t[j] + 1) <= Below(s, t[i])
    BY <1>0, <2>1, BelowMonotone
  <2>3. Below(s, t[j] + 1) \in Nat /\ Below(s, t[i]) \in Nat
    <3>1. t[j] + 1 \in Nat
      BY <2>1
    <3> QED BY <1>0, <2>1, <3>1, BelowNat
  <2> QED BY <1>1, <2>2, <2>3
<1>5. Sorted(t)
  <2> SUFFICES ASSUME NEW i \in 1..Len(s), NEW j \in 1..Len(s), i <= j
               PROVE  t[i] <= t[j]
    BY <1>3 DEF Sorted
  <2>1. ~(t[j] < t[i])
    BY <1>4
  <2>2. t[i] \in Nat /\ t[j] \in Nat
    BY <1>1
  <2> QED BY <2>1, <2>2
<1>6. ToSet(t) = ToSet(s)
  <2>1. ToSet(t) \subseteq ToSet(s)
    BY <1>1 DEF ToSet
  <2>2. ASSUME NEW p \in ToSet(s) PROVE p \in ToSet(t)
    <3>1. p \in Nat
      BY <1>0 DEF ToSet
    <3>2. Below(s, p) < Below(s, p + 1) /\ Below(s, p + 1) <= Len(s)
          /\ Below(s, p) \in Nat /\ Below(s, p + 1) \in Nat
      <4>1. p + 1 \in Nat
        BY <3>1
      <4> QED BY <1>0, <3>1, <4>1, BelowJumps, BelowNat
    <3> DEFINE i == Below(s, p) + 1
    <3>3. i \in 1..Len(s)
      BY <1>0, <3>2
    <3>4. t[i] \in Nat /\ Below(s, t[i]) < i /\ i <= Below(s, t[i] + 1)
      BY <1>1, <3>3
    <3>5. ~(t[i] < p)
      <4> SUFFICES ASSUME t[i] < p PROVE FALSE
        OBVIOUS
      <4>1. Below(s, t[i] + 1) <= Below(s, p) /\ Below(s, t[i] + 1) \in Nat
        <5>1. t[i] + 1 \in Nat /\ t[i] + 1 <= p
          BY <3>1, <3>4
        <5> QED BY <1>0, <3>1, <5>1, BelowMonotone, BelowNat
      <4> QED BY <3>2, <3>4, <4>1
    <3>6. ~(p < t[i])
      <4> SUFFICES ASSUME p < t[i] PROVE FALSE
        OBVIOUS
      <4>1. Below(s, p + 1) <= Below(s, t[i]) /\ Below(s, t[i]) \in Nat
        <5>1. p + 1 \in Nat /\ p + 1 <= t[i]
          BY <3>1, <3>4
        <5> QED BY <1>0, <3>4, <5>1, BelowMonotone, BelowNat
      <4> QED BY <3>2, <3>4, <4>1
    <3>7. t[i] = p
      BY <3>1, <3>4, <3>5, <3>6
    <3> QED BY <1>1, <3>3, <3>7 DEF ToSet
  <2> QED BY <2>1, <2>2
<1>7. ASSUME IsInjective(s) PROVE IsInjective(t)
  <2> SUFFICES ASSUME NEW i \in 1..Len(s), NEW j \in 1..Len(s), t[i] = t[j]
               PROVE  i = j
    BY <1>1 DEF IsInjective
  <2> DEFINE p == t[i]
  <2>1. p \in Nat /\ p \in ToSet(s)
    BY <1>1
  <2>2. PICK k \in DOMAIN s : s[k] = p
    BY <2>1 DEF ToSet
  <2>3. {l \in DOMAIN s : s[l] < p + 1} = {l \in DOMAIN s : s[l] < p} \cup {k}
    <3>1. \A l \in DOMAIN s : s[l] \in Nat
      BY <1>0
    <3>2. \A l \in DOMAIN s : s[l] = p <=> l = k
      BY <1>7, <2>2 DEF IsInjective
    <3> QED BY <2>1, <2>2, <3>1, <3>2
  <2>4. /\ IsFiniteSet({l \in DOMAIN s : s[l] < p}) /\ Below(s, p) \in Nat
        /\ k \notin {l \in DOMAIN s : s[l] < p}
    <3>1. k \notin {l \in DOMAIN s : s[l] < p}
      BY <2>1, <2>2
    <3> HIDE DEF p
    <3>2. IsFiniteSet({l \in DOMAIN s : s[l] < p}) /\ Below(s, p) \in Nat
      BY <1>0, <2>1, BelowNat
    <3> QED BY <3>1, <3>2
  <2>5. Below(s, p + 1) = Below(s, p) + 1
    BY <2>3, <2>4, FS_AddElement DEF Below
  <2>6. Below(s, p) < i /\ i <= Below(s, p) + 1
        /\ Below(s, p) < j /\ j <= Below(s, p) + 1
    BY <1>1, <2>5
  <2> QED BY <2>4, <2>6
<1> QED BY <1>3, <1>5, <1>6, <1>7 DEF t

----------------------------------------------------------------------------
(***************************************************************************)
(* The ring.  LookUp changes what is recorded of the file looked up and    *)
(* nothing a later lookup depends on.                                      *)
(***************************************************************************)

\* The fields of a ring.
IsRing(r) == r = [list |-> r.list, uidHash |-> r.uidHash, owner |-> r.owner,
                  realNodes |-> r.realNodes, fileVnode |-> r.fileVnode,
                  fileRnode |-> r.fileRnode]

\* What a lookup depends on is the same.
SameNodes(q, r) ==
  /\ q.list = r.list /\ q.owner = r.owner /\ q.realNodes = r.realNodes
  /\ q.uidHash = r.uidHash

\* The lookup of file made q of r.
Remembered(q, r, file, h) ==
  q.fileRnode = Put(r.fileRnode, {file}, CacheIndex(r, h))

\* A lookup records where the file is served, and leaves the nodes.
LEMMA LookUpRing ==
  ASSUME NEW r, IsRing(r), NEW file, NEW h, NEW q, q = LookUp(r, file, h)
  PROVE  IsRing(q) /\ SameNodes(q, r) /\ Remembered(q, r, file, h)
<1> DEFINE fv == Put(r.fileVnode, {file}, ServedAt(r, h))
           fr == Put(r.fileRnode, {file}, CacheIndex(r, h))
<1>1. q = [r EXCEPT !.fileVnode = fv, !.fileRnode = fr]
  BY DEF LookUp
<1> HIDE DEF fv, fr
<1>2. q = [list |-> r.list, uidHash |-> r.uidHash, owner |-> r.owner,
           realNodes |-> r.realNodes, fileVnode |-> fv, fileRnode |-> fr]
  BY <1>1 DEF IsRing
<1> QED BY <1>2 DEF IsRing, SameNodes, Remembered, fr

\* What add_real_node() makes of the fields.
LEMMA AddRealNodeFields ==
  ASSUME NEW r, IsRing(r), NEW ps
  PROVE  LET new == AddRealNode(r, ps)
         IN  /\ IsRing(new)
             /\ new.realNodes = r.realNodes + 1
             /\ new.owner = Put(r.owner, ToSet(ps), r.realNodes)
             /\ new.list = WithPositions(r.list, ps)
             /\ new.uidHash = r.uidHash
             /\ new.fileVnode = r.fileVnode /\ new.fileRnode = r.fileRnode
<1> DEFINE own == Put(r.owner, ToSet(ps), r.realNodes)
           lst == WithPositions(r.list, ps)
           sum == r.realNodes + 1
           new == AddRealNode(r, ps)
<1>1. new = [r EXCEPT !.realNodes = sum, !.owner = own, !.list = lst]
  BY DEF AddRealNode
<1> HIDE DEF own, lst, sum, new
<1>2. new = [list |-> lst, uidHash |-> r.uidHash, owner |-> own,
             realNodes |-> sum, fileVnode |-> r.fileVnode,
             fileRnode |-> r.fileRnode]
  BY <1>1 DEF IsRing
<1> QED BY <1>2 DEF IsRing, own, lst, sum, new

----------------------------------------------------------------------------
(***************************************************************************)
(* Adding a real node.                                                     *)
(***************************************************************************)

\* A ring of some real nodes with n virtual nodes each, on positions 0..m.
RingInv(ring, n, m) ==
  /\ ring.realNodes \in Nat
  /\ ring.list \in Seq(0..m)
  /\ \A p \in DOMAIN ring.owner : ring.owner[p] \in 0..(ring.realNodes - 1)
  /\ RingOf(ring, n)

\* A ring starts without nodes.
LEMMA NewRingInv ==
  ASSUME NEW n \in Nat, NEW m \in Nat
  PROVE  RingInv(NewRing, n, m)
<1>1. DOMAIN (<<>>) = {} /\ ToSet(<<>>) = {} /\ Len(<<>>) = 0
  BY DEF ToSet
<1>2. NewRing.realNodes = 0 /\ NewRing.list = <<>> /\ NewRing.owner = <<>>
  BY DEF NewRing
<1> QED BY <1>1, <1>2 DEF RingInv, RingOf, Sorted, IsInjective

\* Sorting the new positions in keeps the list sorted and without repetitions.
LEMMA WithPositionsSorts ==
  ASSUME NEW m \in Nat, NEW list \in Seq(0..m), NEW n \in Nat,
         NEW ps \in [1..n -> 0..m],
         IsInjective(list), IsInjective(ps), ToSet(list) \cap ToSet(ps) = {}
  PROVE  /\ WithPositions(list, ps) \in Seq(0..m)
         /\ Sorted(WithPositions(list, ps))
         /\ IsInjective(WithPositions(list, ps))
         /\ ToSet(WithPositions(list, ps)) = ToSet(list) \cup ToSet(ps)
<1> DEFINE all == list \o ps
<1>0. ps \in Seq(0..m) /\ Len(ps) = n /\ DOMAIN ps = 1..n
      /\ Len(list) \in Nat /\ DOMAIN list = 1..Len(list)
  OBVIOUS
<1>1. /\ all \in Seq(0..m) /\ DOMAIN all = 1..(Len(list) + n)
      /\ \A i \in DOMAIN all :
           all[i] = IF i <= Len(list) THEN list[i] ELSE ps[i - Len(list)]
  BY <1>0
<1> DEFINE L == Len(list)
<1> HIDE DEF all, L
\* An entry is one of list or one of ps.
<1>2. /\ L \in Nat /\ DOMAIN list = 1..L
      /\ \A i \in 1..L : i \in DOMAIN all /\ all[i] = list[i]
      /\ \A i \in 1..n : L + i \in DOMAIN all /\ all[L + i] = ps[i]
      /\ \A i \in DOMAIN all : i \in 1..L \/ \E k \in 1..n : i = L + k
  <2>1. L \in Nat /\ DOMAIN list = 1..L /\ DOMAIN all = 1..(L + n)
        /\ \A i \in DOMAIN all : all[i] = IF i <= L THEN list[i] ELSE ps[i - L]
    BY <1>0, <1>1 DEF L
  <2>2. ASSUME NEW i \in 1..L PROVE i \in DOMAIN all /\ all[i] = list[i]
    <3>1. i \in 1..(L + n) /\ i <= L
      BY <2>1
    <3> QED BY <2>1, <3>1
  <2>3. ASSUME NEW i \in 1..n PROVE L + i \in DOMAIN all /\ all[L + i] = ps[i]
    <3>1. L + i \in 1..(L + n) /\ ~(L + i <= L) /\ (L + i) - L = i
      BY <2>1
    <3> QED BY <2>1, <3>1
  <2>4. ASSUME NEW i \in DOMAIN all
        PROVE  i \in 1..L \/ \E k \in 1..n : i = L + k
    <3>1. i \in 1..L \/ (i - L \in 1..n /\ i = L + (i - L))
      BY <2>1
    <3> QED BY <3>1
  <2> QED BY <2>1, <2>2, <2>3, <2>4
<1>3. ToSet(all) = ToSet(list) \cup ToSet(ps)
  <2>1. ToSet(all) \subseteq ToSet(list) \cup ToSet(ps)
    <3> SUFFICES ASSUME NEW i \in DOMAIN all
                 PROVE  all[i] \in ToSet(list) \cup ToSet(ps)
      BY DEF ToSet
    <3>1. CASE i \in 1..L
      BY <1>2, <3>1 DEF ToSet
    <3>2. CASE \E k \in 1..n : i = L + k
      BY <1>0, <1>2, <3>2 DEF ToSet
    <3> QED BY <1>2, <3>1, <3>2
  <2>2. ToSet(list) \subseteq ToSet(all)
    BY <1>2 DEF ToSet
  <2>3. ToSet(ps) \subseteq ToSet(all)
    BY <1>0, <1>2 DEF ToSet
  <2> QED BY <2>1, <2>2, <2>3
<1>4. IsInjective(all)
  <2> SUFFICES ASSUME NEW i \in DOMAIN all, NEW j \in DOMAIN all, all[i] = all[j]
               PROVE  i = j
    BY DEF IsInjective
  <2>0. /\ \A k \in 1..L : list[k] \in ToSet(list)
        /\ \A k \in 1..n : ps[k] \in ToSet(ps)
    BY <1>0, <1>2 DEF ToSet
  <2>1. CASE i \in 1..L /\ j \in 1..L
    BY <1>2, <2>1 DEF IsInjective
  <2>2. CASE (\E k \in 1..n : i = L + k) /\ (\E k \in 1..n : j = L + k)
    <3>1. PICK k \in 1..n, l \in 1..n : i = L + k /\ j = L + l
      BY <2>2
    <3>2. ps[k] = ps[l]
      BY <1>2, <3>1
    <3>3. k = l
      BY <1>0, <3>2 DEF IsInjective
    <3> QED BY <3>1, <3>3
  <2>3. CASE i \in 1..L /\ (\E k \in 1..n : j = L + k)
    BY <1>2, <2>0, <2>3
  <2>4. CASE (\E k \in 1..n : i = L + k) /\ j \in 1..L
    BY <1>2, <2>0, <2>4
  <2> QED BY <1>2, <2>1, <2>2, <2>3, <2>4
<1>5. WithPositions(list, ps) = InOrder(all)
  BY DEF WithPositions, all
<1> QED BY <1>1, <1>3, <1>4, <1>5, InOrderSorts

\* They make it that much longer.
LEMMA WithPositionsLength ==
  ASSUME NEW m \in Nat, NEW list \in Seq(0..m), NEW n \in Nat,
         NEW ps \in [1..n -> 0..m], WithPositions(list, ps) \in Seq(0..m)
  PROVE  Len(WithPositions(list, ps)) = Len(list) + n
<1>1. ps \in Seq(0..m) /\ Len(ps) = n
  OBVIOUS
<1>2. list \o ps \in Seq(0..m) /\ Len(list \o ps) = Len(list) + n
  BY <1>1, ConcatProperties
<1>3. DOMAIN WithPositions(list, ps) = DOMAIN (list \o ps)
  BY DEF WithPositions, InOrder
<1> DEFINE s == WithPositions(list, ps)
           t == list \o ps
<1> HIDE DEF s, t
<1>4. DOMAIN s = 1..Len(s) /\ DOMAIN t = 1..Len(t)
      /\ Len(s) \in Nat /\ Len(t) \in Nat
  <2>1. s \in Seq(0..m) /\ t \in Seq(0..m)
    BY <1>2 DEF s, t
  <2> QED BY <2>1, LenProperties
<1>5. Len(s) = Len(t)
  <2>1. DOMAIN s = DOMAIN t
    BY <1>3 DEF s, t
  <2>2. 1..Len(s) = 1..Len(t)
    BY <1>4, <2>1
  <2>3. Cardinality(1..Len(s)) = Len(s) /\ Cardinality(1..Len(t)) = Len(t)
    BY <1>4, CardInterval
  <2> QED BY <2>2, <2>3
<1> QED BY <1>2, <1>5 DEF s, t

\* As many positions as virtual nodes.
LEMMA CardPositions ==
  ASSUME NEW n \in Nat, NEW S, NEW ps \in [1..n -> S], IsInjective(ps)
  PROVE  Cardinality(ToSet(ps)) = n
<1>1. ps \in Bijection(1..n, ToSet(ps))
  BY DEF Bijection, Injection, Surjection, IsInjective, ToSet
<1>2. ExistsBijection(1..n, ToSet(ps))
  BY <1>1 DEF ExistsBijection
<1>3. IsFiniteSet(1..n) /\ Cardinality(1..n) = n
  BY CardInterval
<1> QED BY <1>2, <1>3, FS_Bijection

\* A real node on free positions leaves the others what they have.
LEMMA AddRealNodeInv ==
  ASSUME NEW n \in Nat, NEW m \in Nat, NEW ring, RingInv(ring, n, m),
         NEW hashes \in SUBSET (0..m), NEW ps \in FreePositions(ring, n, hashes),
         NEW new, new.realNodes = ring.realNodes + 1,
         new.owner = Put(ring.owner, ToSet(ps), ring.realNodes),
         new.list = WithPositions(ring.list, ps)
  PROVE  RingInv(new, n, m)
<1>1. /\ ring.realNodes \in Nat /\ ring.list \in Seq(0..m)
      /\ \A p \in DOMAIN ring.owner : ring.owner[p] \in 0..(ring.realNodes - 1)
      /\ Sorted(ring.list) /\ IsInjective(ring.list)
      /\ ToSet(ring.list) = DOMAIN ring.owner
      /\ \A s \in 0..(ring.realNodes - 1) :
           Cardinality({p \in DOMAIN ring.owner : ring.owner[p] = s}) = n
  BY DEF RingInv, RingOf
<1>2. /\ ps \in [1..n -> hashes \ DOMAIN ring.owner] /\ ps \in [1..n -> 0..m]
      /\ IsInjective(ps)
      /\ ToSet(ps) \cap DOMAIN ring.owner = {}
  BY DEF FreePositions, ToSet
<1>3. /\ new.list \in Seq(0..m) /\ Sorted(new.list) /\ IsInjective(new.list)
      /\ ToSet(new.list) = DOMAIN ring.owner \cup ToSet(ps)
  <2>1. /\ ring.list \in Seq(0..m) /\ IsInjective(ring.list)
        /\ ps \in [1..n -> 0..m] /\ IsInjective(ps)
        /\ ToSet(ring.list) \cap ToSet(ps) = {}
    BY <1>1, <1>2
  <2>2. LET list == WithPositions(ring.list, ps)
        IN  /\ list \in Seq(0..m) /\ Sorted(list) /\ IsInjective(list)
            /\ ToSet(list) = ToSet(ring.list) \cup ToSet(ps)
    BY <2>1, WithPositionsSorts
  <2> QED BY <1>1, <2>2
<1>4. /\ DOMAIN new.owner = DOMAIN ring.owner \cup ToSet(ps)
      /\ \A p \in ToSet(ps) : new.owner[p] = ring.realNodes
      /\ \A p \in DOMAIN ring.owner : new.owner[p] = ring.owner[p]
  BY <1>2 DEF Put
<1>5. \A p \in DOMAIN new.owner : new.owner[p] \in 0..(new.realNodes - 1)
  BY <1>1, <1>4
<1>6. ASSUME NEW s \in 0..(new.realNodes - 1)
      PROVE  Cardinality({p \in DOMAIN new.owner : new.owner[p] = s}) = n
  <2>1. CASE s = ring.realNodes
    <3>1. {p \in DOMAIN new.owner : new.owner[p] = s} = ToSet(ps)
      BY <1>1, <1>4, <2>1
    <3> QED BY <1>2, <3>1, CardPositions
  <2>2. CASE s # ring.realNodes
    <3>1. s \in 0..(ring.realNodes - 1)
      BY <1>1, <2>2
    <3>2. {p \in DOMAIN new.owner : new.owner[p] = s}
            = {p \in DOMAIN ring.owner : ring.owner[p] = s}
      BY <1>4, <2>2
    <3> QED BY <1>1, <3>1, <3>2
  <2> QED BY <2>1, <2>2
<1>7. RingOf(new, n)
  BY <1>3, <1>4, <1>6 DEF RingOf
<1>8. new.realNodes \in Nat
  BY <1>1
<1> QED BY <1>3, <1>5, <1>7, <1>8 DEF RingInv

----------------------------------------------------------------------------
(***************************************************************************)
(* The search of find_nearest_node(), as the function the ring has it.     *)
(***************************************************************************)
Ends(n) == (0..n) \X (0..n)

\* One turn of the search in a list s, between two ends.
Turn(f, s, h, ends) ==
  LET mid == (ends[1] + ends[2]) \div 2
  IN  IF ends[1] >= ends[2] THEN ends[1]
      ELSE IF s[mid + 1] = h THEN mid
      ELSE IF s[mid + 1] > h THEN f[<<ends[1], mid>>]
      ELSE f[<<mid + 1, ends[2]>>]

\* The search in s, between any ends up to n.
IsSearch(f, n, s, h) == f = [e \in Ends(n) |-> Turn(f, s, h, e)]

\* Where the search for h stops, up to n.
StopsAt(i, n, s, h) ==
  /\ i \in 0..n /\ s[i + 1] >= h
  /\ s[i + 1] = h \/ \A j \in 1..i : s[j] < h

\* The middle lies between both ends, before the upper one.
LEMMA Middle ==
  ASSUME NEW low \in Nat, NEW high \in Nat, low < high
  PROVE  /\ (low + high) \div 2 \in Nat
         /\ low <= (low + high) \div 2 /\ (low + high) \div 2 < high
OBVIOUS

\* Each turn depends on what the search does with closer ends.
LEMMA TurnSame ==
  ASSUME NEW n \in Nat, NEW s, NEW h, NEW e \in Ends(n), NEW f, NEW g,
         \A x \in Ends(n) : x[2] - x[1] < e[2] - e[1] => f[x] = g[x]
  PROVE  Turn(f, s, h, e) = Turn(g, s, h, e)
<1> DEFINE low == e[1]
           high == e[2]
           mid == (low + high) \div 2
<1>1. low \in 0..n /\ high \in 0..n
  BY DEF Ends
<1>2. CASE low >= high
  BY <1>2 DEF Turn
<1>3. CASE ~(low >= high)
  <2>1. mid \in Nat /\ low <= mid /\ mid < high
    BY <1>1, <1>3, Middle
  <2> HIDE DEF mid
  <2> DEFINE x == <<low, mid>>
             y == <<mid + 1, high>>
  <2>2. /\ mid \in 0..n /\ mid + 1 \in 0..n
        /\ mid - low < high - low /\ high - (mid + 1) < high - low
    BY <1>1, <2>1
  <2>3. x \in Ends(n) /\ x[1] = low /\ x[2] = mid
        /\ y \in Ends(n) /\ y[1] = mid + 1 /\ y[2] = high
    BY <1>1, <2>2 DEF Ends
  <2> HIDE DEF x, y
  <2>4. f[x] = g[x]
    BY <2>2, <2>3
  <2>5. f[y] = g[y]
    BY <2>2, <2>3
  <2> QED BY <2>4, <2>5 DEF Turn, mid, x, y
<1> QED BY <1>2, <1>3

\* There is such a function: each turn looks at fewer positions.
LEMMA SearchExists ==
  ASSUME NEW n \in Nat, NEW s, NEW h
  PROVE  \E f : IsSearch(f, n, s, h)
<1> DEFINE UpTill(d, f) ==
             \A e \in Ends(n) : e[2] - e[1] <= d => f[e] = Turn(f, s, h, e)
           P == {d \in 0..n : \E f : UpTill(d, f)}
<1>0. \A e \in Ends(n) : e[1] \in 0..n /\ e[2] \in 0..n /\ e[2] - e[1] <= n
  BY DEF Ends
<1>1. 0 \in P
  <2> DEFINE g == [e \in Ends(n) |-> e[1]]
  <2>1. UpTill(0, g)
    BY <1>0 DEF Turn
  <2> HIDE DEF g, UpTill
  <2> QED BY <2>1
<1>2. ASSUME NEW d \in 1..n, d - 1 \in P PROVE d \in P
  <2>1. PICK f : UpTill(d - 1, f)
    BY <1>2
  <2> DEFINE g == [e \in Ends(n) |-> Turn(f, s, h, e)]
  <2>2. \A e \in Ends(n) : e[2] - e[1] <= d - 1 => g[e] = f[e]
    BY <2>1
  <2>3. \A e \in Ends(n) : g[e] = Turn(f, s, h, e)
    OBVIOUS
  <2> HIDE DEF g
  <2>4. ASSUME NEW e \in Ends(n), e[2] - e[1] <= d
        PROVE  Turn(f, s, h, e) = Turn(g, s, h, e)
    <3>1. \A x \in Ends(n) : x[2] - x[1] < e[2] - e[1] => f[x] = g[x]
      <4>1. \A x \in Ends(n) : x[2] - x[1] < e[2] - e[1] => x[2] - x[1] <= d - 1
        BY <1>0, <2>4
      <4> QED BY <2>2, <4>1
    <3> QED BY <3>1, TurnSame
  <2>5. UpTill(d, g)
    BY <2>3, <2>4
  <2> HIDE DEF UpTill
  <2> QED BY <2>5
<1>3. P \in SUBSET (0..n)
  OBVIOUS
<1> HIDE DEF P
<1>4. P = 0..n
  BY <1>1, <1>2, <1>3, UptoInduction
<1>5. n \in P
  BY <1>4
<1>6. PICK f : UpTill(n, f)
  BY <1>5 DEF P
<1> DEFINE g == [e \in Ends(n) |-> f[e]]
<1>7. \A e \in Ends(n) : f[e] = Turn(f, s, h, e)
  BY <1>0, <1>6
<1>8. ASSUME NEW e \in Ends(n) PROVE Turn(f, s, h, e) = Turn(g, s, h, e)
  <2>1. \A x \in Ends(n) : x[2] - x[1] < e[2] - e[1] => f[x] = g[x]
    OBVIOUS
  <2> HIDE DEF g
  <2> QED BY <2>1, TurnSame
<1>9. g = [e \in Ends(n) |-> Turn(g, s, h, e)]
  <2>1. \A e \in Ends(n) : f[e] = Turn(g, s, h, e)
    BY <1>7, <1>8
  <2> DEFINE k == [e \in Ends(n) |-> Turn(g, s, h, e)]
  <2>2. \A e \in Ends(n) : k[e] = Turn(g, s, h, e)
    OBVIOUS
  <2>3. \A e \in Ends(n) : k[e] = f[e]
    BY <2>1, <2>2
  <2>4. k = [e \in Ends(n) |-> k[e]]
    OBVIOUS
  <2> HIDE DEF k
  <2>5. k = g
    BY <2>3, <2>4
  <2> QED BY <2>5 DEF k
<1> HIDE DEF g
<1> QED BY <1>9 DEF IsSearch

\* The search stays between its ends, and where it stops is h or h would be.
LEMMA SearchFinds ==
  ASSUME NEW n \in Nat, NEW s \in Seq(Nat), n < Len(s), Sorted(s),
         NEW h \in Nat, NEW f, IsSearch(f, Len(s), s, h), s[n + 1] >= h
  PROVE  StopsAt(f[<<0, n>>], n, s, h)
<1> DEFINE Good(low, high) ==
             (\A j \in 1..low : s[j] < h) /\ s[high + 1] >= h
           Fine(i, low, high) ==
             /\ i \in low..high /\ s[i + 1] >= h
             /\ s[i + 1] = h \/ \A j \in 1..i : s[j] < h
           Holds(d) == \A low, high \in 0..n :
             low <= high /\ high - low <= d /\ Good(low, high) =>
               Fine(f[<<low, high>>], low, high)
           P == {d \in 0..n : Holds(d)}
<1>0. /\ Len(s) \in Nat /\ \A i \in 1..Len(s) : s[i] \in Nat
      /\ \A i, j \in 1..Len(s) : i <= j => s[i] <= s[j]
  BY DEF Sorted
<1>1. ASSUME NEW low \in 0..n, NEW high \in 0..n
      PROVE  f[<<low, high>>] = Turn(f, s, h, <<low, high>>)
  <2>1. low \in 0..Len(s) /\ high \in 0..Len(s)
    BY <1>0
  <2>2. <<low, high>> \in Ends(Len(s))
    BY <2>1 DEF Ends
  <2> QED BY <2>2 DEF IsSearch
<1>2. ASSUME NEW low \in 0..n, Good(low, low)
      PROVE  Fine(f[<<low, low>>], low, low)
  <2>1. Turn(f, s, h, <<low, low>>) = low
    BY DEF Turn
  <2>2. f[<<low, low>>] = low
    BY <1>1, <2>1
  <2> QED BY <1>2, <2>2
<1>3. 0 \in P
  <2>1. \A low, high \in 0..n : low <= high /\ high - low <= 0 => high = low
    OBVIOUS
  <2> HIDE DEF Good, Fine
  <2> QED BY <1>2, <2>1
<1>4. ASSUME NEW d \in 1..n, d - 1 \in P PROVE d \in P
  <2> SUFFICES ASSUME NEW low \in 0..n, NEW high \in 0..n, low <= high,
                      high - low <= d, Good(low, high)
               PROVE  Fine(f[<<low, high>>], low, high)
    <3> HIDE DEF Good, Fine
    <3> QED BY <1>4
  <2>1. CASE low = high
    BY <1>2, <2>1
  <2>2. CASE low # high
    <3> DEFINE mid == (low + high) \div 2
    <3>1. mid \in Nat /\ low <= mid /\ mid < high
      BY <2>2, Middle
    <3>2. Turn(f, s, h, <<low, high>>) = f[<<low, high>>]
      BY <1>1
    <3>20. f[<<low, high>>] = IF s[mid + 1] = h THEN mid
                             ELSE IF s[mid + 1] > h THEN f[<<low, mid>>]
                             ELSE f[<<mid + 1, high>>]
      BY <2>2, <3>2 DEF Turn
    <3> HIDE DEF mid
    <3>3. /\ mid \in 0..n /\ mid + 1 \in 0..n /\ mid + 1 <= high
          /\ mid - low <= d - 1 /\ high - (mid + 1) <= d - 1
          /\ mid + 1 \in 1..Len(s) /\ s[mid + 1] \in Nat
      BY <1>0, <3>1
    <3>4. CASE s[mid + 1] = h
      <4>1. f[<<low, high>>] = mid
        BY <3>20, <3>4
      <4>2. Fine(mid, low, high)
        BY <3>1, <3>3, <3>4
      <4> HIDE DEF Fine
      <4> QED BY <4>1, <4>2
    <3>5. CASE s[mid + 1] > h
      <4>1. Good(low, mid)
        BY <3>5, <3>3
      <4>2. Fine(f[<<low, mid>>], low, mid)
        <5> HIDE DEF Good, Fine
        <5> QED BY <1>4, <3>1, <3>3, <4>1
      <4>3. f[<<low, high>>] = f[<<low, mid>>]
        BY <3>20, <3>3, <3>5
      <4>4. \A i : Fine(i, low, mid) => Fine(i, low, high)
        BY <3>1
      <4> HIDE DEF Fine
      <4> QED BY <4>2, <4>3, <4>4
    <3>6. CASE s[mid + 1] < h
      <4>1. Good(mid + 1, high)
        <5>1. ASSUME NEW j \in 1..(mid + 1) PROVE s[j] < h
          <6>1. j \in 1..Len(s) /\ j <= mid + 1
            BY <3>3
          <6>2. s[j] <= s[mid + 1] /\ s[j] \in Nat
            BY <1>0, <3>3, <6>1
          <6> QED BY <3>3, <3>6, <6>2
        <5> QED BY <5>1
      <4>2. Fine(f[<<mid + 1, high>>], mid + 1, high)
        <5> HIDE DEF Good, Fine
        <5> QED BY <1>4, <3>3, <4>1
      <4>3. f[<<low, high>>] = f[<<mid + 1, high>>]
        BY <3>20, <3>3, <3>6
      <4>4. \A i : Fine(i, mid + 1, high) => Fine(i, low, high)
        BY <3>1, <3>3
      <4> HIDE DEF Fine
      <4> QED BY <4>2, <4>3, <4>4
    <3> HIDE DEF Fine, Good
    <3> QED BY <3>3, <3>4, <3>5, <3>6
  <2> HIDE DEF Fine, Good
  <2> QED BY <2>1, <2>2
<1>5. P \in SUBSET (0..n)
  OBVIOUS
<1> HIDE DEF P
<1>6. P = 0..n
  BY <1>3, <1>4, <1>5, UptoInduction
<1>7. Holds(n)
  <2>1. n \in P
    BY <1>6
  <2> HIDE DEF Holds
  <2> QED BY <2>1 DEF P
<1>8. Good(0, n)
  OBVIOUS
<1>9. Fine(f[<<0, n>>], 0, n)
  <2> HIDE DEF Good, Fine
  <2>1. 0 \in 0..n /\ n \in 0..n /\ 0 <= n /\ n - 0 <= n
    OBVIOUS
  <2> QED BY <1>7, <1>8, <2>1
<1> QED BY <1>9 DEF StopsAt

\* find_nearest_node() finds the nearest virtual node of a ring that has any.
LEMMA NearestFound ==
  ASSUME NEW r, r.list \in Seq(Nat), r.list # <<>>, Sorted(r.list),
         NEW h \in Nat
  PROVE  /\ Nearest(r, h) \in 0..(Len(r.list) - 1)
         /\ NearestIn(r.list, h, Nearest(r, h))
<1> DEFINE s == r.list
           n == Len(s) - 1
           f == CHOOSE g : g = [e \in Ends(Len(s)) |-> Turn(g, s, h, e)]
<1>0. /\ Len(s) \in Nat /\ n \in Nat /\ n < Len(s) /\ n + 1 = Len(s)
      /\ s \in Seq(Nat) /\ Sorted(s) /\ Last(s) = s[n + 1]
      /\ \A i \in 1..Len(s) : s[i] \in Nat
      /\ \A i, j \in 1..Len(s) : i <= j => s[i] <= s[j]
  BY DEF Last, Sorted
<1>1. Nearest(r, h) = IF h > Last(s) THEN 0 ELSE f[<<0, n>>]
  BY DEF Nearest, Turn, Ends
<1> HIDE DEF s, n
<1>2. IsSearch(f, Len(s), s, h)
  <2>1. \E g : IsSearch(g, Len(s), s, h)
    BY <1>0, SearchExists
  <2>2. f = CHOOSE g : IsSearch(g, Len(s), s, h)
    BY DEF IsSearch
  <2> HIDE DEF f
  <2> QED BY <2>1, <2>2
<1> HIDE DEF f
<1> DEFINE i == Nearest(r, h)
<1>3. CASE h > Last(s)
  <2>1. i = 0
    BY <1>1, <1>3
  <2>2. \A j \in 1..Len(s) : s[j] < h
    <3> SUFFICES ASSUME NEW j \in 1..Len(s) PROVE s[j] < h
      OBVIOUS
    <3>1. s[j] <= s[n + 1] /\ s[j] \in Nat /\ s[n + 1] \in Nat
      BY <1>0
    <3> QED BY <1>0, <1>3, <3>1
  <2> QED BY <1>0, <2>1, <2>2 DEF NearestIn, s, n
<1>4. CASE ~(h > Last(s))
  <2>1. s[n + 1] >= h
    BY <1>0, <1>4
  <2>2. i = f[<<0, n>>]
    BY <1>1, <1>4
  <2>3. /\ i \in 0..n /\ s[i + 1] >= h
        /\ s[i + 1] = h \/ \A j \in 1..i : s[j] < h
    <3>1. StopsAt(f[<<0, n>>], n, s, h)
      BY <1>0, <1>2, <2>1, SearchFinds
    <3> QED BY <2>2, <3>1 DEF StopsAt
  <2> HIDE DEF i
  <2>4. ASSUME NEW j \in 1..Len(s), s[j] >= h PROVE s[j] >= s[i + 1]
    <3>1. i + 1 \in 1..Len(s) /\ s[i + 1] \in Nat /\ s[j] \in Nat
      BY <1>0, <2>3
    <3>2. CASE s[i + 1] = h
      BY <2>4, <3>2
    <3>3. CASE \A k \in 1..i : s[k] < h
      <4>1. ~(j \in 1..i)
        BY <2>4, <3>1, <3>3
      <4>2. i + 1 <= j
        BY <2>3, <4>1
      <4>3. s[i + 1] <= s[j]
        BY <1>0, <3>1, <4>2
      <4> QED BY <3>1, <4>3
    <3> QED BY <2>3, <3>2, <3>3
  <2> QED BY <1>0, <2>3, <2>4 DEF NearestIn, s, n, i
<1> QED BY <1>3, <1>4

----------------------------------------------------------------------------
(***************************************************************************)
(* The ring of CHUE.                                                       *)
(***************************************************************************)

\* Where the k-th virtual node goes from the one before it, at position x.
Quarter(x, m) == x + (m - x) \div 4

\* Short of three from the end it moves on; there it stays.
LEMMA QuarterMoves ==
  ASSUME NEW m \in Nat, m >= 3, NEW x \in 0..(m - 3)
  PROVE  /\ Quarter(x, m) \in 0..(m - 3) /\ x <= Quarter(x, m)
         /\ Quarter(x, m) = x => x = m - 3
<1> DEFINE q == (m - x) \div 4
<1>1. q \in Int /\ 4 * q <= m - x /\ m - x <= 4 * q + 3
  OBVIOUS
<1> HIDE DEF q
<1>2. Quarter(x, m) = x + q
  BY DEF Quarter, q
<1> QED BY <1>1, <1>2

\* The positions of the virtual nodes never go down or past three from the end.
UnevenlyPlaced(ps, n, m) ==
  /\ ps \in Seq(0..m) /\ Len(ps) = n
  /\ \A u \in 1..n : ps[u] \in 0..(m - 3)
  /\ \A u, v \in 1..n : u < v /\ ps[u] = ps[v] => ps[u] = m - 3

LEMMA UnevenPlaces ==
  ASSUME NEW n \in Nat, NEW m \in Nat, m >= 3
  PROVE  UnevenlyPlaced(UnevenPositions(n, m), n, m)
<1> DEFINE Place(f) == [k \in 1..n |->
             LET last == IF k = 1 THEN 0 ELSE f[k-1]
             IN  last + (m - last) \div 4]
           position == CHOOSE f : f = Place(f)
           ps == UnevenPositions(n, m)
           V == 0..(m - 3)
           step == [k \in 1..n |-> [x \in V |-> Quarter(x, m)]]
<1>1. ps = [k \in 1..n |-> position[k]]
  BY DEF UnevenPositions
<1>2. \E f : f = Place(f)
  <2>1. 0 \in V /\ step \in [1..n -> [V -> V]]
    BY QuarterMoves
  <2> HIDE DEF V, step
  <2>2. PICK f : IsRecursion(f, n, V, 0, step)
    BY <2>1, RecursionExists
  <2> DEFINE g == [k \in 1..n |-> f[k]]
  <2>3. ASSUME NEW k \in 1..n PROVE g[k] = Place(g)[k]
    <3> DEFINE last == IF k = 1 THEN 0 ELSE g[k-1]
    <3>1. f[k] = step[k][f[k-1]] /\ f[k-1] \in V /\ f[0] = 0
      <4>1. k - 1 \in 0..n
        OBVIOUS
      <4> QED BY <2>2, <4>1 DEF IsRecursion
    <3>2. last = f[k-1]
      <4>1. k # 1 => k - 1 \in 1..n
        OBVIOUS
      <4>2. k = 1 => k - 1 = 0
        OBVIOUS
      <4> QED BY <3>1, <4>1, <4>2
    <3>3. g[k] = last + (m - last) \div 4
      <4> HIDE DEF last
      <4>1. g[k] = f[k] /\ step[k][f[k-1]] = Quarter(f[k-1], m)
        BY <3>1 DEF step
      <4> QED BY <3>1, <3>2, <4>1 DEF Quarter
    <3> QED BY <3>3
  <2>4. Place(g) = [k \in 1..n |-> Place(g)[k]]
    OBVIOUS
  <2>5. g = Place(g)
    <3> HIDE DEF Place
    <3> QED BY <2>3, <2>4
  <2> HIDE DEF g, Place
  <2> QED BY <2>5
<1>3. position = Place(position)
  <2> HIDE DEF Place
  <2> QED BY <1>2
<1> HIDE DEF position
<1>4. \A k \in 1..n : position[k] = Quarter(IF k = 1 THEN 0 ELSE position[k-1], m)
  BY <1>3 DEF Quarter
<1>5. /\ n > 0 => ps[1] = Quarter(0, m)
      /\ \A k \in 2..n : ps[k] = Quarter(ps[k-1], m)
  BY <1>1, <1>4
<1>6. DOMAIN ps = 1..n /\ ps = [k \in 1..n |-> ps[k]]
  BY <1>1
<1> HIDE DEF ps
<1>7. \A k \in 1..n : ps[k] \in V
  <2> DEFINE P == {k \in 0..n : k # 0 => ps[k] \in V}
  <2>1. 0 \in P /\ P \in SUBSET (0..n)
    OBVIOUS
  <2>2. ASSUME NEW k \in 1..n, k - 1 \in P PROVE k \in P
    <3>1. CASE k = 1
      <4>1. Quarter(0, m) \in V
        BY QuarterMoves
      <4> QED BY <1>5, <3>1, <4>1
    <3>2. CASE k # 1
      <4>1. ps[k] = Quarter(ps[k-1], m) /\ ps[k-1] \in V
        BY <1>5, <2>2, <3>2
      <4> QED BY <4>1, QuarterMoves
    <3> QED BY <3>1, <3>2
  <2> HIDE DEF P
  <2>3. P = 0..n
    BY <2>1, <2>2, UptoInduction
  <2> QED BY <2>3 DEF P
<1>8. \A k \in 2..n : ps[k-1] <= ps[k] /\ (ps[k] = ps[k-1] => ps[k] = m - 3)
  <2> SUFFICES ASSUME NEW k \in 2..n
               PROVE  ps[k-1] <= ps[k] /\ (ps[k] = ps[k-1] => ps[k] = m - 3)
    OBVIOUS
  <2>1. ps[k-1] \in V /\ ps[k] = Quarter(ps[k-1], m)
    BY <1>5, <1>7
  <2> QED BY <2>1, QuarterMoves
<1>9. ASSUME NEW u \in 1..n, NEW v \in u..n PROVE ps[u] <= ps[v]
  <2> DEFINE P == {d \in 0..(n - u) : ps[u] <= ps[u + d]}
  <2>1. 0 \in P /\ P \in SUBSET (0..(n - u)) /\ n - u \in Nat
    BY <1>7
  <2>2. ASSUME NEW d \in 1..(n - u), d - 1 \in P PROVE d \in P
    <3>1. u + d \in 2..n /\ (u + d) - 1 = u + (d - 1) /\ u + (d - 1) \in 1..n
      OBVIOUS
    <3>2. /\ ps[u] <= ps[u + (d-1)] /\ ps[u + (d-1)] <= ps[u + d]
          /\ ps[u] \in Nat /\ ps[u + (d-1)] \in Nat /\ ps[u + d] \in Nat
      BY <1>7, <1>8, <2>2, <3>1
    <3> QED BY <3>2
  <2> HIDE DEF P
  <2>3. P = 0..(n - u)
    BY <2>1, <2>2, UptoInduction
  <2>4. v - u \in P /\ u + (v - u) = v
    BY <2>3
  <2> QED BY <2>4 DEF P
<1>10. ASSUME NEW u \in 1..n, NEW v \in 1..n, u < v, ps[u] = ps[v]
       PROVE  ps[u] = m - 3
  <2>1. u + 1 \in 2..n /\ v \in (u+1)..n /\ (u + 1) - 1 = u /\ u + 1 \in u..n
        /\ u + 1 \in 1..n
    BY <1>10
  <2>2. ps[u] <= ps[u+1] /\ ps[u+1] <= ps[v]
    BY <1>9, <2>1
  <2>3. ps[u] \in Nat /\ ps[u+1] \in Nat /\ ps[v] \in Nat
    BY <1>7, <2>1
  <2>4. ps[u+1] = ps[u]
    BY <1>10, <2>2, <2>3
  <2> QED BY <1>8, <2>1, <2>4
<1>11. ps \in Seq(0..m) /\ Len(ps) = n
  <2>1. \A k \in 1..n : ps[k] \in 0..m
    BY <1>7
  <2>2. ps \in [1..n -> 0..m]
    BY <1>6, <2>1
  <2> QED BY <2>2
<1> QED BY <1>7, <1>10, <1>11 DEF UnevenlyPlaced, ps

\* Sorting keeps how often each position occurs.
LEMMA InOrderCounts ==
  ASSUME NEW m \in Nat, NEW s \in Seq(0..m), NEW p \in 0..m
  PROVE  Cardinality({i \in DOMAIN InOrder(s) : InOrder(s)[i] = p})
           = Cardinality({i \in DOMAIN s : s[i] = p})
<1> DEFINE t == InOrder(s)
           low == Below(s, p)
           high == Below(s, p + 1)
           A == {j \in DOMAIN s : s[j] < p}
           B == {j \in DOMAIN s : s[j] = p}
<1>0. /\ s \in Seq(Nat) /\ Len(s) \in Nat /\ p \in Nat /\ p + 1 \in Nat
      /\ \A j \in DOMAIN s : s[j] \in Nat
  OBVIOUS
<1>1. /\ DOMAIN t = 1..Len(s)
      /\ \A i \in 1..Len(s) : /\ t[i] \in 0..m
                              /\ Below(s, t[i]) < i /\ i <= Below(s, t[i] + 1)
  BY InOrderRanks
<1>2. /\ low \in Nat /\ high \in Nat /\ low <= high /\ high <= Len(s)
      /\ IsFiniteSet(A)
  <2>1. low \in Nat /\ IsFiniteSet(A)
    BY <1>0, BelowNat
  <2>2. high \in Nat /\ high <= Len(s)
    BY <1>0, BelowNat
  <2>3. p <= p + 1
    BY <1>0
  <2>4. low <= high
    BY <1>0, <2>3, BelowMonotone
  <2> QED BY <2>1, <2>2, <2>4
<1>3. high = low + Cardinality(B) /\ Cardinality(B) \in Nat
  <2>1. {j \in DOMAIN s : s[j] < p + 1} = A \cup B /\ A \cap B = {}
    BY <1>0
  <2>2. IsFiniteSet({j \in DOMAIN s : s[j] < p + 1})
    BY <1>0, BelowNat
  <2> HIDE DEF A, B
  <2>3. IsFiniteSet(A) /\ IsFiniteSet(B)
    BY <2>1, <2>2, FS_Subset
  <2>4. /\ Cardinality(A \cup B)
             = Cardinality(A) + Cardinality(B) - Cardinality(A \cap B)
        /\ Cardinality(A \cap B) = 0
        /\ Cardinality(A) \in Nat /\ Cardinality(B) \in Nat
    BY <2>1, <2>3, FS_Union, FS_EmptySet, FS_CardinalityType
  <2>5. high = Cardinality(A \cup B) /\ low = Cardinality(A)
    BY <2>1 DEF Below, A
  <2> QED BY <2>4, <2>5
<1> HIDE DEF t
<1>4. {i \in DOMAIN t : t[i] = p} = (low + 1)..high
  <2>1. ASSUME NEW i \in DOMAIN t, t[i] = p PROVE i \in (low + 1)..high
    BY <1>1, <1>2, <2>1
  <2>2. ASSUME NEW i \in (low + 1)..high PROVE i \in DOMAIN t /\ t[i] = p
    <3> HIDE DEF low, high
    <3>1. i \in 1..Len(s) /\ low < i /\ i <= high
      BY <1>0, <1>2
    <3>2. t[i] \in Nat /\ t[i] + 1 \in Nat
          /\ Below(s, t[i]) < i /\ i <= Below(s, t[i] + 1)
      BY <1>1, <3>1
    <3>3. Below(s, t[i]) \in Nat /\ Below(s, t[i] + 1) \in Nat
      BY <1>0, <3>2, BelowNat
    <3>4. ~(t[i] < p)
      <4> SUFFICES ASSUME t[i] < p PROVE FALSE
        OBVIOUS
      <4>1. t[i] + 1 <= p
        BY <1>0, <3>2
      <4>2. Below(s, t[i] + 1) <= low
        BY <1>0, <3>2, <4>1, BelowMonotone DEF low
      <4> QED BY <1>2, <3>1, <3>2, <3>3, <4>2
    <3>5. ~(p < t[i])
      <4> SUFFICES ASSUME p < t[i] PROVE FALSE
        OBVIOUS
      <4>1. p + 1 <= t[i]
        BY <1>0, <3>2
      <4>2. high <= Below(s, t[i])
        BY <1>0, <3>2, <4>1, BelowMonotone DEF high
      <4> QED BY <1>2, <3>1, <3>2, <3>3, <4>2
    <3> QED BY <1>0, <1>1, <3>1, <3>2, <3>4, <3>5
  <2> QED BY <2>1, <2>2
<1> HIDE DEF low, high, B
<1>5. Cardinality((low + 1)..high) = Cardinality(B)
  <2>1. low + 1 \in Int /\ high \in Int
    BY <1>2
  <2>2. Cardinality((low + 1)..high)
          = IF low + 1 > high THEN 0 ELSE high - (low + 1) + 1
    BY <2>1, FS_Interval
  <2> QED BY <1>2, <1>3, <2>2
<1> QED BY <1>4, <1>5 DEF t, B

\* The server that owns a position, with n virtual nodes dealt to each of k.
OwnerAt(ps, n, k, p) ==
  LET assigned == {u \in DOMAIN ps : ps[u] = p /\ u <= n * k}
  IN  IF assigned = {} THEN 0 ELSE (Max(assigned) - 1) \div n

\* The uids of server k.
Hand(n, k) == (1 + k * n)..((1 + k * n) + n - 1)

\* The positions of the virtual nodes dealt to server k.
DealtPositions(ps, n, k) == {ps[u] : u \in Hand(n, k)}

\* A uid tells whom it is dealt to.
LEMMA DealtTo ==
  ASSUME NEW n \in Nat \ {0}, NEW k \in 0..3, NEW u \in Hand(n, k)
  PROVE  (u - 1) \div n = k
<1> DEFINE q == (u - 1) \div n
<1>1. u - 1 \in Nat /\ n * k <= u - 1 /\ u - 1 < n * k + n
  <2>1. CASE k = 0
    BY <2>1 DEF Hand
  <2>2. CASE k = 1
    BY <2>2 DEF Hand
  <2>3. CASE k = 2
    BY <2>3 DEF Hand
  <2>4. CASE k = 3
    BY <2>4 DEF Hand
  <2> QED BY <2>1, <2>2, <2>3, <2>4
<1>2. q \in Int /\ n * q <= u - 1 /\ u - 1 < n * q + n
  <2> DEFINE a == u - 1
  <2>1. a \in Nat /\ n \in Int /\ n > 0
    BY <1>1
  <2> HIDE DEF a
  <2>2. a \div n \in Int /\ n * (a \div n) <= a /\ a < n * (a \div n) + n
    BY <2>1
  <2> QED BY <2>2 DEF a
<1> HIDE DEF q
<1>3. n * q < n * (k + 1) /\ n * k < n * (q + 1)
  <2>1. n * (k + 1) = n * k + n /\ n * (q + 1) = n * q + n
    BY <1>2
  <2>2. n * q \in Int /\ n * k \in Int /\ u - 1 \in Int
    BY <1>1, <1>2
  <2> QED BY <1>1, <1>2, <2>1, <2>2
<1>4. \A a, b \in Int : n * a < n * b => a < b
  OBVIOUS
<1>5. q < k + 1 /\ k < q + 1
  BY <1>2, <1>3, <1>4
<1>6. q \in Int
  BY <1>2
<1>7. q = k
  BY <1>5, <1>6
<1> QED BY <1>7 DEF q

\* The uids dealt so far are those dealt before, and the hand of the last.
LEMMA OneMoreHand ==
  ASSUME NEW n \in Nat \ {0}, NEW k \in 0..3, NEW u \in Nat \ {0}
  PROVE  /\ u <= n * (k + 1) <=> u <= n * k \/ u \in Hand(n, k)
         /\ ~(u <= n * k /\ u \in Hand(n, k))
         /\ u \in Hand(n, k) => u <= 4 * n
<1>1. CASE k = 0
  BY <1>1 DEF Hand
<1>2. CASE k = 1
  BY <1>2 DEF Hand
<1>3. CASE k = 2
  BY <1>3 DEF Hand
<1>4. CASE k = 3
  BY <1>4 DEF Hand
<1> QED BY <1>1, <1>2, <1>3, <1>4

\* Dealing the next hand changes the owner where its virtual nodes are, and
\* only there.
LEMMA OwnerMoves ==
  ASSUME NEW n \in Nat \ {0}, NEW k \in 0..3,
         NEW ps, ps \in Seq(Nat), Len(ps) = 4 * n, NEW p
  PROVE  /\ p \in DealtPositions(ps, n, k) => OwnerAt(ps, n, k + 1, p) = k
         /\ p \notin DealtPositions(ps, n, k) =>
              OwnerAt(ps, n, k + 1, p) = OwnerAt(ps, n, k, p)
<1> DEFINE now == {u \in DOMAIN ps : ps[u] = p /\ u <= n * k}
           new == {u \in DOMAIN ps : ps[u] = p /\ u <= n * (k + 1)}
<1>0. DOMAIN ps = 1..(4 * n) /\ 4 * n \in Nat
  OBVIOUS
<1>1. \A u \in DOMAIN ps :
        /\ u <= n * (k + 1) <=> u <= n * k \/ u \in Hand(n, k)
        /\ ~(u <= n * k /\ u \in Hand(n, k))
  <2>1. \A u \in DOMAIN ps : u \in Nat \ {0}
    BY <1>0
  <2> QED BY <2>1, OneMoreHand
<1>2. CASE p \in DealtPositions(ps, n, k)
  <2>1. PICK u \in Hand(n, k) : ps[u] = p
    BY <1>2 DEF DealtPositions
  <2>2. u \in DOMAIN ps
    <3>1. u \in Nat \ {0}
      <4>1. k * n \in Nat
        OBVIOUS
      <4> QED BY <4>1 DEF Hand
    <3>2. u <= 4 * n
      BY <3>1, OneMoreHand
    <3> QED BY <1>0, <3>1, <3>2
  <2>3. u \in new
    BY <1>1, <2>1, <2>2
  <2>4. Max(new) \in new /\ u <= Max(new)
    <3>1. new \in SUBSET Nat /\ \A v \in new : v <= 4 * n
      BY <1>0
    <3> HIDE DEF new
    <3> QED BY <1>0, <2>3, <3>1, MaxGreatest
  <2>5. Max(new) \in Hand(n, k)
    <3> DEFINE v == Max(new)
    <3>1. v \in DOMAIN ps /\ u <= v /\ (v <= n * k \/ v \in Hand(n, k))
      BY <1>1, <2>4
    <3> HIDE DEF v
    <3>2. ~(u <= n * k) /\ n * k \in Nat /\ u \in Nat /\ v \in Nat
      BY <1>0, <1>1, <2>1, <2>2, <3>1
    <3>3. v \in Hand(n, k)
      BY <3>1, <3>2
    <3> QED BY <3>3 DEF v
  <2>6. (Max(new) - 1) \div n = k
    BY <2>5, DealtTo
  <2> QED BY <1>2, <2>3, <2>6 DEF OwnerAt
<1>3. CASE p \notin DealtPositions(ps, n, k)
  <2>1. new = now
    BY <1>1, <1>3 DEF DealtPositions
  <2>2. OwnerAt(ps, n, k + 1, p) = OwnerAt(ps, n, k, p)
    BY <2>1 DEF OwnerAt
  <2> QED BY <1>3, <2>2
<1> QED BY <1>2, <1>3

\* CHUE's ring as its servers are assigned: its positions are ps, in order in
\* the list, and each is owned as dealt.
DealtRing(r, ps, n, m) ==
  /\ r.uidHash = ps /\ r.list = InOrder(ps)
  /\ DOMAIN r.owner = ToSet(ps)
  /\ \A p \in ToSet(ps) : /\ r.owner[p] = OwnerAt(ps, n, r.realNodes, p)
                          /\ r.owner[p] \in 0..3
  /\ r.realNodes \in 0..4
  /\ n \in Nat \ {0} /\ m \in Nat /\ m >= 3 /\ UnevenlyPlaced(ps, 4 * n, m)

\* What initial_virtual_node() makes of an empty ring.
LEMMA PlacedRing ==
  ASSUME NEW n \in Nat \ {0}, NEW m \in Nat, m >= 3,
         NEW q, q = InitialVirtualNode(4 * n, m)
  PROVE  IsRing(q) /\ DealtRing(q, UnevenPositions(4 * n, m), n, m)
<1> DEFINE ps == UnevenPositions(4 * n, m)
<1>1. UnevenlyPlaced(ps, 4 * n, m)
  BY UnevenPlaces
<1>2. q = [list |-> WithPositions(<<>>, ps), owner |-> Put(<<>>, ToSet(ps), 0),
           uidHash |-> ps, realNodes |-> 0, fileVnode |-> <<>>,
           fileRnode |-> <<>>]
  BY DEF InitialVirtualNode, NewRing
<1> HIDE DEF ps
<1>3. ps \in Seq(0..m) /\ DOMAIN ps = 1..(4 * n)
  BY <1>1 DEF UnevenlyPlaced
<1>4. WithPositions(<<>>, ps) = InOrder(ps)
  <2>1. <<>> \o ps = ps
    BY <1>3
  <2> QED BY <2>1 DEF WithPositions
<1>5. /\ DOMAIN q.owner = ToSet(ps)
      /\ \A p \in ToSet(ps) : q.owner[p] = 0
  BY <1>2 DEF Put
<1>6. ASSUME NEW p PROVE OwnerAt(ps, n, 0, p) = 0
  <2>1. {u \in DOMAIN ps : ps[u] = p /\ u <= n * 0} = {}
    BY <1>3
  <2> QED BY <2>1 DEF OwnerAt
<1> QED BY <1>1, <1>2, <1>4, <1>5, <1>6 DEF IsRing, DealtRing, ps

\* What add_real_node_assign() makes of it.
LEMMA AssignedRing ==
  ASSUME NEW r, IsRing(r), NEW ps, NEW n, NEW m, DealtRing(r, ps, n, m),
         r.realNodes < 4,
         NEW q, q = AddRealNodeAssign(r, n, 1 + r.realNodes * n)
  PROVE  IsRing(q) /\ DealtRing(q, ps, n, m) /\ q.realNodes = r.realNodes + 1
         /\ q.fileRnode = r.fileRnode
<1> DEFINE k == r.realNodes
           dealt == DealtPositions(ps, n, k)
           own == Put(r.owner, dealt, k)
<1>1. /\ k \in 0..3 /\ n \in Nat \ {0} /\ ps \in Seq(0..m)
      /\ Len(ps) = 4 * n /\ ps \in Seq(Nat) /\ DOMAIN ps = 1..(4 * n)
      /\ m \in Nat
  BY DEF DealtRing, UnevenlyPlaced
<1>2. q = [r EXCEPT !.owner = own, !.realNodes = k + 1]
  BY DEF AddRealNodeAssign, DealtRing, Hand, DealtPositions
<1>3. dealt \subseteq ToSet(ps)
  <2> SUFFICES ASSUME NEW u \in Hand(n, k) PROVE u \in DOMAIN ps
    BY DEF ToSet, DealtPositions
  <2>1. u \in Nat \ {0}
    <3>1. k * n \in Nat
      BY <1>1
    <3> QED BY <1>1, <3>1 DEF Hand
  <2> HIDE DEF k
  <2>2. u <= 4 * n
    BY <1>1, <2>1, OneMoreHand
  <2> QED BY <1>1, <2>1, <2>2
<1> HIDE DEF k, dealt, own
<1>4. q = [list |-> r.list, uidHash |-> r.uidHash, owner |-> own,
           realNodes |-> k + 1, fileVnode |-> r.fileVnode,
           fileRnode |-> r.fileRnode]
  BY <1>2 DEF IsRing
<1>5. DOMAIN own = ToSet(ps)
  BY <1>3 DEF own, Put, DealtRing
<1>6. ASSUME NEW p \in ToSet(ps)
      PROVE  own[p] = OwnerAt(ps, n, k + 1, p) /\ own[p] \in 0..3
  <2>1. r.owner[p] = OwnerAt(ps, n, k, p) /\ r.owner[p] \in 0..3
        /\ DOMAIN r.owner = ToSet(ps)
    BY DEF DealtRing, k
  <2>2. own[p] = IF p \in dealt THEN k ELSE r.owner[p]
    BY <1>3, <2>1 DEF own, Put
  <2>3. /\ p \in dealt => OwnerAt(ps, n, k + 1, p) = k
        /\ p \notin dealt => OwnerAt(ps, n, k + 1, p) = OwnerAt(ps, n, k, p)
    BY <1>1, OwnerMoves DEF dealt
  <2> QED BY <1>1, <2>1, <2>2, <2>3
<1>7. k + 1 \in 0..4
  BY <1>1
<1>8. IsRing(q)
  BY <1>4 DEF IsRing
<1>9. DealtRing(q, ps, n, m)
  BY <1>4, <1>5, <1>6, <1>7 DEF DealtRing
<1> QED BY <1>4, <1>8, <1>9 DEF k

\* Such a ring is as uneven as it should be.
LEMMA DealtIsUneven ==
  ASSUME NEW r, NEW ps, NEW n, NEW m, DealtRing(r, ps, n, m)
  PROVE  UnevenRingOf(r, n, m) /\ r.list \in Seq(0..m)
<1>1. /\ ps \in Seq(0..m) /\ m \in Nat /\ DOMAIN ps = 1..(4 * n)
      /\ r.uidHash = ps /\ r.list = InOrder(ps) /\ DOMAIN r.owner = ToSet(ps)
      /\ n \in Nat
  BY DEF DealtRing, UnevenlyPlaced
<1>2. Sorted(r.list) /\ ToSet(r.list) = ToSet(ps) /\ r.list \in Seq(0..m)
  BY <1>1, InOrderSorts
<1>3. ASSUME NEW p \in DOMAIN r.owner
      PROVE  LET uids     == {u \in DOMAIN r.uidHash : r.uidHash[u] = p}
                 assigned == {u \in uids : u <= n * r.realNodes}
             IN  /\ Cardinality({i \in DOMAIN r.list : r.list[i] = p})
                      = Cardinality(uids)
                 /\ Cardinality(uids) > 1 => p = m - 3
                 /\ r.owner[p] = IF assigned = {} THEN 0
                                 ELSE (Max(assigned) - 1) \div n
  <2> DEFINE uids == {u \in DOMAIN ps : ps[u] = p}
             assigned == {u \in uids : u <= n * r.realNodes}
  <2>1. p \in 0..m
    BY <1>1 DEF ToSet
  <2>2. Cardinality({i \in DOMAIN r.list : r.list[i] = p}) = Cardinality(uids)
    <3>1. Cardinality({i \in DOMAIN InOrder(ps) : InOrder(ps)[i] = p})
            = Cardinality({u \in DOMAIN ps : ps[u] = p})
      BY <1>1, <2>1, InOrderCounts
    <3> QED BY <1>1, <3>1
  <2>3. ASSUME Cardinality(uids) > 1 PROVE p = m - 3
    <3>1. PICK u \in uids : TRUE
      <4>1. uids # {}
        BY <2>3, FS_EmptySet
      <4> QED BY <4>1
    <3>2. uids # {u}
      <4>1. Cardinality({u}) = 1
        BY FS_Singleton
      <4>2. ~(1 > 1)
        OBVIOUS
      <4> HIDE DEF uids
      <4> QED BY <2>3, <4>1, <4>2
    <3>3. PICK v \in uids : v # u
      BY <3>1, <3>2
    <3>4. u < v \/ v < u
      BY <1>1, <3>1, <3>3
    <3>5. \A x, y \in 1..(4 * n) : x < y /\ ps[x] = ps[y] => ps[x] = m - 3
      BY DEF DealtRing, UnevenlyPlaced
    <3> QED BY <1>1, <3>1, <3>3, <3>4, <3>5
  <2>4. r.owner[p] = IF assigned = {} THEN 0 ELSE (Max(assigned) - 1) \div n
    <3>1. assigned = {u \in DOMAIN ps : ps[u] = p /\ u <= n * r.realNodes}
      OBVIOUS
    <3>2. r.owner[p] = OwnerAt(ps, n, r.realNodes, p)
      BY <1>1 DEF DealtRing
    <3> HIDE DEF assigned
    <3> QED BY <3>1, <3>2 DEF OwnerAt
  <2> HIDE DEF uids
  <2> QED BY <1>1, <2>2, <2>3, <2>4 DEF uids
<1> HIDE DEF UnevenRingOf
<1> QED BY <1>1, <1>2, <1>3 DEF UnevenRingOf

----------------------------------------------------------------------------
(***************************************************************************)
(* The rings of init_mapper().                                             *)
(***************************************************************************)

\* A ring with k virtual nodes for each of its real nodes, on these hashes.
Ring(r, k, m, hashes) ==
  /\ RingInv(r, k, m)
  /\ Len(r.list) = r.realNodes * k
  /\ DOMAIN r.owner \subseteq hashes

\* The records the rings of the loop are among.
RingRecords(m, hashes) ==
  [list : Seq(0..m), owner : UNION {[D -> Nat] : D \in SUBSET hashes},
   uidHash : {<<>>}, realNodes : Nat, fileVnode : {<<>>}, fileRnode : {<<>>}]

\* The ring before the first real node is one.
LEMMA NewRingOne ==
  ASSUME NEW k \in Nat, NEW m \in Nat, NEW hashes \in SUBSET (0..m)
  PROVE  NewRing \in RingRecords(m, hashes) /\ Ring(NewRing, k, m, hashes)
         /\ NewRing.realNodes = 0
<1>1. <<>> \in Seq(0..m) /\ Len(<<>>) = 0 /\ DOMAIN (<<>>) = {}
  OBVIOUS
<1>2. <<>> \in [{} -> Nat]
  OBVIOUS
<1>3. <<>> \in UNION {[D -> Nat] : D \in SUBSET hashes}
  BY <1>2
<1>4. NewRing \in RingRecords(m, hashes)
  BY <1>1, <1>3 DEF NewRing, RingRecords
<1>5. /\ NewRing.realNodes = 0 /\ NewRing.list = <<>> /\ NewRing.owner = <<>>
  BY DEF NewRing
<1>6. 0 * k = 0
  OBVIOUS
<1> QED BY <1>1, <1>4, <1>5, <1>6, NewRingInv DEF Ring

\* Each real node is added to the records, with k virtual nodes of its own.
LEMMA AddRealNodeOne ==
  ASSUME NEW k \in Nat, NEW m \in Nat, NEW hashes \in SUBSET (0..m),
         NEW r \in RingRecords(m, hashes), Ring(r, k, m, hashes),
         NEW ps \in FreePositions(r, k, hashes)
  PROVE  /\ AddRealNode(r, ps) \in RingRecords(m, hashes)
         /\ Ring(AddRealNode(r, ps), k, m, hashes)
         /\ AddRealNode(r, ps).realNodes = r.realNodes + 1
<1> DEFINE own == Put(r.owner, ToSet(ps), r.realNodes)
           lst == WithPositions(r.list, ps)
           new == AddRealNode(r, ps)
<1>1. /\ r.realNodes \in Nat /\ r.list \in Seq(0..m)
      /\ r.owner \in UNION {[D -> Nat] : D \in SUBSET hashes}
  BY DEF RingRecords
<1>2. IsRing(r) /\ r.uidHash = <<>> /\ r.fileVnode = <<>> /\ r.fileRnode = <<>>
  BY DEF RingRecords, IsRing
<1>3. /\ new.realNodes = r.realNodes + 1 /\ new.owner = own /\ new.list = lst
      /\ IsRing(new)
      /\ new.uidHash = <<>> /\ new.fileVnode = <<>> /\ new.fileRnode = <<>>
  BY <1>2, AddRealNodeFields
<1> HIDE DEF new
<1>4. RingInv(new, k, m)
  BY <1>3, AddRealNodeInv DEF Ring
<1>5. ps \in [1..k -> hashes \ DOMAIN r.owner] /\ ToSet(ps) \subseteq hashes
  BY DEF FreePositions, ToSet
<1>6. own \in [DOMAIN r.owner \cup ToSet(ps) -> Nat]
  <2>1. \A p \in DOMAIN r.owner : r.owner[p] \in Nat
    BY <1>1
  <2> QED BY <1>1, <2>1 DEF Put
<1> HIDE DEF own
<1>7. DOMAIN own \subseteq hashes /\ DOMAIN own = DOMAIN r.owner \cup ToSet(ps)
  BY <1>5, <1>6 DEF Ring
<1>8. own \in UNION {[D -> Nat] : D \in SUBSET hashes}
  BY <1>6, <1>7
<1>9. lst \in Seq(0..m) /\ Len(lst) = r.realNodes * k + k
  <2>1. lst \in Seq(0..m)
    BY <1>3, <1>4 DEF RingInv
  <2>2. r.list \in Seq(0..m) /\ ps \in [1..k -> 0..m]
    BY <1>1, <1>5
  <2>3. Len(lst) = Len(r.list) + k
    BY <2>1, <2>2, WithPositionsLength
  <2> QED BY <2>1, <2>3 DEF Ring
<1>10. (r.realNodes + 1) * k = r.realNodes * k + k
  BY <1>1
<1>11. new \in RingRecords(m, hashes)
  BY <1>1, <1>3, <1>8, <1>9 DEF RingRecords, IsRing
<1> QED BY <1>3, <1>4, <1>7, <1>9, <1>10, <1>11 DEF Ring, new

\* Whatever positions the loop of init_mapper() finds, it ends with a ring of n
\* real nodes and k virtual nodes for each.
LEMMA RingsBuilt ==
  ASSUME NEW n \in Nat, NEW k \in Nat, NEW m \in Nat,
         NEW hashes \in SUBSET (0..m), NEW ring \in Rings(n, k, hashes)
  PROVE  /\ Ring(ring, k, m, hashes) /\ ring.realNodes = n
         /\ ring \in RingRecords(m, hashes)
<1> DEFINE R == {r \in RingRecords(m, hashes) : Ring(r, k, m, hashes)}
           Added(rs) == UNION {{AddRealNode(r, ps) :
                                  ps \in FreePositions(r, k, hashes)} : r \in rs}
           Loop(f) == [i \in 0..n |-> IF i = 0 THEN {NewRing} ELSE Added(f[i-1])]
           built == CHOOSE f : f = Loop(f)
           step == [i \in 1..n |-> [rs \in SUBSET R |-> Added(rs)]]
<1>0. Rings(n, k, hashes) = built[n]
  BY DEF Rings
<1>1. /\ {NewRing} \in SUBSET R
      /\ \A rs \in SUBSET R : Added(rs) \in SUBSET R
  <2>1. {NewRing} \in SUBSET R
    BY NewRingOne
  <2>2. \A r \in R : \A ps \in FreePositions(r, k, hashes) :
          AddRealNode(r, ps) \in R
    BY AddRealNodeOne
  <2> HIDE DEF R
  <2> QED BY <2>1, <2>2
<1>2. step \in [1..n -> [SUBSET R -> SUBSET R]]
  <2> HIDE DEF R, Added
  <2> QED BY <1>1
<1>3. PICK f : IsRecursion(f, n, SUBSET R, {NewRing}, step)
  <2> HIDE DEF R, step
  <2> QED BY <1>1, <1>2, RecursionExists
<1>4. /\ f \in [0..n -> SUBSET R] /\ f[0] = {NewRing}
      /\ \A i \in 1..n : f[i] = step[i][f[i-1]]
  BY <1>3 DEF IsRecursion
<1>5. \A i \in 1..n : f[i-1] \in SUBSET R /\ f[i] = Added(f[i-1])
  <2> HIDE DEF R, Added
  <2>1. \A i \in 1..n : f[i-1] \in SUBSET R
    BY <1>4
  <2> QED BY <1>4, <2>1
<1>6. f = Loop(f)
  <2> HIDE DEF R, Added
  <2> SUFFICES ASSUME NEW i \in 0..n PROVE f[i] = Loop(f)[i]
    BY <1>4
  <2>1. CASE i = 0
    BY <1>4, <2>1
  <2>2. CASE i \in 1..n
    BY <1>5, <2>2
  <2> QED BY <2>1, <2>2
<1>7. built = Loop(built)
  <2> HIDE DEF Loop
  <2> QED BY <1>6
<1> HIDE DEF built
<1> DEFINE P == {i \in 0..n : \A r \in built[i] : r \in R /\ r.realNodes = i}
<1>8. P = 0..n
  <2>1. 0 \in P
    <3>1. built[0] = {NewRing}
      BY <1>7
    <3> QED BY <1>1, <3>1, NewRingOne
  <2>2. ASSUME NEW i \in 1..n, i - 1 \in P PROVE i \in P
    <3>1. built[i] = Added(built[i-1])
      BY <1>7
    <3>2. ASSUME NEW q \in built[i] PROVE q \in R /\ q.realNodes = i
      <4>1. PICK r \in built[i-1] : \E ps \in FreePositions(r, k, hashes) :
              q = AddRealNode(r, ps)
        BY <3>1, <3>2
      <4>2. r \in R /\ r.realNodes = i - 1
        BY <2>2, <4>1
      <4>3. q \in R /\ q.realNodes = r.realNodes + 1
        BY <4>1, <4>2, AddRealNodeOne
      <4> QED BY <4>2, <4>3
    <3> QED BY <3>2
  <2>3. P \in SUBSET (0..n)
    OBVIOUS
  <2> HIDE DEF P
  <2> QED BY <2>1, <2>2, <2>3, UptoInduction
<1> QED BY <1>0, <1>8

\* Rings that agree on their nodes agree on where a file is served.
LEMMA ServedBySame ==
  ASSUME NEW q, NEW r, SameNodes(q, r), NEW h
  PROVE  CacheIndex(q, h) = CacheIndex(r, h)
<1>1. Nearest(q, h) = Nearest(r, h)
  BY DEF Nearest, SameNodes
<1>2. ServedAt(q, h) = ServedAt(r, h)
  BY <1>1 DEF ServedAt, SameNodes
<1> QED BY <1>2 DEF CacheIndex, SameNodes

----------------------------------------------------------------------------
(***************************************************************************)
(* The servers.  What one request does to the server it is sent to.        *)
(***************************************************************************)

\* A hit leaves the server with the objects it had.
LEMMA ServeHit ==
  ASSUME NEW c, CacheInv(c), NEW o \in Objects
  PROVE  /\ CacheInv(Lookup(c, o)) /\ Lookup(c, o).map = c.map
         /\ Lookup(c, o).uniqueFile = c.uniqueFile \cup {o.id}
         /\ Lookup(c, o).requestNum = c.requestNum + 1
BY LookupInv

\* A miss adds the object at most, and counts its file.
LEMMA ServeMiss ==
  ASSUME NEW c, CacheInv(c), NEW o \in Objects, o \notin c.map
  PROVE  /\ CacheInv(Admit(Lookup(c, o), o))
         /\ Admit(Lookup(c, o), o).map \subseteq c.map \cup {o}
         /\ Admit(Lookup(c, o), o).uniqueFile = c.uniqueFile \cup {o.id}
         /\ Admit(Lookup(c, o), o).requestNum = c.requestNum + 1
<1>1. /\ CacheInv(Lookup(c, o)) /\ Lookup(c, o).map = c.map
      /\ Lookup(c, o).requestNum = c.requestNum + 1
      /\ Lookup(c, o).uniqueFile = c.uniqueFile \cup {o.id}
  BY LookupInv
<1> DEFINE d == Lookup(c, o)
<1> HIDE DEF d
<1>2. /\ CacheInv(Admit(d, o)) /\ Admit(d, o).map \subseteq d.map \cup {o}
      /\ SameReport(d, Admit(d, o))
  <2>1. CacheInv(d) /\ o \notin d.map
    BY <1>1 DEF d
  <2> QED BY <2>1, AdmitInv
<1> QED BY <1>1, <1>2 DEF SameReport, d

\* A server starts empty, and has been asked for nothing.
LEMMA FreshServer ==
  ASSUME NEW cs \in Nat
  PROVE  /\ CacheInv(SetSize(NewCache, cs))
         /\ SetSize(NewCache, cs).map = {}
         /\ SetSize(NewCache, cs).uniqueFile = {}
         /\ SetSize(NewCache, cs).requestNum = 0
<1>1. Consistent(NewCache) /\ NewCache.map = {} /\ NewCache.uniqueFile = {}
      /\ NewCache.requestNum = 0
  BY NewCacheInv, CacheInvConsistent DEF NewCache
<1> QED BY <1>1, SetSizeInv DEF SameReport

----------------------------------------------------------------------------
(***************************************************************************)
(* The choice of the two servers.                                          *)
(***************************************************************************)

\* f is max_i, or min_i, after each round of its loop over 0..n.
MaxLoop(f, rank, n) ==
  /\ f \in [0..n -> 0..n] /\ f[0] = 0
  /\ \A i \in 1..n :
       f[i] = IF Above(rank[i], rank[f[i-1]]) THEN i ELSE f[i-1]

MinLoop(f, rank, n) ==
  /\ f \in [0..n -> 0..n] /\ f[0] = 0
  /\ \A i \in 1..n :
       f[i] = IF Above(rank[f[i-1]], rank[i]) THEN i ELSE f[i-1]

\* The loop for max_i computes such a function.
LEMMA MaxServerLoop ==
  ASSUME NEW n \in Nat, NEW rank, DOMAIN rank = 0..n
  PROVE  \E f : MaxLoop(f, rank, n) /\ MaxServer(rank) = f[n]
<1> DEFINE Loop(f) == [i \in DOMAIN rank |->
                         IF i = 0 THEN 0
                         ELSE IF Above(rank[i], rank[f[i-1]]) THEN i ELSE f[i-1]]
           max_i == CHOOSE f : f = Loop(f)
           step == [i \in 1..n |-> [j \in 0..n |->
                      IF Above(rank[i], rank[j]) THEN i ELSE j]]
<1>1. step \in [1..n -> [0..n -> 0..n]] /\ 0 \in 0..n
  OBVIOUS
<1>2. PICK f : IsRecursion(f, n, 0..n, 0, step)
  <2> HIDE DEF step
  <2> QED BY <1>1, RecursionExists
<1>3. f \in [0..n -> 0..n] /\ f[0] = 0 /\ \A i \in 1..n : f[i] = step[i][f[i-1]]
  BY <1>2 DEF IsRecursion
<1>4. \A i \in 1..n : f[i] = IF Above(rank[i], rank[f[i-1]]) THEN i ELSE f[i-1]
  <2>1. \A i \in 1..n : f[i-1] \in 0..n
    BY <1>3
  <2> QED BY <1>3, <2>1
<1>5. f = Loop(f)
  <2> SUFFICES ASSUME NEW i \in 0..n PROVE f[i] = Loop(f)[i]
    BY <1>3
  <2>1. CASE i = 0
    BY <1>3, <2>1
  <2>2. CASE i \in 1..n
    BY <1>4, <2>2
  <2> QED BY <2>1, <2>2
<1>6. max_i = Loop(max_i)
  BY <1>5
<1> HIDE DEF max_i
<1> DEFINE P == {i \in 0..n : max_i[i] \in 0..n}
<1>7. P = 0..n
  <2>1. 0 \in P
    BY <1>6
  <2>2. \A i \in 1..n : i - 1 \in P => i \in P
    BY <1>6
  <2>3. P \in SUBSET (0..n)
    OBVIOUS
  <2> HIDE DEF P
  <2> QED BY <2>1, <2>2, <2>3, UptoInduction
<1>8. MaxLoop(max_i, rank, n)
  <2>1. max_i \in [0..n -> 0..n]
    <3>1. DOMAIN max_i = 0..n /\ \A i \in 0..n : max_i[i] \in 0..n
      BY <1>6, <1>7
    <3>2. max_i = [i \in 0..n |-> max_i[i]]
      BY <1>6
    <3> QED BY <3>1, <3>2
  <2>2. max_i[0] = 0
    BY <1>6
  <2>3. \A i \in 1..n : max_i[i] = IF Above(rank[i], rank[max_i[i-1]]) THEN i ELSE max_i[i-1]
    BY <1>6
  <2> QED BY <2>1, <2>2, <2>3 DEF MaxLoop
<1>9. Cardinality(0..n) - 1 = n
  BY FS_Interval
<1>10. MaxServer(rank) = max_i[n]
  BY <1>9 DEF MaxServer, max_i
<1> QED BY <1>8, <1>10, Zenon

\* So does the loop for min_i.
LEMMA MinServerLoop ==
  ASSUME NEW n \in Nat, NEW rank, DOMAIN rank = 0..n
  PROVE  \E f : MinLoop(f, rank, n) /\ MinServer(rank) = f[n]
<1> DEFINE Loop(f) == [i \in DOMAIN rank |->
                         IF i = 0 THEN 0
                         ELSE IF Above(rank[f[i-1]], rank[i]) THEN i ELSE f[i-1]]
           min_i == CHOOSE f : f = Loop(f)
           step == [i \in 1..n |-> [j \in 0..n |->
                      IF Above(rank[j], rank[i]) THEN i ELSE j]]
<1>1. step \in [1..n -> [0..n -> 0..n]] /\ 0 \in 0..n
  OBVIOUS
<1>2. PICK f : IsRecursion(f, n, 0..n, 0, step)
  <2> HIDE DEF step
  <2> QED BY <1>1, RecursionExists
<1>3. f \in [0..n -> 0..n] /\ f[0] = 0 /\ \A i \in 1..n : f[i] = step[i][f[i-1]]
  BY <1>2 DEF IsRecursion
<1>4. \A i \in 1..n : f[i] = IF Above(rank[f[i-1]], rank[i]) THEN i ELSE f[i-1]
  <2>1. \A i \in 1..n : f[i-1] \in 0..n
    BY <1>3
  <2> QED BY <1>3, <2>1
<1>5. f = Loop(f)
  <2> SUFFICES ASSUME NEW i \in 0..n PROVE f[i] = Loop(f)[i]
    BY <1>3
  <2>1. CASE i = 0
    BY <1>3, <2>1
  <2>2. CASE i \in 1..n
    BY <1>4, <2>2
  <2> QED BY <2>1, <2>2
<1>6. min_i = Loop(min_i)
  BY <1>5
<1> HIDE DEF min_i
<1> DEFINE P == {i \in 0..n : min_i[i] \in 0..n}
<1>7. P = 0..n
  <2>1. 0 \in P
    BY <1>6
  <2>2. \A i \in 1..n : i - 1 \in P => i \in P
    BY <1>6
  <2>3. P \in SUBSET (0..n)
    OBVIOUS
  <2> HIDE DEF P
  <2> QED BY <2>1, <2>2, <2>3, UptoInduction
<1>8. MinLoop(min_i, rank, n)
  <2>1. min_i \in [0..n -> 0..n]
    <3>1. DOMAIN min_i = 0..n /\ \A i \in 0..n : min_i[i] \in 0..n
      BY <1>6, <1>7
    <3>2. min_i = [i \in 0..n |-> min_i[i]]
      BY <1>6
    <3> QED BY <3>1, <3>2
  <2>2. min_i[0] = 0
    BY <1>6
  <2>3. \A i \in 1..n : min_i[i] = IF Above(rank[min_i[i-1]], rank[i]) THEN i ELSE min_i[i-1]
    BY <1>6
  <2> QED BY <2>1, <2>2, <2>3 DEF MinLoop
<1>9. Cardinality(0..n) - 1 = n
  BY FS_Interval
<1>10. MinServer(rank) = min_i[n]
  BY <1>9 DEF MinServer, min_i
<1> QED BY <1>8, <1>10, Zenon

\* The loops end on one of the servers they have ranked.
LEMMA MaxServerRanked ==
  ASSUME NEW n \in Nat, NEW rank, DOMAIN rank = 0..n
  PROVE  MaxServer(rank) \in 0..n
<1>1. PICK f : MaxLoop(f, rank, n) /\ MaxServer(rank) = f[n]
  BY MaxServerLoop
<1> QED BY <1>1 DEF MaxLoop

LEMMA MinServerRanked ==
  ASSUME NEW n \in Nat, NEW rank, DOMAIN rank = 0..n
  PROVE  MinServer(rank) \in 0..n
<1>1. PICK f : MinLoop(f, rank, n) /\ MinServer(rank) = f[n]
  BY MinServerLoop
<1> QED BY <1>1 DEF MinLoop
=============================================================================
