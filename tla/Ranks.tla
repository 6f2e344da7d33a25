------------------------------- MODULE Ranks -------------------------------
(***************************************************************************)
(* The ranks update() gives the servers in Shuffler and ShufflerM          *)
(* (caches/cluster_variants.cpp), and the choice of max_i and min_i.       *)
(*                                                                         *)
(* rank[i] = miss_rate[i] * alpha + usage_ratio[i] * (1 - alpha) is a      *)
(* fraction over the number by which the misses are divided and over       *)
(* max_requests and 100, which are the same for all servers and left out.  *)
(* A rank over 0 is the NaN of 0/0, with which no comparison succeeds.     *)
(***************************************************************************)
EXTENDS Integers, FiniteSetsExt

\* alpha is in percent; n[i] has the requests and misses of server i, and
\* total[i] is what the misses are a part of.
RanksOf(n, total, alpha) ==
  LET max_requests == Max({n[j].requests : j \in DOMAIN n})
  IN  [i \in DOMAIN n |->
         [num |-> alpha * n[i].misses * max_requests
                    + (100 - alpha) * n[i].requests * total[i],
          den |-> total[i]]]

IsNaN(r) == r.den = 0

\* r > q
Above(r, q) == ~IsNaN(r) /\ ~IsNaN(q) /\ r.num * q.den > q.num * r.den

\* The loop that finds max_i: it starts at 0, and goes on to a rank that is
\* above the greatest so far; from a NaN it never does.
MaxServer(rank) ==
  LET max_i[i \in DOMAIN rank] ==
        IF i = 0 THEN 0
        ELSE IF Above(rank[i], rank[max_i[i-1]]) THEN i ELSE max_i[i-1]
  IN  max_i[Cardinality(DOMAIN rank) - 1]

MinServer(rank) ==
  LET min_i[i \in DOMAIN rank] ==
        IF i = 0 THEN 0
        ELSE IF Above(rank[min_i[i-1]], rank[i]) THEN i ELSE min_i[i-1]
  IN  min_i[Cardinality(DOMAIN rank) - 1]
=============================================================================
