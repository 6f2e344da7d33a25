---------------------------- MODULE CleanedTraces ----------------------------
(***************************************************************************)
(* trace_clean and the simulator: what becomes of a trace that goes        *)
(* through the tool before it is simulated.                                *)
(***************************************************************************)
EXTENDS WebCacheSim, TraceClean

CONSTANT Thresholds   \* the threshold arguments of the tool to consider

ASSUME ThresholdsAssumption == Thresholds \subseteq Nat

\* A trace as trace_clean reads it: the requests of the simulator's history,
\* which has no times, at the times they were made.
Raw == [n \in DOMAIN trace |->
          [time |-> n, id |-> trace[n].id, size |-> trace[n].size]]

Requests(id) == {n \in DOMAIN Raw : Raw[n].id = id}

\* The requested files that trace_clean is said to delete: "threshold:
\* requests with a count of requests <= threshold are deleted"
\* (trace_clean/README.md:9).
Seldom(threshold) ==
  {id \in {Raw[n].id : n \in DOMAIN Raw} : Cardinality(Requests(id)) <= threshold}

\* trace_clean writes of every file the requests from the threshold-th on (the
\* first one only for a threshold of 0), in order and all of the size of the
\* file's first one, so that the simulator, which tells objects apart by id and
\* size, takes them for one object.  Against the README, from a threshold of 2
\* on, the files requested exactly threshold times are not deleted: each has
\* its last request left.  For thresholds of 0 and 1 the README is right.
CleanedTrace ==
  \A threshold \in Thresholds :
    LET cleaned == Cleaned(Raw, threshold)
    IN  /\ IsLeft(cleaned, Raw, threshold)
        /\ \A id \in Seldom(threshold) :
             (\E line \in Range(cleaned) : line.id = id)
               <=> threshold >= 2 /\ Cardinality(Requests(id)) = threshold
=============================================================================
