----------------------------- MODULE TraceClean -----------------------------
(***************************************************************************)
(* trace_clean(in_path, out_path, threshold) of trace_clean/trace_clean.   *)
(* cpp: the tool that prepares a trace for the simulator.  It gives every  *)
(* request of a file the size of the file's first one and leaves requests  *)
(* of seldom requested files out.  It reads lines of time, id and size and *)
(* writes lines of id and size, which is what the simulator reads.  Sizes  *)
(* are below 2^31 here: the tool keeps them in an int.                     *)
(***************************************************************************)
EXTENDS Integers, SequencesExt

\* counter and the file written, before the first line.
Opened == [counter |-> <<>>, output |-> <<>>]

\* A line of the file written: the time is dropped.
Written(line, size) == [id |-> line.id, size |-> size]

OnceSeenWithOwnSize(state, line, threshold) ==
  LET count == state.counter[line.id].count + 1
  IN  [counter |-> [state.counter EXCEPT ![line.id].count = count],
       output  |-> IF count >= threshold
                   THEN Append(state.output, Written(line, line.size))
                   ELSE state.output]

\* A line whose id is in counter.
OnceSeen(state, line, threshold) ==
  LET first == state.counter[line.id]
      count == first.count + 1
  IN  [counter |-> [state.counter EXCEPT ![line.id].count = count],
       output  |-> IF count >= threshold
                   THEN Append(state.output, Written(line, first.size))
                   ELSE state.output]

\* A line whose id is new.
FirstSeen(state, line, threshold) ==
  [counter |-> [id \in DOMAIN state.counter \cup {line.id} |->
                  IF id = line.id THEN [count |-> 1, size |-> line.size]
                  ELSE state.counter[id]],
   output  |-> IF threshold = 0
               THEN Append(state.output, Written(line, line.size))
               ELSE state.output]

\* The file the tool writes for a trace.
Cleaned(trace, threshold) ==
  LET after[k \in 0..Len(trace)] ==
        IF k = 0 THEN Opened
        ELSE IF trace[k].id \in DOMAIN after[k-1].counter
        THEN OnceSeen(after[k-1], trace[k], threshold)
        ELSE FirstSeen(after[k-1], trace[k], threshold)
  IN  after[Len(trace)].output

----------------------------------------------------------------------------
\* How many requests for its file there are up to the i-th request.
Rank(trace, i) == Cardinality({j \in 1..i : trace[j].id = trace[i].id})

FirstSize(trace, id) ==
  trace[CHOOSE i \in DOMAIN trace : trace[i].id = id /\ Rank(trace, i) = 1].size

\* What is left of a trace: all of it for a threshold of 0; else the requests
\* from a file's threshold-th on, without its first in any case.
Kept(trace, threshold) ==
  {i \in DOMAIN trace :
     threshold = 0 \/ (Rank(trace, i) >= 2 /\ Rank(trace, i) >= threshold)}

\* These requests in their order, each with the size of its file's first one.
IsLeft(cleaned, trace, threshold) ==
  LET kept == Kept(trace, threshold)
  IN  /\ Len(cleaned) = Cardinality(kept)
      /\ \A i \in kept :
           cleaned[Cardinality(kept \cap 1..i)]
             = Written(trace[i], FirstSize(trace, trace[i].id))
=============================================================================
