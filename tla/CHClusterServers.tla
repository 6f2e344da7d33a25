-------------------------- MODULE CHClusterServers --------------------------
(***************************************************************************)
(* The servers of a consistent-hash cluster implement the stack model of   *)
(* an LRU cache, each on its own.                                          *)
(***************************************************************************)
EXTENDS CHCluster, StackModel

\* Each server is an LRU cache of the requests sent to it, as if it ran alone:
\* no request of another server's disturbs it.
ServersAreLRU ==
  /\ \A s \in Servers : served[s] = NewModel
  /\ [][\A s \in Servers :
          /\ UNCHANGED caches_list[s].size
          /\ \/ Serves(served[s], served'[s], caches_list[s].size, TRUE, TRUE)
             \/ UNCHANGED <<served[s], caches_list[s].list>>]_vars
=============================================================================
