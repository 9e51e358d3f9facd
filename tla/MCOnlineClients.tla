-------------------------- MODULE MCOnlineClients ---------------------------
(* Two nodes and two tunnels: every interleaving of two logins.            *)
EXTENDS OnlineClients, FiniteSets, TLC

CONSTANTS FirstTunnel, FirstNode

\* Liveness is checked without TLC's symmetry; this takes the part of it that
\* is sound for any property: the first tunnel accepted is called FirstTunnel
\* and its node FirstNode.
NamedInOrder ==
  \A i \in Tunnels :
    (stage'[i] # "unborn" /\ \A j \in Tunnels : stage[j] = "unborn") =>
       i = FirstTunnel /\ home'[i] = FirstNode

\* Bounds on what goes wrong at one time: one failure of etcd that leaves a trace, or
\* one login refused for a record that could not be read; or one tunnel with a
\* second login, which meets no failure but that it outlives the tunnel.
FewFaults ==
  LET refused == {i \in rejected' : token'[i]}
      twice   == {i \in Tunnels : issued'[i] > 1}
  IN /\ Cardinality(leftover') + Cardinality(unkept') + Cardinality(refused) <= 1
     /\ Cardinality(twice) <= 1
     /\ twice # {} => refused = {} /\ unkept' = {} /\ leftover' \subseteq twice
=============================================================================
