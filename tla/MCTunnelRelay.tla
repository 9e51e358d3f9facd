---------------------------- MODULE MCTunnelRelay ---------------------------
(* TunnelRelay for TLC: two relays that share the process of the target.   *)
EXTENDS TunnelRelay, TLC

CONSTANT Second   \* a relay of Conns

\* A bound: by itself nothing goes wrong with the second relay but the dial of its
\* target, and it comes to its end by reads.
SecondIsQuiet ==
  /\ ~Hangup(Second) /\ ~TunnelLost(Second)
  /\ \A d \in Directions : WriteFails(Second, d) => ReadEnds(Second, d)
  /\ built'[Second] = built[Second] \/ (\E x \in Conns : dial'[x] = "refused")
       \/ built'[Second] \notin {"unserved", "cut", "noTarget", "targetLost", "orphan"}
=============================================================================
