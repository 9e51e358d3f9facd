---------------------------- MODULE MCClientConn ----------------------------
(* ClientConn for TLC. *)
EXTENDS ClientConn, FiniteSets, TLC

CONSTANT FirstTunnel

\* The tunnels differ in nothing but their names.
Symmetry == Permutations(Tunnels)

\* No symmetry with liveness: two tunnels are dialed in a fixed order.
NamedInOrder ==
  keeper' = "handshake" => link'[FirstTunnel] # "unused"

\* What liveness has no use for: an ended process, which satisfies it, and so a
\* Kick and a refusal, which end the process or do nothing, and another process and
\* a late login, which can do nothing but have this one kicked.
StaysAlive == proc' = "running" /\ kick' = {} /\ ~other' /\ pending' = {} /\ ~unread'

\* A bound on what comes from outside in one history: a TargetOut, or another process
\* with the same client, or one login that outlives its tunnel, or refusals for records
\* that cannot be read.
OneFromOutside ==
  LET isLate == pending' # {} \/ late' IN
  /\ Cardinality(pending') <= 1 /\ (late' => pending' = {})
  /\ targets' > 0 => ~other' /\ ~isLate /\ ~unread'
  /\ other' => ~isLate /\ ~unread'
  /\ isLate => ~unread'

\* A bound: handlers of write errors that wait at the same time.
FewErrors == lateErrors' <= 1
=============================================================================
