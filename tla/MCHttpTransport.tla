--------------------------- MODULE MCHttpTransport ---------------------------
(* HttpTransport for TLC: the requests differ in nothing but their names. *)
EXTENDS HttpTransport, TLC

CONSTANT FirstRequest

Symmetry == Permutations(Requests)

\* No symmetry with liveness: the requests come in a fixed order.
NamedInOrder ==
  \A r \in Requests : req'[r] # "idle" => req'[FirstRequest] # "idle"
=============================================================================
