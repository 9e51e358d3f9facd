----------------------------- MODULE MCInvoker ------------------------------
(* Invoker for TLC: two calls that overlap, the node's answers to them in  *)
(* either order, and every end of the tunnel.                              *)
EXTENDS Invoker, TLC
=============================================================================
