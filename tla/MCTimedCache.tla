---------------------------- MODULE MCTimedCache ----------------------------
(* TimedCache for TLC: one key, which two items have one after the other.  *)
EXTENDS TimedCache, TLC
=============================================================================
