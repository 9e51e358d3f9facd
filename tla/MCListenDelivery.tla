-------------------------- MODULE MCListenDelivery --------------------------
(* ListenDelivery for TLC: two requests that are told to the client and one *)
(* that is not, for two addresses.                                          *)
EXTENDS ListenDelivery, TLC
=============================================================================
