------------------------------ MODULE MCFraming ------------------------------
(* Framing for TLC: bytes of four values, lengths of two of them, a request *)
(* whose length takes both, and one that may be taken for a length.         *)
EXTENDS Framing

CONSTANTS r1, r2, r3

MCBody == r1 :> <<1, 0, 3, 0, 1>> @@ r2 :> <<2>> @@ r3 :> <<0, 1>>
MCIds == <<3, 1, 0, 2, 1, 2>>
MCRaw == [up |-> <<0, 1, 2>>, down |-> <<2, 0, 1>>]
=============================================================================
