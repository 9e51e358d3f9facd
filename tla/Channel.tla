------------------------------- MODULE Channel -------------------------------
(***************************************************************************)
(* What one direction of a tunnel promises those who use it, whatever      *)
(* bytes and buffers are underneath: what is taken out of it is what was   *)
(* written, whole, each message once and in its order.  Nothing is taken   *)
(* back, and what is on its way may be lost from its end, with the tunnel. *)
(* Framing.tla implements three of them with the two streams of a tunnel;  *)
(* Invoker.tla takes its streams for such channels.                        *)
(***************************************************************************)
EXTENDS Naturals, Sequences

CONSTANT Messages

VARIABLES written,  \* the messages in the order of their writing
          taken     \* the messages that the reader has got

vars == <<written, taken>>

TypeOK == written \in Seq(Messages) /\ taken \in Seq(Messages)

Init == written = <<>> /\ taken = <<>>

Write(m) == written' = Append(written, m) /\ UNCHANGED taken

Take == /\ Len(taken) < Len(written)
        /\ taken' = Append(taken, written[Len(taken) + 1])
        /\ UNCHANGED written

Next == Take \/ \E m \in Messages : Write(m)

Spec == Init /\ [][Next]_vars
=============================================================================
