--------------------------- MODULE SessionRegistry ---------------------------
(***************************************************************************)
(* What the nodes promise of the sessions of the clients, whatever nodes,  *)
(* handlers and hooks are at work.  A client has at most one current       *)
(* session.  A login over a session whose client proved who it is makes it *)
(* current and replaces the one before; only a replaced session is kicked. *)
(* The current session is taken away when it has ended, by a session of    *)
(* the same client that ended while it was current, or by the loss of the  *)
(* record.  OnlineClients.tla implements this.                             *)
(***************************************************************************)
CONSTANTS Clients, Tunnels, NoTunnel, Nobody

VARIABLES
  owner,     \* owner[i]: the client that opened session i
  verified,  \* the sessions whose client has proved who it is
  ended,     \* the sessions that are over
  current,   \* current[c]: the current session of c
  replaced,  \* the sessions that were current when a login came
  kicked,    \* the sessions that were told to go
  leaving,   \* those that ended while current, and are about to take that away
  lost       \* the clients whose record may be lost since its last login

vars == <<owner, verified, ended, current, replaced, kicked, leaving, lost>>

Init ==
  /\ owner = [i \in Tunnels |-> Nobody]
  /\ verified = {} /\ ended = {}
  /\ current = [c \in Clients |-> NoTunnel]
  /\ replaced = {} /\ kicked = {} /\ leaving = {} /\ lost = {}

Open(i, c) ==
  /\ owner[i] = Nobody
  /\ owner' = [owner EXCEPT ![i] = c]
  /\ UNCHANGED <<verified, ended, current, replaced, kicked, leaving, lost>>

\* A session is verified while it lasts ...
Verify(i) ==
  /\ owner[i] # Nobody /\ i \notin ended
  /\ verified' = verified \cup {i}
  /\ UNCHANGED <<owner, ended, current, replaced, kicked, leaving, lost>>

\* ... and may become the current one even after it.
Login(i) ==
  LET c == owner[i] IN
  /\ i \in verified
  /\ current' = [current EXCEPT ![c] = i]
  /\ replaced' = replaced \cup ({current[c]} \ {NoTunnel})
  /\ lost' = lost \ {c}
  /\ UNCHANGED <<owner, verified, ended, kicked, leaving>>

Kick(i) ==
  /\ i \in replaced
  /\ kicked' = kicked \cup {i}
  /\ UNCHANGED <<owner, verified, ended, current, replaced, leaving, lost>>

\* Sessions end, one by itself or all those of a node; none comes back.
End(E) ==
  /\ \A i \in E : owner[i] # Nobody
  /\ ended' = ended \cup E
  /\ leaving' = leaving \ E
  /\ UNCHANGED <<owner, verified, current, replaced, kicked, lost>>

\* A session that has ended finds itself current ...
Leave(i) ==
  /\ i \in ended
  /\ current[owner[i]] = i
  /\ leaving' = leaving \cup {i}
  /\ UNCHANGED <<owner, verified, ended, current, replaced, kicked, lost>>

\* ... and then takes away whichever is current.
Remove(i) ==
  /\ i \in leaving
  /\ leaving' = leaving \ {i}
  /\ current' = [current EXCEPT ![owner[i]] = NoTunnel]
  /\ UNCHANGED <<owner, verified, ended, replaced, kicked, lost>>

\* The record of a session that is over runs out.
Expire(c) ==
  /\ current[c] \in ended
  /\ current' = [current EXCEPT ![c] = NoTunnel]
  /\ UNCHANGED <<owner, verified, ended, replaced, kicked, leaving, lost>>

\* A record is lost, or was never written.
Lose(c) ==
  /\ current' \in {current, [current EXCEPT ![c] = NoTunnel]}
  /\ lost' = lost \cup {c}
  /\ UNCHANGED <<owner, verified, ended, replaced, kicked, leaving>>

Next ==
  \/ \E i \in Tunnels : \/ \E c \in Clients : Open(i, c)
                        \/ Verify(i) \/ Login(i) \/ Kick(i)
                        \/ Leave(i) \/ Remove(i)
  \/ \E E \in SUBSET Tunnels : End(E)
  \/ \E c \in Clients : Expire(c) \/ Lose(c)

Spec == Init /\ [][Next]_vars
=============================================================================
