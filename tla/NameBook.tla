------------------------------ MODULE NameBook -------------------------------
(***************************************************************************)
(* What the names of a network promise those who were given them, whatever *)
(* locks and lookups are underneath: a name that leads to somebody leads   *)
(* to the same one for good, and no name is ever taken away.  Only a name  *)
(* that is loose may be given once more, and it stays loose.               *)
(* Allocation.tla implements it with keys, leases and PUTs in etcd.        *)
(***************************************************************************)
CONSTANTS Names,   \* the names that are given out
          Users,   \* those they are given to
          Nobody

VARIABLES leadsTo, \* leadsTo[n]: the user that name n leads to
          loose    \* the names that nobody can rely on

vars == <<leadsTo, loose>>

TypeOK == leadsTo \in [Names -> Users \cup {Nobody}] /\ loose \subseteq Names

Init == leadsTo = [n \in Names |-> Nobody] /\ loose = {}

Give(n, u) == /\ leadsTo[n] = Nobody
              /\ leadsTo' = [leadsTo EXCEPT ![n] = u]
              /\ UNCHANGED loose

GiveAgain(n, u) == /\ n \in loose
                   /\ leadsTo' = [leadsTo EXCEPT ![n] = u]
                   /\ UNCHANGED loose

Loosen(n) == loose' = loose \cup {n} /\ UNCHANGED leadsTo

Next == \E n \in Names : \/ Loosen(n)
                         \/ \E u \in Users : Give(n, u) \/ GiveAgain(n, u)

Spec == Init /\ [][Next]_vars
=============================================================================
