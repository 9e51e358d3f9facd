----------------------------- MODULE Allocation -----------------------------
(***************************************************************************)
(* The names the nodes give out over etcd: the tunnel id of a new client   *)
(* (GenerateNewClient) and the domain of an HTTP listen                    *)
(* (httpHandler_ListenAdd, AddListenWithTunnel), and the key they sign     *)
(* the tokens of such requests with (httpHandler_Login, verifyToken,       *)
(* GetJwtSignKey).  A name is locked by creating its key, with an empty    *)
(* value and a lease of 5 s, and taken by a later PUT of the record to the *)
(* same key, which has no lease.  Each call runs on some node; a node may  *)
(* crash, and the errors of etcd are discarded.                            *)
(***************************************************************************)
EXTENDS Naturals, FiniteSets

CONSTANTS NewClients,   \* the handshakes of clients that have no id yet
          Adds,         \* the requests for an HTTP listen, each of another client
          TunnelIds,    \* what GenerateTunnelId draws from
          DomainNames,  \* what GenerateDomainName draws from, under n.Domain
          Hosts,        \* the hosts outside n.Domain that a request may bring
          SignKeys,     \* the random signing keys that the nodes offer
          Locked,       \* the empty value of a lock
          None          \* no key, no name, no client

Calls == NewClients \cup Adds
Generated == TunnelIds \cup DomainNames
Names == Generated \cup Hosts

ASSUME AllocationAssumption ==
  /\ NewClients \cap Adds = {}
  /\ TunnelIds \cap DomainNames = {} /\ Generated \cap Hosts = {}
  /\ {Locked, None} \cap (Calls \cup Names \cup SignKeys) = {} /\ Locked # None

VARIABLES
  value,    \* value[n]: at the key of name n, None, Locked, or the call whose record it is
  lease,    \* lease[n]: the call whose lease the key hangs on
  at,       \* at[c]: the point call c has reached
  name,     \* name[c]: the name it has
  target,   \* target[a]: the tunnel id an add names
  seen,     \* seen[a]: the client whose tunnel record its check read
  aimed,    \* aimed[a]: the TargetClientId of its listen
  unread,   \* history: the adds whose second read of the target failed
  signKey,  \* the signing key in etcd
  token,    \* token[a]: the key that the token of request a is signed with
  loose     \* history: the names whose lock ended before the PUT, or whose PUT was lost

lockVars == <<value, lease>>
addVars  == <<target, seen, aimed, unread>>
keyVars  == <<signKey, token>>
vars == <<lockVars, at, name, addVars, keyVars, loose>>

TypeOK ==
  /\ value \in [Names -> Calls \cup {None, Locked}]
  /\ lease \in [Names -> Calls \cup {None}]
  /\ at \in [Calls -> {"start", "loggedIn", "verified", "checked", "named", "read",
                       "recorded", "done", "refused", "stranger", "dead"}]
  /\ name \in [Calls -> Names \cup {None}]
  /\ target \in [Adds -> TunnelIds \cup {None}]
  /\ seen \in [Adds -> NewClients \cup {None}]
  /\ aimed \in [Adds -> NewClients \cup {None}]
  /\ unread \subseteq Adds
  /\ signKey \in SignKeys \cup {None}
  /\ token \in [Adds -> SignKeys \cup {None}]
  /\ loose \subseteq Names
  /\ \A c \in NewClients : name[c] \in TunnelIds \cup {None}
  /\ \A a \in Adds : name[a] \in DomainNames \cup Hosts \cup {None}
  /\ \A id \in TunnelIds : value[id] \in NewClients \cup {None, Locked}
  /\ \A n \in Names : value[n] = Locked <=> lease[n] # None

Init ==
  /\ value = [n \in Names |-> None]
  /\ lease = [n \in Names |-> None]
  /\ at = [c \in Calls |-> "start"]
  /\ name = [c \in Calls |-> None]
  /\ target = [a \in Adds |-> None]
  /\ seen = [a \in Adds |-> None]
  /\ aimed = [a \in Adds |-> None]
  /\ unread = {}
  /\ signKey = None
  /\ token = [a \in Adds |-> None]
  /\ loose = {}

Go(c, from, where) == at[c] = from /\ at' = [at EXCEPT ![c] = where]

-----------------------------------------------------------------------------
(* lock: a transaction that creates the key if there is none.              *)

\* A slip: the key is written whether there is one or not.
IsFree_Always(n) == TRUE

IsFree(n) == value[n] = None

lock(c, n) ==
  /\ IsFree(n)
  /\ value' = [value EXCEPT ![n] = Locked]
  /\ lease' = [lease EXCEPT ![n] = c]

\* The loops draw until a lock succeeds.  An error of the transaction counts as
\* a lock that failed, though etcd may have made it.
LockIn(c, from, Pool) ==
  \E n \in Pool :
    /\ lock(c, n)
    /\ \/ Go(c, from, "named") /\ name' = [name EXCEPT ![c] = n]
       \/ at[c] = from /\ UNCHANGED <<at, name>>
    /\ UNCHANGED <<addVars, keyVars, loose>>

GenerateTunnelId(c) == c \in NewClients /\ LockIn(c, "start", TunnelIds)

GenerateDomainName(a) == a \in Adds /\ LockIn(a, "checked", DomainNames)

\* The call has the name, and has not put its record yet.
Holds(c, n) == at[c] \in {"named", "read", "recorded"} /\ name[c] = n

\* The lease of a lock that was not put in time ends, and the key goes.
LeaseEnds(n) ==
  /\ lease[n] # None
  /\ value' = [value EXCEPT ![n] = None]
  /\ lease' = [lease EXCEPT ![n] = None]
  /\ loose' = IF Holds(lease[n], n) THEN loose \cup {n} ELSE loose
  /\ UNCHANGED <<at, name, addVars, keyVars>>

\* The PUT replaces whatever the key has, its lease included, or is lost.
PutKey(c) ==
  \/ /\ value' = [value EXCEPT ![name[c]] = c]
     /\ lease' = [lease EXCEPT ![name[c]] = None]
     /\ UNCHANGED loose
  \/ /\ UNCHANGED lockVars
     /\ loose' = loose \cup {name[c]}

-----------------------------------------------------------------------------
(* GenerateNewClient.                                                      *)

PutClient(c) ==
  /\ c \in NewClients
  /\ Go(c, "named", "recorded")
  /\ UNCHANGED <<lockVars, name, addVars, keyVars, loose>>

PutTunnel(c) ==
  /\ c \in NewClients
  /\ Go(c, "recorded", "done")
  /\ PutKey(c)
  /\ UNCHANGED <<name, addVars, keyVars>>

-----------------------------------------------------------------------------
(* The token of a request: httpHandler_Login and verifyToken, at any nodes. *)

\* A slip: the transaction puts the key whether there is one or not.
KeyAfter_Own(k) == k

KeyAfter(k) == IF signKey = None THEN k ELSE signKey

\* Everybody has the first key that was offered.
GetJwtSignKey == \E k \in SignKeys : signKey' = KeyAfter(k)

\* The login is refused if the PUT of the client's record was lost; the handler
\* panics if the answer of the transaction is.
httpHandler_Login(a) ==
  /\ \/ /\ Go(a, "start", "loggedIn")
        /\ GetJwtSignKey
        /\ token' = [token EXCEPT ![a] = signKey']
     \/ /\ Go(a, "start", "dead")
        /\ GetJwtSignKey
        /\ UNCHANGED token
     \/ /\ Go(a, "start", "refused")
        /\ UNCHANGED keyVars
  /\ UNCHANGED <<lockVars, name, addVars, loose>>

\* An expired token is refused; one of another key goes on as nobody's request.
verifyToken(a) ==
  /\ GetJwtSignKey
  /\ \/ token[a] = signKey' /\ Go(a, "loggedIn", "verified")
     \/ token[a] # signKey' /\ Go(a, "loggedIn", "stranger")
     \/ Go(a, "loggedIn", "refused")
  /\ UNCHANGED <<lockVars, name, addVars, token, loose>>

-----------------------------------------------------------------------------
(* httpHandler_ListenAdd.                                                  *)

\* The target must be a tunnel with the AuthCode of the request; a read that fails
\* finds none.  The empty value of a lock reads as a tunnel whose client and
\* AuthCode are empty.
CheckTarget(a) ==
  \E id \in TunnelIds :
    /\ target' = [target EXCEPT ![a] = id]
    /\ \/ /\ value[id] # None
          /\ Go(a, "verified", "checked")
          /\ seen' = [seen EXCEPT ![a] = IF value[id] = Locked THEN None ELSE value[id]]
       \/ /\ Go(a, "verified", "refused")
          /\ UNCHANGED seen
    /\ UNCHANGED <<lockVars, name, aimed, unread, keyVars, loose>>

\* A slip: a host under n.Domain is taken as well.
OwnHosts_Any == Hosts \cup DomainNames

OwnHosts == Hosts

\* A host of the request's own is taken as it is; one under n.Domain is refused.
NameHost(a) ==
  /\ \/ /\ Go(a, "checked", "named")
        /\ \E h \in OwnHosts : name' = [name EXCEPT ![a] = h]
     \/ /\ Go(a, "checked", "refused")
        /\ UNCHANGED name
  /\ UNCHANGED <<lockVars, addVars, keyVars, loose>>

\* A slip: the target is read at the key of the add's own name.
TargetKey_OwnName(a) == name[a]

TargetKey(a) == target[a]

\* AddListenWithTunnel reads the target's tunnel once more, and goes on without a
\* target if the read fails ...
GetTarget(a) ==
  /\ a \in Adds
  /\ Go(a, "named", "read")
  /\ \/ LET c == value[TargetKey(a)] IN
          /\ aimed' = [aimed EXCEPT ![a] = IF c \in NewClients THEN c ELSE None]
          /\ UNCHANGED unread
     \/ /\ aimed' = [aimed EXCEPT ![a] = None]
        /\ unread' = unread \cup {a}
  /\ UNCHANGED <<lockVars, name, target, seen, keyVars, loose>>

\* ... and puts the listen, then the domain.
PutListen(a) ==
  /\ Go(a, "read", "recorded")
  /\ UNCHANGED <<lockVars, name, addVars, keyVars, loose>>

PutDomain(a) ==
  /\ a \in Adds
  /\ Go(a, "recorded", "done")
  /\ PutKey(a)
  /\ UNCHANGED <<name, addVars, keyVars>>

-----------------------------------------------------------------------------
Crash(c) ==
  /\ at[c] \notin {"done", "refused", "stranger", "dead"}
  /\ at' = [at EXCEPT ![c] = "dead"]
  /\ UNCHANGED <<lockVars, name, addVars, keyVars, loose>>

Next ==
  \/ \E c \in Calls : \/ GenerateTunnelId(c) \/ PutClient(c) \/ PutTunnel(c)
                      \/ GenerateDomainName(c) \/ GetTarget(c) \/ PutDomain(c)
                      \/ Crash(c)
  \/ \E a \in Adds : \/ httpHandler_Login(a) \/ verifyToken(a)
                     \/ CheckTarget(a) \/ NameHost(a) \/ PutListen(a)
  \/ \E n \in Names : LeaseEnds(n)

Spec == Init /\ [][Next]_vars

-----------------------------------------------------------------------------
(* Properties.                                                             *)

\* The key of a generated name leads to the call that was given it, for good,
\* unless a call lost its lock on it before the PUT, or the PUT (etcd.go:200-271).
NameResolves ==
  \A c \in Calls :
    at[c] = "done" /\ name[c] \in Generated \ loose => value[name[c]] = c

AimsAsSeen(a) == \/ aimed[a] = seen[a]
                 \/ target[a] \in loose
                 \/ aimed[a] = None /\ a \in unread

\* A listen goes to the client whose tunnel the request was checked against,
\* though the tunnel is read again for it, unless the tunnel id is loose; it is
\* stored for nobody only if that second read failed (node.go:351-358,
\* etcd.go:132-141, 339-346).
AimedAsChecked ==
  \A a \in Adds : at[a] = "done" /\ seen[a] # None => AimsAsSeen(a)

NamedInv ==
  \A c \in Calls : at[c] \in {"named", "read", "recorded", "done"} => name[c] # None

HolderInv ==
  \A c \in Calls, n \in Generated \ loose : Holds(c, n) => lease[n] = c

SeenInv ==
  \A a \in Adds : seen[a] # None =>
    target[a] \in TunnelIds /\ (target[a] \notin loose => value[target[a]] = seen[a])

UnseenInv ==
  \A a \in Adds : at[a] \in {"start", "loggedIn", "verified"} => seen[a] = None

AimedInv ==
  \A a \in Adds :
    at[a] \in {"read", "recorded", "done"} /\ seen[a] # None => AimsAsSeen(a)

\* The inductive invariant behind these: as long as the name is not loose, who
\* holds it has the lock, and a tunnel that was read stays (etcd.go:200-271, 330-345).
AllocationInv ==
  TypeOK /\ NamedInv /\ HolderInv /\ NameResolves /\ SeenInv /\ UnseenInv /\ AimedInv

\* The call whose record a generated name leads to.
leadsTo == [n \in Generated |-> IF value[n] \in Calls THEN value[n] ELSE None]

Book == INSTANCE NameBook WITH Names <- Generated, Users <- Calls, Nobody <- None,
                               leadsTo <- leadsTo, loose <- loose \cap Generated

\* The keys in etcd implement a book of names: a name that leads to a record leads
\* to it for good, and none is taken away, whatever locks end and whichever calls
\* crash; only a loose one is given once more (etcd.go:200-271, 330-357).
KeepsNames == Book!Spec

\* A token that any node has issued is good at every node until it expires,
\* whichever nodes have started together and whichever have crashed: no such request
\* goes on as that of nobody (etcd.go:240-252; node.go:131-134, 204-226, 415-447).
TokenIsAccepted ==
  \A a \in Adds : at[a] # "stranger"

\* The strengthening of it.
TokenInv ==
  TokenIsAccepted /\ \A a \in Adds :
    /\ token[a] # None => token[a] = signKey
    /\ at[a] = "loggedIn" => token[a] # None

=============================================================================
