-------------------------- MODULE AllocationProofs --------------------------
(***************************************************************************)
(* Proofs about Allocation for any sets of calls, names and keys:          *)
(* AllocationInv is inductive, whatever leases end and PUTs are lost, and  *)
(* so is TokenInv.                                                         *)
(***************************************************************************)
EXTENDS Allocation, TLAPS

LEMMA InitAllocationInv == Init => AllocationInv
  BY AllocationAssumption
  DEF Init, AllocationInv, TypeOK, NamedInv, HolderInv, NameResolves, SeenInv, AimedInv, AimsAsSeen, UnseenInv,
      Holds, Calls, Names, Generated

-----------------------------------------------------------------------------
(* The etcd side: lock, the end of a lease, the PUT of the record.         *)

LEMMA LockStep ==
  ASSUME AllocationInv, NEW c \in Calls, NEW from, NEW Pool,
         \/ c \in NewClients /\ from = "start" /\ Pool = TunnelIds
         \/ c \in Adds /\ from = "checked" /\ Pool = DomainNames,
         LockIn(c, from, Pool)
  PROVE  AllocationInv'
  <1> USE AllocationAssumption DEF AllocationInv, Calls, Names, Generated
  <1>1. PICK n \in Pool :
          /\ value[n] = None
          /\ value' = [value EXCEPT ![n] = Locked]
          /\ lease' = [lease EXCEPT ![n] = c]
          /\ \/ /\ at[c] = from
                /\ at' = [at EXCEPT ![c] = "named"]
                /\ name' = [name EXCEPT ![c] = n]
             \/ at[c] = from /\ UNCHANGED <<at, name>>
          /\ UNCHANGED <<addVars, keyVars, loose>>
    BY DEF LockIn, lock, IsFree, Go
  <1>2. n \in Names /\ n # None /\ n \in Generated
    OBVIOUS
  <1>3. TypeOK'
    BY <1>1, <1>2 DEF TypeOK, addVars, keyVars
  <1>4. NamedInv'
    BY <1>1, <1>2 DEF TypeOK, NamedInv
  <1>5. HolderInv'
    BY <1>1, <1>2 DEF TypeOK, HolderInv, Holds
  <1>6. NameResolves'
    BY <1>1, <1>2 DEF TypeOK, NameResolves
  <1>7. SeenInv'
    BY <1>1, <1>2 DEF TypeOK, SeenInv, addVars
  <1>8. AimedInv' /\ UnseenInv'
    BY <1>1, <1>2 DEF TypeOK, AimedInv, AimsAsSeen, UnseenInv, addVars
  <1> QED
    BY <1>3, <1>4, <1>5, <1>6, <1>7, <1>8

LEMMA LeaseStep ==
  ASSUME AllocationInv, NEW n \in Names, LeaseEnds(n)
  PROVE  AllocationInv'
  <1> USE AllocationAssumption DEF AllocationInv, LeaseEnds, Calls, Names, Generated
  <1>1. value[n] = Locked /\ lease[n] \in Calls
    BY DEF TypeOK
  <1>2. TypeOK'
    BY <1>1 DEF TypeOK, addVars, keyVars
  <1>3. NamedInv'
    BY DEF NamedInv
  <1>4. HolderInv'
    BY <1>1 DEF TypeOK, HolderInv, Holds
  <1>5. NameResolves'
    BY <1>1 DEF TypeOK, NameResolves
  <1>6. SeenInv'
    BY <1>1 DEF TypeOK, SeenInv, addVars
  <1>7. AimedInv' /\ UnseenInv'
    BY DEF AimedInv, AimsAsSeen, UnseenInv, addVars
  <1> QED
    BY <1>2, <1>3, <1>4, <1>5, <1>6, <1>7

\* PutTunnel and PutDomain: either the record replaces the lock, or the name is loose.
LEMMA PutStep ==
  ASSUME AllocationInv, NEW c \in Calls, Go(c, "recorded", "done"), PutKey(c),
         UNCHANGED <<name, addVars, keyVars>>
  PROVE  AllocationInv'
  <1> DEFINE n == name[c]
  <1> USE AllocationAssumption DEF AllocationInv, Calls, Names, Generated
  <1>1. n \in Names /\ n # None /\ Holds(c, n)
    BY DEF TypeOK, NamedInv, Go, Holds
  <1>2. at' = [at EXCEPT ![c] = "done"] /\ at[c] = "recorded"
    BY DEF Go
  <1>3. \/ /\ value' = [value EXCEPT ![n] = c]
           /\ lease' = [lease EXCEPT ![n] = None]
           /\ UNCHANGED loose
        \/ UNCHANGED lockVars /\ loose' = loose \cup {n}
    BY DEF PutKey
  <1>4. n \in Generated \ loose => lease[n] = c /\ value[n] = Locked
    BY <1>1 DEF TypeOK, HolderInv
  <1>5. TypeOK'
    BY <1>1, <1>2, <1>3 DEF TypeOK, addVars, keyVars, lockVars
  <1>6. NamedInv'
    BY <1>2 DEF TypeOK, NamedInv
  <1>7. HolderInv'
    <2> SUFFICES ASSUME NEW d \in Calls, NEW m \in Generated \ loose', Holds(d, m)'
                 PROVE  lease'[m] = d
      BY DEF HolderInv
    <2>1. d # c /\ Holds(d, m) /\ m \notin loose
      BY <1>2, <1>3 DEF TypeOK, Holds
    <2>2. lease[m] = d /\ m # n
      BY <2>1, <1>3, <1>4 DEF HolderInv
    <2> QED
      BY <2>2, <1>3 DEF TypeOK, lockVars
  <1>8. NameResolves'
    <2> SUFFICES ASSUME NEW d \in Calls, at'[d] = "done", name[d] \in Generated \ loose'
                 PROVE  value'[name[d]] = d
      BY DEF NameResolves
    <2>1. CASE d = c
      BY <2>1, <1>1, <1>3 DEF TypeOK
    <2>2. CASE d # c
      <3>1. value[name[d]] = d /\ name[d] \notin loose
        BY <2>2, <1>2, <1>3 DEF TypeOK, NameResolves
      <3>2. name[d] # n
        BY <3>1, <1>4
      <3> QED
        BY <3>1, <3>2, <1>3 DEF TypeOK, lockVars
    <2> QED
      BY <2>1, <2>2
  <1>9. SeenInv'
    <2> SUFFICES ASSUME NEW a \in Adds, seen[a] # None
                 PROVE  /\ target[a] \in TunnelIds
                        /\ target[a] \notin loose' => value'[target[a]] = seen[a]
      BY DEF SeenInv, addVars
    <2>1. target[a] \notin loose' => target[a] \notin loose /\ value[target[a]] = seen[a]
      BY <1>3 DEF SeenInv
    <2>2. seen[a] # Locked
      BY DEF TypeOK
    <2>3. target[a] \in TunnelIds
      BY DEF SeenInv
    <2> QED
      BY <2>1, <2>2, <2>3, <1>3, <1>4 DEF TypeOK, lockVars
  <1>10. AimedInv' /\ UnseenInv'
    BY <1>2, <1>3 DEF TypeOK, AimedInv, AimsAsSeen, UnseenInv, addVars
  <1> QED
    BY <1>5, <1>6, <1>7, <1>8, <1>9, <1>10

-----------------------------------------------------------------------------
(* The steps of a call that leave the names in etcd alone.                 *)

LEMMA CheckStep ==
  ASSUME AllocationInv, NEW a \in Adds, CheckTarget(a)
  PROVE  AllocationInv'
  <1> USE AllocationAssumption DEF AllocationInv, Calls, Names, Generated
  <1>1. PICK id \in TunnelIds :
          /\ target' = [target EXCEPT ![a] = id]
          /\ \/ /\ value[id] # None
                /\ Go(a, "verified", "checked")
                /\ seen' = [seen EXCEPT ![a] = IF value[id] = Locked THEN None ELSE value[id]]
             \/ Go(a, "verified", "refused") /\ UNCHANGED seen
          /\ UNCHANGED <<lockVars, name, aimed, unread, keyVars, loose>>
    BY DEF CheckTarget
  <1>2. at[a] = "verified" /\ (at' = [at EXCEPT ![a] = "checked"] \/ at' = [at EXCEPT ![a] = "refused"])
    BY <1>1 DEF Go
  <1>3. value[id] \in NewClients \cup {None, Locked}
    BY DEF TypeOK
  <1>4. TypeOK'
    BY <1>1, <1>2, <1>3 DEF TypeOK, lockVars, keyVars
  <1>5. NamedInv' /\ HolderInv' /\ NameResolves'
    BY <1>1, <1>2 DEF TypeOK, NamedInv, HolderInv, Holds, NameResolves, lockVars
  <1>6. SeenInv'
    <2> SUFFICES ASSUME NEW b \in Adds, seen'[b] # None
                 PROVE  /\ target'[b] \in TunnelIds
                        /\ target'[b] \notin loose => value[target'[b]] = seen'[b]
      BY <1>1 DEF SeenInv, lockVars
    <2>1. CASE b # a
      BY <2>1, <1>1 DEF TypeOK, SeenInv
    <2>2. CASE b = a /\ seen' = seen
      BY <2>2, <1>1, <1>2 DEF TypeOK, SeenInv, UnseenInv
    <2>3. CASE b = a /\ seen' = [seen EXCEPT ![a] = IF value[id] = Locked THEN None ELSE value[id]]
      BY <2>3, <1>1 DEF TypeOK
    <2> QED
      BY <2>1, <2>2, <2>3, <1>1
  <1>7. AimedInv' /\ UnseenInv'
    BY <1>1, <1>2 DEF TypeOK, AimedInv, AimsAsSeen, UnseenInv
  <1> QED
    BY <1>4, <1>5, <1>6, <1>7

LEMMA NameHostStep ==
  ASSUME AllocationInv, NEW a \in Adds, NameHost(a)
  PROVE  AllocationInv'
  <1> USE AllocationAssumption DEF AllocationInv, NameHost, OwnHosts, Go, Calls, Names, Generated
  <1>1. TypeOK'
    BY DEF TypeOK, lockVars, addVars, keyVars
  <1>2. NamedInv'
    BY DEF TypeOK, NamedInv
  <1>3. HolderInv'
    BY DEF TypeOK, HolderInv, Holds, lockVars
  <1>4. NameResolves'
    BY DEF TypeOK, NameResolves, lockVars
  <1>5. SeenInv' /\ AimedInv' /\ UnseenInv'
    BY DEF TypeOK, SeenInv, AimedInv, AimsAsSeen, UnseenInv, addVars, lockVars
  <1> QED
    BY <1>1, <1>2, <1>3, <1>4, <1>5

LEMMA TargetStep ==
  ASSUME AllocationInv, NEW a \in Adds, GetTarget(a)
  PROVE  AllocationInv'
  <1> USE AllocationAssumption DEF AllocationInv, GetTarget, TargetKey, Go, Calls, Names, Generated
  <1>1. TypeOK'
    BY DEF TypeOK, lockVars, keyVars
  <1>2. NamedInv' /\ HolderInv' /\ NameResolves'
    BY DEF TypeOK, NamedInv, HolderInv, Holds, NameResolves, lockVars
  <1>3. SeenInv'
    BY DEF TypeOK, SeenInv, lockVars
  <1>4. AimedInv' /\ UnseenInv'
    BY DEF TypeOK, AimedInv, AimsAsSeen, SeenInv, UnseenInv
  <1> QED
    BY <1>1, <1>2, <1>3, <1>4

\* A call that puts its first record, or dies.
LEMMA QuietStep ==
  ASSUME AllocationInv, NEW c \in Calls,
         \/ Go(c, "named", "recorded") /\ c \in NewClients
         \/ Go(c, "read", "recorded")
         \/ at' = [at EXCEPT ![c] = "dead"],
         UNCHANGED <<lockVars, name, addVars, keyVars, loose>>
  PROVE  AllocationInv'
  <1> USE AllocationAssumption DEF AllocationInv, Go, lockVars, addVars, keyVars, Calls
  <1>1. TypeOK'
    BY DEF TypeOK
  <1>2. NamedInv'
    BY DEF TypeOK, NamedInv
  <1>3. HolderInv'
    BY DEF TypeOK, HolderInv, Holds
  <1>4. NameResolves'
    BY DEF TypeOK, NameResolves
  <1>5. SeenInv' /\ AimedInv' /\ UnseenInv'
    BY DEF TypeOK, SeenInv, AimedInv, AimsAsSeen, UnseenInv
  <1> QED
    BY <1>1, <1>2, <1>3, <1>4, <1>5

\* A request that gets its token, or is verified: no name is touched.
LEMMA TokenStep ==
  ASSUME AllocationInv, NEW a \in Adds, httpHandler_Login(a) \/ verifyToken(a)
  PROVE  AllocationInv'
  <1> USE AllocationAssumption DEF AllocationInv, Go, lockVars, addVars, Calls
  <1>1. /\ at[a] \in {"start", "loggedIn"}
        /\ \E s \in {"loggedIn", "dead", "refused", "verified", "stranger"} :
             at' = [at EXCEPT ![a] = s]
        /\ UNCHANGED <<lockVars, name, addVars, loose>>
    BY DEF httpHandler_Login, verifyToken
  <1>2. signKey' \in SignKeys \cup {None} /\ token' \in [Adds -> SignKeys \cup {None}]
    BY DEF httpHandler_Login, verifyToken, GetJwtSignKey, KeyAfter, keyVars, TypeOK
  <1>3. TypeOK'
    BY <1>1, <1>2 DEF TypeOK
  <1>4. NamedInv'
    BY <1>1 DEF TypeOK, NamedInv
  <1>5. HolderInv'
    BY <1>1 DEF TypeOK, HolderInv, Holds
  <1>6. NameResolves'
    BY <1>1 DEF TypeOK, NameResolves
  <1>7. SeenInv' /\ AimedInv' /\ UnseenInv'
    BY <1>1 DEF TypeOK, SeenInv, AimedInv, AimsAsSeen, UnseenInv
  <1> QED
    BY <1>3, <1>4, <1>5, <1>6, <1>7

LEMMA NextAllocationInv == AllocationInv /\ [Next]_vars => AllocationInv'
  <1> SUFFICES ASSUME AllocationInv, [Next]_vars PROVE AllocationInv'
    OBVIOUS
  <1>1. ASSUME NEW c \in Calls, GenerateTunnelId(c) PROVE AllocationInv'
    BY <1>1, LockStep DEF GenerateTunnelId
  <1>2. ASSUME NEW c \in Calls, GenerateDomainName(c) PROVE AllocationInv'
    BY <1>2, LockStep DEF GenerateDomainName
  <1>3. ASSUME NEW c \in Calls, PutTunnel(c) \/ PutDomain(c) PROVE AllocationInv'
    BY <1>3, PutStep DEF PutTunnel, PutDomain
  <1>4. ASSUME NEW c \in Calls, PutClient(c) \/ Crash(c) PROVE AllocationInv'
    BY <1>4, QuietStep DEF PutClient, Crash
  <1>5. ASSUME NEW c \in Calls, GetTarget(c) PROVE AllocationInv'
    BY <1>5, TargetStep DEF GetTarget
  <1>6. ASSUME NEW a \in Adds, CheckTarget(a) PROVE AllocationInv'
    BY <1>6, CheckStep
  <1>7. ASSUME NEW a \in Adds, NameHost(a) PROVE AllocationInv'
    BY <1>7, NameHostStep
  <1>8. ASSUME NEW a \in Adds, PutListen(a) PROVE AllocationInv'
    BY <1>8, QuietStep DEF PutListen, Calls
  <1>9. ASSUME NEW n \in Names, LeaseEnds(n) PROVE AllocationInv'
    BY <1>9, LeaseStep
  <1>10. ASSUME NEW a \in Adds, httpHandler_Login(a) \/ verifyToken(a) PROVE AllocationInv'
    BY <1>10, TokenStep
  <1>11. CASE UNCHANGED vars
    BY <1>11 DEF vars, lockVars, addVars, keyVars, AllocationInv, TypeOK, NamedInv, HolderInv,
                 Holds, NameResolves, SeenInv, AimedInv, AimsAsSeen, UnseenInv
  <1> QED
    BY <1>1, <1>2, <1>3, <1>4, <1>5, <1>6, <1>7, <1>8, <1>9, <1>10, <1>11 DEF Next

-----------------------------------------------------------------------------
\* Spec keeps AllocationInv: the strengthening the theorems below rest on.
THEOREM AllocationInvariant == Spec => []AllocationInv
  BY InitAllocationInv, NextAllocationInv, PTL DEF Spec

\* The variables keep their types: a key is locked exactly as long as it has a
\* lease, and no tunnel key ever holds a listen (etcd.go:200-238).
THEOREM TypeCorrect == Spec => []TypeOK
  <1>1. AllocationInv => TypeOK
    BY DEF AllocationInv
  <1> QED
    BY <1>1, AllocationInvariant, PTL

\* The key of a generated name leads to the call that was given it, unless a lock
\* or a PUT was lost: two calls never share a name that is not loose.
THEOREM NamesResolve == Spec => []NameResolves
  <1>1. AllocationInv => NameResolves
    BY DEF AllocationInv
  <1> QED
    BY <1>1, AllocationInvariant, PTL

\* The second read of a listen's target agrees with the check.
THEOREM ListensAimAsChecked == Spec => []AimedAsChecked
  <1>1. AllocationInv => AimedAsChecked
    BY DEF AllocationInv, AimedInv, AimsAsSeen, AimedAsChecked
  <1> QED
    BY <1>1, AllocationInvariant, PTL

\* Every token that a node has issued is accepted by all of them: the first signing
\* key that reaches etcd stays, and who signs or verifies has that one.
THEOREM TokensAreAccepted == Spec => []TokenIsAccepted
  <1>1. Init => TokenInv
    BY AllocationAssumption DEF Init, TokenInv, TokenIsAccepted, Calls
  <1>2. AllocationInv /\ TokenInv /\ [Next]_vars => TokenInv'
    <2> SUFFICES ASSUME AllocationInv, TokenInv, [Next]_vars PROVE TokenInv'
      OBVIOUS
    <2> USE DEF TokenInv, TokenIsAccepted
    <2>1. ASSUME NEW a \in Adds, httpHandler_Login(a) PROVE TokenInv'
      <3>1. CASE GetJwtSignKey /\ token' = [token EXCEPT ![a] = signKey'] /\ Go(a, "start", "loggedIn")
        <4>1. signKey' # None /\ (signKey # None => signKey' = signKey)
          BY <3>1, AllocationAssumption DEF GetJwtSignKey, KeyAfter
        <4> QED
          BY <3>1, <4>1 DEF AllocationInv, TypeOK, Go, Calls
      <3>2. CASE GetJwtSignKey /\ UNCHANGED token /\ Go(a, "start", "dead")
        <4>1. signKey # None => signKey' = signKey
          BY <3>2 DEF GetJwtSignKey, KeyAfter
        <4> QED
          BY <3>2, <4>1 DEF AllocationInv, TypeOK, Go, Calls
      <3>3. CASE UNCHANGED keyVars /\ Go(a, "start", "refused")
        BY <3>3 DEF AllocationInv, TypeOK, Go, keyVars, Calls
      <3> QED
        BY <2>1, <3>1, <3>2, <3>3 DEF httpHandler_Login
    <2>2. ASSUME NEW a \in Adds, verifyToken(a) PROVE TokenInv'
      <3>1. UNCHANGED token /\ (signKey # None => signKey' = signKey)
        BY <2>2 DEF verifyToken, GetJwtSignKey, KeyAfter
      <3>2. at[a] = "loggedIn" /\ token[a] = signKey'
        BY <2>2, <3>1, AllocationAssumption DEF verifyToken, Go, AllocationInv, TypeOK
      <3>3. at' = [at EXCEPT ![a] = "verified"] \/ at' = [at EXCEPT ![a] = "refused"]
        BY <2>2, <3>1, <3>2 DEF verifyToken, Go
      <3> QED
        BY <3>1, <3>2, <3>3 DEF AllocationInv, TypeOK, Calls
    <2>3. CASE UNCHANGED <<at, keyVars>>
      BY <2>3 DEF keyVars
    <2>4. ASSUME NEW c \in Calls, NEW s \in {"named", "checked", "read", "recorded", "done", "refused", "dead"},
                 at' = [at EXCEPT ![c] = s], UNCHANGED keyVars
          PROVE  TokenInv'
      BY <2>4 DEF keyVars, AllocationInv, TypeOK, Calls
    <2>5. ASSUME NEW c \in Calls,
                 GenerateTunnelId(c) \/ GenerateDomainName(c) \/ PutClient(c) \/ PutTunnel(c)
                 \/ GetTarget(c) \/ PutDomain(c) \/ Crash(c)
          PROVE  TokenInv'
      BY <2>3, <2>4, <2>5
      DEF GenerateTunnelId, GenerateDomainName, LockIn, PutClient, PutTunnel, GetTarget,
          PutDomain, Crash, Go
    <2>6. ASSUME NEW a \in Adds, CheckTarget(a) \/ NameHost(a) \/ PutListen(a) PROVE TokenInv'
      BY <2>4, <2>6 DEF CheckTarget, NameHost, PutListen, Go, Calls
    <2>7. ASSUME NEW n \in Names, LeaseEnds(n) PROVE TokenInv'
      BY <2>3, <2>7 DEF LeaseEnds
    <2>8. CASE UNCHANGED vars
      BY <2>3, <2>8 DEF vars
    <2> QED
      BY <2>1, <2>2, <2>5, <2>6, <2>7, <2>8 DEF Next
  <1>3. TokenInv => TokenIsAccepted
    BY DEF TokenInv
  <1> QED
    BY <1>1, <1>2, <1>3, AllocationInvariant, PTL DEF Spec

-----------------------------------------------------------------------------
(* The refinement of NameBook.                                             *)

\* A PUT gives the name to its call, for the first time unless the name is loose;
\* or it is lost, and the name is.
LEMMA PutGives ==
  ASSUME AllocationInv, NEW c \in Calls, Go(c, "recorded", "done"), PutKey(c)
  PROVE  [Book!Next]_<<leadsTo, loose \cap Generated>>
  <1> USE AllocationAssumption DEF AllocationInv
  <1> DEFINE n == name[c]
  <1>1. n \in Names /\ Holds(c, n)
    BY DEF Go, NamedInv, TypeOK, Holds
  <1>2. CASE n \notin Generated
    <2>1. \A m \in Generated : value'[m] = value[m]
      BY <1>2 DEF PutKey, lockVars, TypeOK, Names
    <2>2. (loose \cap Generated)' = loose \cap Generated
      BY <1>2 DEF PutKey
    <2> QED
      BY <2>1, <2>2 DEF leadsTo
  <1>3. CASE n \in Generated /\ value' = [value EXCEPT ![n] = c] /\ UNCHANGED loose
    <2>1. leadsTo' = [leadsTo EXCEPT ![n] = c]
      BY <1>3 DEF leadsTo, TypeOK, Names
    <2>2. n \in loose \/ leadsTo[n] = None
      BY <1>1, <1>3 DEF HolderInv, TypeOK, leadsTo, Calls
    <2>3. Book!Give(n, c) \/ Book!GiveAgain(n, c)
      BY <1>3, <2>1, <2>2 DEF Book!Give, Book!GiveAgain
    <2> QED
      BY <1>3, <2>3 DEF Book!Next
  <1>4. CASE n \in Generated /\ UNCHANGED lockVars /\ loose' = loose \cup {n}
    <2>1. UNCHANGED leadsTo
      BY <1>4 DEF lockVars, leadsTo
    <2>2. (loose \cap Generated)' = (loose \cap Generated) \cup {n}
      BY <1>4
    <2> QED
      BY <1>4, <2>1, <2>2 DEF Book!Next, Book!Loosen
  <1> QED
    BY <1>2, <1>3, <1>4 DEF PutKey

\* The end of a lease makes a name loose, or changes nothing for the book.
LEMMA LeaseLoosens ==
  ASSUME AllocationInv, NEW n \in Names, LeaseEnds(n)
  PROVE  [Book!Next]_<<leadsTo, loose \cap Generated>>
  <1> USE AllocationAssumption DEF AllocationInv
  <1>1. value[n] = Locked
    BY DEF LeaseEnds, TypeOK
  <1>2. UNCHANGED leadsTo
    BY <1>1 DEF LeaseEnds, leadsTo, TypeOK, Calls, Names
  <1>3. \/ (loose \cap Generated)' = loose \cap Generated
        \/ n \in Generated /\ (loose \cap Generated)' = (loose \cap Generated) \cup {n}
    BY DEF LeaseEnds
  <1> QED
    BY <1>2, <1>3 DEF Book!Next, Book!Loosen

LEMMA NextKeepsNames == AllocationInv /\ [Next]_vars => [Book!Next]_<<leadsTo, loose \cap Generated>>
  <1> SUFFICES ASSUME AllocationInv, [Next]_vars
               PROVE  [Book!Next]_<<leadsTo, loose \cap Generated>>
    OBVIOUS
  <1>1. CASE UNCHANGED <<value, loose>>
    BY <1>1 DEF leadsTo
  <1>2. ASSUME NEW c \in Calls, GenerateTunnelId(c) \/ GenerateDomainName(c)
        PROVE  UNCHANGED <<leadsTo, loose>>
    <2>1. PICK n : value[n] = None /\ value' = [value EXCEPT ![n] = Locked] /\ UNCHANGED loose
      BY <1>2 DEF GenerateTunnelId, GenerateDomainName, LockIn, lock, IsFree
    <2>2. \A m \in Generated : value'[m] = value[m] \/ {value'[m], value[m]} = {None, Locked}
      BY <2>1 DEF AllocationInv, TypeOK, Names
    <2>3. None \notin Calls /\ Locked \notin Calls
      BY AllocationAssumption
    <2>4. \A m \in Generated : (IF value'[m] \in Calls THEN value'[m] ELSE None)
                               = IF value[m] \in Calls THEN value[m] ELSE None
      BY <2>2, <2>3
    <2> QED
      BY <2>1, <2>4 DEF leadsTo
  <1>3. ASSUME NEW c \in Calls, PutTunnel(c) \/ PutDomain(c)
        PROVE  [Book!Next]_<<leadsTo, loose \cap Generated>>
    BY <1>3, PutGives DEF PutTunnel, PutDomain
  <1>4. ASSUME NEW c \in Calls, PutClient(c) \/ GetTarget(c) \/ Crash(c)
        PROVE  UNCHANGED <<value, loose>>
    BY <1>4 DEF PutClient, GetTarget, Crash, lockVars
  <1>5. ASSUME NEW a \in Adds,
               httpHandler_Login(a) \/ verifyToken(a) \/ CheckTarget(a) \/ NameHost(a) \/ PutListen(a)
        PROVE  UNCHANGED <<value, loose>>
    BY <1>5 DEF httpHandler_Login, verifyToken, CheckTarget, NameHost, PutListen, lockVars
  <1>6. CASE UNCHANGED vars
    BY <1>1, <1>6 DEF vars, lockVars
  <1> QED
    BY <1>1, <1>2, <1>3, <1>4, <1>5, <1>6, LeaseLoosens DEF Next

\* The keys in etcd implement a book of names, for any number of calls and names: a
\* record at the key of a generated name stays, unless the name is loose
\* (etcd.go:200-271, 330-357).
THEOREM NamesAreKept == Spec => KeepsNames
  <1>1. Init => Book!Init
    BY AllocationAssumption DEF Init, Book!Init, leadsTo, Calls, Names
  <1> QED
    BY <1>1, NextKeepsNames, AllocationInvariant, PTL DEF Spec, KeepsNames, Book!Spec, Book!vars
=============================================================================
