---------------------------- MODULE ClientProofs ----------------------------
(***************************************************************************)
(* Proofs about ClientConn for any number of tunnels, TargetOuts and       *)
(* restarts: ClientInv is inductive, and who the client is, what its file  *)
(* has, and how its process ends follow from it.                           *)
(***************************************************************************)
EXTENDS ClientConn, TLAPS

\* What Invoke does to the calls.
LEMMA InvokeStep ==
  ASSUME TypeOK, default # NoTunnel, NEW x \in Callers, Invoke(x)
  PROVE  /\ call' \in [Callers -> Calls] /\ lateErrors' \in Nat
         /\ \A y \in Callers \ {x} : call'[y] = call[y]
         /\ \/ /\ link[default] = "up"
               /\ call'[x].pc = "asked" /\ call'[x].on = default
               /\ {terminal, token} = {id[default]} => call'[x].own = TRUE
            \/ link[default] # "up" /\ call'[x].pc = "failed"
            \/ call'[x].pc = "stuck"
  <1> USE ClientAssumption DEF TypeOK
  <1>1. CASE /\ call' = [call EXCEPT ![x] = [pc |-> "stuck", on |-> default, own |-> FALSE]]
             /\ lateErrors' = lateErrors
    <2>1. [pc |-> "stuck", on |-> default, own |-> FALSE] \in Calls
      BY DEF Calls
    <2> QED
      BY <1>1, <2>1
  <1>2. CASE /\ link[default] = "up"
             /\ call' = [call EXCEPT ![x] =
                  [pc |-> "asked", on |-> default, own |-> {terminal, token} = {id[default]}]]
             /\ lateErrors' = lateErrors
    <2>1. [pc |-> "asked", on |-> default, own |-> {terminal, token} = {id[default]}] \in Calls
      BY DEF Calls
    <2> QED
      BY <1>2, <2>1
  <1>3. CASE /\ link[default] # "up"
             /\ call' = [call EXCEPT ![x].pc = "failed"] /\ lateErrors' = lateErrors + 1
    <2>1. call' \in [Callers -> Calls]
      BY <1>3 DEF Calls
    <2> QED
      BY <1>3, <2>1 DEF Calls
  <1> QED
    BY <1>1, <1>2, <1>3 DEF Invoke, Hang

\* The logins a node goes on with are calls on tunnels.
LEMMA UnansweredAre ==
  ASSUME NEW T, T \subseteq Tunnels
  PROVE  Unanswered(T) \subseteq Callers \X Tunnels
  BY DEF Unanswered

\* What the end of login does.
LEMMA LoginReturnsStep ==
  ASSUME TypeOK, NEW x \in Callers, LoginReturns(x)
  PROVE  /\ call' \in [Callers -> Calls] /\ call'[x].pc = "none" /\ call'[x].on = NoTunnel
         /\ \A y \in Callers \ {x} : call'[y] = call[y]
         /\ started' \in BOOLEAN
         /\ x # Keeper => keeper' = keeper /\ newClient' = [newClient EXCEPT ![x] = "done"]
         /\ x = Keeper => /\ newClient' = newClient
                          /\ keeper' = IF listStarted THEN "idle" ELSE "list"
  <1>1. NoCall \in Calls
    BY ClientAssumption DEF NoCall, Calls
  <1> QED
    BY <1>1 DEF LoginReturns, TypeOK, HasList, EndConnect, NoCall

\* A step of the process that touches only connected, the heartbeat, the counters
\* of handlers, or the Keeper between dialing and waiting.
LEMMA QuietStep ==
  ASSUME ClientInv, TypeOK',
         UNCHANGED <<proc, default, identityVars, dialed, listStarted, call, newClient, worldVars>>,
         keeper' = keeper \/ (keeper \in {"dial", "idle"} /\ keeper' \in {"dial", "idle"})
  PROVE  ClientInv'
  <1> USE DEF ClientInv, identityVars, linkVars, nodeVars, historyVars, worldVars
  <1>1. LinkInv'
    BY DEF LinkInv, InFlight
  <1>2. CallInv' /\ OneUpInv' /\ KickInv' /\ ListInv' /\ TokenInv'
    BY DEF CallInv, Waiting, OneUpInv, KickInv, ListInv, PanicOnlyBeforeList, TokenInv
  <1>3. IdentityInv' /\ MuteInv' /\ SavedInv'
    BY DEF IdentityInv, InFlight, Waiting, MuteInv, IsAwaited, SavedInv, IsSaved
  <1> QED
    BY <1>1, <1>2, <1>3

LEMMA InitClientInv == Init => ClientInv
  <1> SUFFICES ASSUME Init PROVE ClientInv
    OBVIOUS
  <1> USE ClientAssumption DEF Init
  <1>1. TypeOK
    <2>1. saved \in [terminal : Ids \cup {NoId}, token : Ids \cup {NoId}] /\ terminal \in Ids \cup {NoId}
      BY DEF Identity, Ids
    <2>2. NoCall \in Calls
      BY DEF NoCall, Calls
    <2>3. beat \in [pc : {"wait", "write", "ok", "failed"}, on : Tunnels \cup {NoTunnel}]
      OBVIOUS
    <2>4. {other, lost, torn, alarm, twice, late, unread} \subseteq BOOLEAN
      OBVIOUS
    <2>5. restarts \in 0..MaxRestarts /\ targets \in 0..MaxTargets /\ dialing \in 0..targets
      OBVIOUS
    <2> QED
      BY <2>1, <2>2, <2>3, <2>4, <2>5 DEF TypeOK
  <1>2. LinkInv
    BY DEF LinkInv, InFlight
  <1>3. CallInv
    BY DEF CallInv, Callers, NoCall, Waiting
  <1>4. OneUpInv
    BY DEF OneUpInv
  <1>5. KickInv
    BY DEF KickInv
  <1>6. ListInv
    BY DEF ListInv, PanicOnlyBeforeList
  <1>7. TokenInv
    BY DEF TokenInv, Identity
  <1>8. IdentityInv
    BY DEF IdentityInv, Identity, NoCall, Waiting, InFlight
  <1>9. MuteInv
    BY DEF MuteInv
  <1>10. SavedInv
    BY DEF SavedInv
  <1> QED
    BY <1>1, <1>2, <1>3, <1>4, <1>5, <1>6, <1>7, <1>8, <1>9, <1>10 DEF ClientInv

LEMMA NextClientInv == ClientInv /\ [Next]_vars => ClientInv'
  <1> SUFFICES ASSUME ClientInv, [Next]_vars PROVE ClientInv'
    OBVIOUS
  <1> USE ClientAssumption DEF ClientInv, connVars, identityVars, keeperVars, beatVars, targetVars,
          threadVars, linkVars, nodeVars, historyVars, worldVars
  <1>1. ASSUME proc = "running", DialFailed
        PROVE  ClientInv'
    <2> USE <1>1 DEF DialFailed, EndConnect
    <2>1. TypeOK'
      BY DEF TypeOK
    <2> QED
      BY <2>1, QuietStep
  <1>2. ASSUME NEW t \in Tunnels, proc = "running", DialOpened(t)
        PROVE  ClientInv'
    <2> USE <1>2 DEF DialOpened
    <2>0. /\ link[t] = "unused" /\ id[t] = NoId /\ dialed = NoTunnel
          /\ \A u \in Tunnels \ {t} : link'[u] = link[u] /\ id'[u] = id[u] /\ newClient'[u] = newClient[u]
          /\ link'[t] = "up" /\ newClient'[t] \in {"none", "sent"}
      BY DEF LinkInv, TypeOK
    <2>1. TypeOK'
      BY DEF TypeOK, Ids
    <2>2. LinkInv'
      BY DEF LinkInv, TypeOK, InFlight
    <2>3. CallInv'
      <3>1. default' = default /\ call' = call /\ keeper' = "handshake" /\ keeper = "dial"
        OBVIOUS
      <3>2. \A x \in Callers : Waiting(x) => call[x].on # t
        BY <2>0 DEF CallInv
      <3>3. \A u \in Tunnels : newClient[u] = "login" => newClient'[u] = "login"
        BY <2>0, <3>1 DEF LinkInv, CallInv, InFlight
      <3> HIDE <1>2 DEF DialOpened
      <3> QED
        BY <2>0, <3>1, <3>2, <3>3 DEF CallInv, Waiting
    <2>4. OneUpInv'
      <3>1. ~alarm' => \A u \in Tunnels : link[u] # "up"
        BY <2>0 DEF OneUpInv, TypeOK, LinkInv
      <3>2. dialed' = t
        OBVIOUS
      <3> QED
        BY <2>0, <3>1, <3>2 DEF OneUpInv
    <2>5. KickInv'
      BY DEF KickInv
    <2>6. ListInv'
      BY DEF ListInv, PanicOnlyBeforeList
    <2>7. TokenInv'
      BY DEF TokenInv
    <2>8. IdentityInv'
      BY DEF IdentityInv, LinkInv, TypeOK, Waiting, InFlight
    <2>9. MuteInv'
      BY DEF MuteInv, LinkInv, TypeOK, IsAwaited, InFlight
    <2>10. SavedInv'
      BY DEF SavedInv, IsSaved
    <2> QED
      BY <2>1, <2>2, <2>3, <2>4, <2>5, <2>6, <2>7, <2>8, <2>9, <2>10
  <1>3. ASSUME proc = "running", AddDialInvoker
        PROVE  ClientInv'
    <2> USE <1>3 DEF AddDialInvoker
    <2>0. dialed \in Tunnels /\ link[dialed] \in {"up", "down"} /\ id[dialed] \in Ids
      BY DEF LinkInv, TypeOK, Ids
    <2>1. TypeOK'
      <3>1. /\ default' \in Tunnels /\ terminal' \in Ids \cup {NoId} /\ lost' \in BOOLEAN
            /\ keeper' = "connected" /\ dialed' = NoTunnel
        BY <2>0 DEF TypeOK
      <3> QED
        BY <3>1 DEF TypeOK
    <2>2. IdentityInv'
      <3> SUFFICES ASSUME ~lost' PROVE IdentityInv'
        BY DEF IdentityInv
      <3>1. /\ ~lost /\ link[dialed] = "up"
            /\ terminal' = IF terminal = NoId THEN dialed ELSE terminal
            /\ id[dialed] = terminal'
            /\ default' = dialed /\ dialed' = NoTunnel /\ token' = token /\ saved' = saved /\ proc' = proc
            /\ id' = id /\ newClient' = newClient /\ call' = call /\ torn' = torn /\ unread' = unread
        BY <2>0 DEF IdentityInv, TypeOK
      <3>2. terminal' # NoId /\ (terminal # NoId => terminal' = terminal)
        BY <2>0, <3>1 DEF LinkInv
      <3>3. \A t \in Tunnels : InFlight(t) => terminal' = t
        BY <2>0, <3>1, <3>2 DEF IdentityInv
      <3>4. ~torn => \A t \in Tunnels : id[t] # NoId => id[t] = terminal'
        BY <2>0, <3>1, <3>2 DEF IdentityInv
      <3>5. token \in {NoId, terminal'}
        BY <3>1, <3>2 DEF IdentityInv
      <3> HIDE <1>3 DEF AddDialInvoker
      <3> QED
        BY <3>1, <3>2, <3>3, <3>4, <3>5 DEF IdentityInv, InFlight, Waiting
    <2>3. LinkInv' /\ CallInv' /\ OneUpInv' /\ KickInv' /\ ListInv' /\ TokenInv' /\ MuteInv' /\ SavedInv'
      BY DEF LinkInv, InFlight, CallInv, Waiting, OneUpInv, KickInv, ListInv, PanicOnlyBeforeList,
         TokenInv, MuteInv, IsAwaited, SavedInv, IsSaved
    <2> QED
      BY <2>1, <2>2, <2>3
  <1>4. ASSUME proc = "running", OnConnected
        PROVE  ClientInv'
    <2> USE <1>4 DEF OnConnected, EndConnect, HasIdentity
    <2>0. default # NoTunnel /\ Keeper \in Callers
      BY DEF TypeOK, Callers
    <2>1. TypeOK'
      <3>1. call' \in [Callers -> Calls] /\ lateErrors' \in Nat
        BY <2>0, InvokeStep DEF TypeOK
      <3>2. keeper' \in {"login", "idle"} /\ started' \in BOOLEAN
        BY DEF TypeOK
      <3> QED
        BY <2>0, <3>1, <3>2 DEF TypeOK
    <2>2. CallInv'
      BY DEF CallInv, Callers, Calls, Invoke, Hang, LinkInv, TypeOK, Waiting
    <2>3. IdentityInv'
      <3> SUFFICES ASSUME ~lost PROVE IdentityInv'
        BY DEF IdentityInv
      <3>1. /\ UNCHANGED <<lost, unread, token, terminal, saved, proc, default, dialed, id, torn, newClient>>
            /\ \A x \in Callers : Waiting(x)' => (Waiting(x) /\ call'[x] = call[x]) \/ call'[x].own
        <4>1. CASE call' = call
          BY <4>1 DEF Waiting
        <4>2. CASE HasIdentity /\ Invoke(Keeper)
          <5>1. token # NoId
            BY <4>2 DEF HasIdentity
          <5>2. {terminal, token} = {id[default]}
            BY <2>0, <5>1 DEF IdentityInv
          <5>3. Waiting(Keeper)' => call'[Keeper].own
            BY <2>0, <4>2, <5>2, InvokeStep DEF Waiting
          <5>4. \A y \in Callers \ {Keeper} : call'[y] = call[y]
            BY <2>0, <4>2, InvokeStep
          <5> QED
            BY <5>3, <5>4 DEF Waiting
        <4> QED
          BY <4>1, <4>2
      <3> HIDE <1>4 DEF OnConnected
      <3> QED
        BY <3>1 DEF IdentityInv, InFlight
    <2>4. SavedInv'
      BY DEF SavedInv, CallInv, Invoke, Hang, TypeOK, IsSaved
    <2>5. LinkInv' /\ OneUpInv' /\ KickInv' /\ ListInv' /\ TokenInv' /\ MuteInv'
      BY DEF LinkInv, InFlight, OneUpInv, KickInv, ListInv, PanicOnlyBeforeList, TokenInv, MuteInv,
         IsAwaited
    <2> QED
      BY <2>1, <2>2, <2>3, <2>4, <2>5
  <1>5. ASSUME proc = "running", Keepalive
        PROVE  ClientInv'
    <2> USE <1>5 DEF Keepalive
    <2>1. TypeOK'
      BY DEF TypeOK
    <2> QED
      BY <2>1, QuietStep
  <1>6. ASSUME proc = "running", InitClient
        PROVE  ClientInv'
    <2> USE <1>6 DEF InitClient
    <2>1. TypeOK'
      BY DEF TypeOK
    <2> QED
      BY <2>1, QuietStep
  <1>7. ASSUME NEW x \in Callers, proc = "running", Answer(x)
        PROVE  ClientInv'
    <2> DEFINE u == call[x].on
    <2> USE <1>7 DEF Answer
    <2>0. /\ u \in Tunnels /\ id[u] \in Ids /\ link[u] = "up"
          /\ call[x].pc = "asked"
          /\ call'[x].pc = "answered" /\ call'[x].on = u
          /\ \A y \in Callers \ {x} : call'[y] = call[y]
          /\ call' \in [Callers -> Calls]
      BY DEF CallInv, Waiting, LinkInv, TypeOK, Calls
    <2>a. rec' \in [Ids -> Tunnels \cup {NoTunnel, Other}] /\ kick' \subseteq Tunnels
      BY <2>0 DEF TypeOK, Replace
    <2>c. twice' \in BOOLEAN /\ unread' \in BOOLEAN /\ (unread => unread') /\ (twice => twice')
      <3>1. twice' = (twice \/ rec[id[u]] = u) \/ twice' = twice
        OBVIOUS
      <3>2. unread' = unread \/ unread' = TRUE
        OBVIOUS
      <3>3. twice \in BOOLEAN /\ unread \in BOOLEAN
        BY DEF TypeOK
      <3> HIDE <1>7 DEF Answer
      <3> QED
        BY <3>1, <3>2, <3>3
    <2>d. call'[x].own = call[x].own \/ unread'
      <3>1. call' = [call EXCEPT ![x].pc = "answered"] \/ unread' = TRUE
        OBVIOUS
      <3>2. x \in DOMAIN call /\ "own" \in DOMAIN call[x]
        BY DEF TypeOK, Calls
      <3> HIDE <1>7 DEF Answer
      <3> QED
        BY <3>1, <3>2
    <2>b. UNCHANGED <<proc, connVars, identityVars, keeperVars, beatVars, targetVars, newClient, linkVars,
                      id, pending, restarts, other, lost, torn, alarm, late>>
      OBVIOUS
    <2>3. KickInv'
      <3> SUFFICES ASSUME kick' # {}, kick = {}, ~other, ~alarm PROVE twice'
        BY <2>b, <2>c DEF KickInv
      <3>1. /\ rec[id[u]] \in Tunnels /\ link[rec[id[u]]] = "up"
            /\ twice' = (twice \/ rec[id[u]] = u)
        <4>1. rec[id[u]] \in Tunnels /\ link[rec[id[u]]] = "up"
          BY DEF Replace
        <4>2. twice' = (twice \/ rec[id[u]] = u)
          BY DEF Replace
        <4> QED
          BY <4>1, <4>2
      <3>2. rec[id[u]] = u
        BY <2>0, <3>1 DEF OneUpInv
      <3> QED
        BY <3>1, <3>2
    <2> HIDE <1>7 DEF Answer
    <2> HIDE DEF u
    <2>1. TypeOK'
      BY <2>0, <2>a, <2>b, <2>c DEF TypeOK
    <2>2. LinkInv' /\ OneUpInv' /\ ListInv' /\ TokenInv' /\ MuteInv'
      BY <2>b DEF LinkInv, InFlight, OneUpInv, ListInv, PanicOnlyBeforeList, TokenInv, MuteInv, IsAwaited
    <2>4. CallInv'
      BY <2>0, <2>b DEF CallInv, Waiting, u, Callers
    <2>5. IdentityInv'
      <3>1. ASSUME ~lost, NEW y \in Callers, Waiting(y)'
            PROVE  call'[y].own \/ (unread' /\ call'[y].pc # "asked")
        BY <2>0, <2>c, <2>d, <3>1 DEF IdentityInv, Waiting
      <3> QED
        BY <2>b, <2>c, <3>1 DEF IdentityInv, InFlight
    <2>6. SavedInv'
      <3>1. \A y \in Callers : call[y].pc = "saving" => call'[y].pc = "saving"
        BY <2>0
      <3>2. IsSaved => IsSaved'
        BY <2>b, <3>1 DEF IsSaved
      <3>3. Waiting(Keeper)' => Waiting(Keeper)
        BY <2>0 DEF Waiting, Callers
      <3> QED
        BY <2>b, <3>2, <3>3 DEF SavedInv
    <2> QED
      BY <2>1, <2>2, <2>3, <2>4, <2>5, <2>6
  <1>8. ASSUME NEW x \in Callers, proc = "running", ReadAnswer(x)
        PROVE  ClientInv'
    <2> USE <1>8 DEF ReadAnswer
    <2>1. TypeOK'
      BY DEF TypeOK, Calls
    <2>2. /\ LinkInv' /\ CallInv' /\ OneUpInv' /\ KickInv' /\ ListInv'
          /\ TokenInv' /\ IdentityInv' /\ MuteInv' /\ SavedInv'
      BY DEF LinkInv, InFlight, CallInv, Waiting, OneUpInv, KickInv, ListInv, PanicOnlyBeforeList,
         TokenInv, IdentityInv, MuteInv, IsAwaited, SavedInv, IsSaved
    <2> QED
      BY <2>1, <2>2
  <1>9. ASSUME NEW x \in Callers, proc = "running", CallCancelled(x)
        PROVE  ClientInv'
    <2> USE <1>9 DEF CallCancelled, Hang
    <2>1. TypeOK'
      <3>1. /\ [NoCall EXCEPT !.pc = "failed"] \in Calls
            /\ [pc |-> "stuck", on |-> call[x].on, own |-> FALSE] \in Calls
        BY DEF NoCall, Calls, TypeOK
      <3>3. call' = [call EXCEPT ![x] = [NoCall EXCEPT !.pc = "failed"]]
              \/ call' = [call EXCEPT ![x] = [pc |-> "stuck", on |-> call[x].on, own |-> FALSE]]
        OBVIOUS
      <3>2. call' \in [Callers -> Calls]
        <4>1. call \in [Callers -> Calls]
          BY DEF TypeOK
        <4> HIDE <1>9 DEF CallCancelled
        <4> QED
          BY <3>1, <3>3, <4>1
      <3> QED
        BY <3>2 DEF TypeOK
    <2>2. CallInv'
      BY DEF CallInv, Callers, NoCall, LinkInv, TypeOK, Waiting
    <2>3. IdentityInv'
      BY DEF IdentityInv, NoCall, TypeOK, Waiting, InFlight
    <2>4. SavedInv'
      BY DEF SavedInv, Callers, TypeOK, IsSaved, Waiting
    <2>5. LinkInv' /\ OneUpInv' /\ KickInv' /\ ListInv' /\ TokenInv' /\ MuteInv'
      BY DEF LinkInv, InFlight, OneUpInv, KickInv, ListInv, PanicOnlyBeforeList, TokenInv, MuteInv,
         IsAwaited
    <2> QED
      BY <2>1, <2>2, <2>3, <2>4, <2>5
  <1>10. ASSUME NEW x \in Callers, proc = "running", LoginDone(x)
        PROVE  ClientInv'
    <2> USE <1>10 DEF LoginDone, LoginReturns, EndConnect, HasList, IsLogin
    <2>0. /\ default # NoTunnel /\ NoCall \in Calls
          /\ x # Keeper => x \in Tunnels /\ newClient[x] = "login"
          /\ x = Keeper => keeper = "login"
      BY DEF CallInv, NoCall, Calls, Callers
    <2>a. /\ keeper' \in {keeper, "idle", "list"}
          /\ (keeper' # keeper => keeper = "login" /\ call'[Keeper].pc = "none")
          /\ (keeper' = "list" => keeper = "list" \/ ~listStarted)
          /\ \A u \in Tunnels : \/ newClient'[u] = newClient[u]
                                \/ newClient[u] = "login" /\ newClient'[u] = "done" /\ call'[u].pc = "none"
      BY <2>0, LoginReturnsStep DEF TypeOK
    <2>b. newClient' \in [Tunnels -> {"none", "sent", "read", "named", "login", "done"}]
      BY <2>0, LoginReturnsStep DEF TypeOK
    <2>1. TypeOK'
      <3>1. [NoCall EXCEPT !.pc = "saving"] \in Calls /\ NoIdentity \in [terminal : Ids \cup {NoId}, token : Ids \cup {NoId}]
        BY DEF NoCall, Calls, NoIdentity
      <3>2. call' \in [Callers -> Calls] /\ started' \in BOOLEAN
        <4>1. CASE LoginReturns(x)
          BY <4>1, LoginReturnsStep
        <4>2. CASE started' = started /\ call' \in {call, [call EXCEPT ![x] = [NoCall EXCEPT !.pc = "saving"]]}
          BY <3>1, <4>2 DEF TypeOK
        <4> QED
          BY <4>1, <4>2
      <3>3. proc' \in {"running", "refused"} /\ saved' \in {saved, NoIdentity}
        OBVIOUS
      <3>4. UNCHANGED <<connected, default, terminal, token, dialed, kickable, listStarted, beat, lateErrors,
                        targets, dialing, link, closed, nodeVars, historyVars>>
        OBVIOUS
      <3> HIDE <1>10 DEF LoginDone
      <3> QED
        BY <2>0, <2>a, <2>b, <3>1, <3>2, <3>3, <3>4 DEF TypeOK
    <2>2. LinkInv'
      <3>1. UNCHANGED <<link, id, closed, rec, dialed, default>>
        OBVIOUS
      <3>2. keeper' = "handshake" <=> keeper = "handshake"
        BY <2>a
      <3>3. \A u \in Tunnels : newClient'[u] = newClient[u] \/ (newClient[u] = "login" /\ newClient'[u] = "done")
        BY <2>a
      <3>4. default # NoTunnel
        BY <2>0
      <3>5. dialed # NoTunnel => dialed \in Tunnels
        BY DEF TypeOK
      <3> HIDE <1>10, <2>0, <2>a, <2>b DEF LoginDone
      <3> QED
        BY <3>1, <3>2, <3>3, <3>4, <3>5 DEF LinkInv, InFlight
    <2>3. CallInv'
      BY DEF CallInv, Callers, NoCall, TypeOK, Waiting
    <2>4. TokenInv'
      BY DEF TokenInv, NoIdentity, CallInv, TypeOK
    <2>5. IdentityInv'
      BY DEF IdentityInv, NoIdentity, NoCall, TypeOK, Waiting, InFlight
    <2>6. MuteInv'
      <3>1. token # NoId
        BY <2>0 DEF TokenInv
      <3> QED
        BY <3>1 DEF MuteInv
    <2>7. SavedInv'
      BY DEF SavedInv, Callers, NoCall, CallInv, TypeOK, IsSaved, Waiting
    <2>8. OneUpInv' /\ KickInv' /\ ListInv'
      BY DEF OneUpInv, KickInv, ListInv, PanicOnlyBeforeList
    <2> QED
      BY <2>1, <2>2, <2>3, <2>4, <2>5, <2>6, <2>7, <2>8
  <1>11. ASSUME NEW x \in Callers, proc = "running", SaveJsonSetting(x)
        PROVE  ClientInv'
    <2> USE <1>11 DEF SaveJsonSetting, LoginReturns, EndConnect, HasList
    <2>0. /\ default # NoTunnel /\ NoCall \in Calls
          /\ x # Keeper => x \in Tunnels /\ newClient[x] = "login"
          /\ x = Keeper => keeper = "login"
      BY DEF CallInv, NoCall, Calls, Callers
    <2>a. /\ keeper' \in {keeper, "idle", "list"}
          /\ (keeper' # keeper => keeper = "login" /\ call'[Keeper].pc = "none")
          /\ (keeper' = "list" => keeper = "list" \/ ~listStarted)
          /\ \A u \in Tunnels : \/ newClient'[u] = newClient[u]
                                \/ newClient[u] = "login" /\ newClient'[u] = "done" /\ call'[u].pc = "none"
      BY <2>0, LoginReturnsStep DEF TypeOK
    <2>b. newClient' \in [Tunnels -> {"none", "sent", "read", "named", "login", "done"}]
      BY <2>0, LoginReturnsStep DEF TypeOK
    <2>1. TypeOK'
      <3>1. Identity \in [terminal : Ids \cup {NoId}, token : Ids \cup {NoId}]
        BY DEF Identity, TypeOK
      <3>2. call' \in [Callers -> Calls] /\ started' \in BOOLEAN
        BY <2>0, LoginReturnsStep DEF TypeOK
      <3> QED
        BY <2>0, <2>a, <2>b, <3>1, <3>2 DEF TypeOK
    <2>2. LinkInv'
      <3>1. UNCHANGED <<link, id, closed, rec, dialed, default>>
        OBVIOUS
      <3>2. keeper' = "handshake" <=> keeper = "handshake"
        BY <2>a
      <3>3. \A u \in Tunnels : newClient'[u] = newClient[u] \/ (newClient[u] = "login" /\ newClient'[u] = "done")
        BY <2>a
      <3>4. default # NoTunnel
        BY <2>0
      <3>5. dialed # NoTunnel => dialed \in Tunnels
        BY DEF TypeOK
      <3> HIDE <1>11, <2>0, <2>a, <2>b DEF SaveJsonSetting
      <3> QED
        BY <3>1, <3>2, <3>3, <3>4, <3>5 DEF LinkInv, InFlight
    <2>3. CallInv'
      BY DEF CallInv, NoCall, TypeOK, Waiting
    <2>4. IdentityInv'
      BY DEF IdentityInv, TokenInv, Callers, Identity, NoCall, CallInv, TypeOK, Waiting,
         InFlight
    <2>5. MuteInv'
      <3>1. token # NoId
        BY <2>0 DEF TokenInv
      <3> QED
        BY <3>1 DEF MuteInv
    <2>6. OneUpInv' /\ KickInv' /\ ListInv' /\ TokenInv' /\ SavedInv'
      BY DEF OneUpInv, KickInv, ListInv, PanicOnlyBeforeList, TokenInv, Callers, Identity, CallInv,
         SavedInv, IdentityInv, IsSaved
    <2> QED
      BY <2>1, <2>2, <2>3, <2>4, <2>5, <2>6
  <1>12. ASSUME proc = "running", TransferList
        PROVE  ClientInv'
    <2> USE <1>12 DEF TransferList
    <2>0. default # NoTunnel /\ Keeper \in Callers
      BY DEF TypeOK, Callers
    <2>1. TypeOK'
      <3>1. call' \in [Callers -> Calls] /\ lateErrors' \in Nat
        BY <2>0, InvokeStep
      <3> QED
        BY <2>0, <3>1 DEF TypeOK
    <2>2. CallInv'
      BY DEF CallInv, Callers, Calls, Invoke, Hang, LinkInv, TypeOK, Waiting
    <2>3. IdentityInv'
      <3> SUFFICES ASSUME ~lost PROVE IdentityInv'
        BY DEF IdentityInv
      <3>1. /\ UNCHANGED <<lost, unread, token, terminal, saved, proc, default, dialed, id, torn, newClient>>
            /\ \A x \in Callers : Waiting(x)' => (Waiting(x) /\ call'[x] = call[x]) \/ call'[x].own
        <4>1. CASE call' = call
          BY <4>1 DEF Waiting
        <4>2. CASE Invoke(Keeper)
          <5>1. token # NoId
            BY <4>2 DEF TokenInv
          <5>2. {terminal, token} = {id[default]}
            BY <2>0, <5>1 DEF IdentityInv
          <5>3. Waiting(Keeper)' => call'[Keeper].own
            BY <2>0, <4>2, <5>2, InvokeStep DEF Waiting
          <5>4. \A y \in Callers \ {Keeper} : call'[y] = call[y]
            BY <2>0, <4>2, InvokeStep
          <5> QED
            BY <5>3, <5>4 DEF Waiting
        <4> QED
          BY <4>1, <4>2
      <3> HIDE <1>12 DEF TransferList
      <3> QED
        BY <3>1 DEF IdentityInv, InFlight
    <2>4. SavedInv'
      BY DEF SavedInv, Calls, CallInv, Invoke, Hang, TypeOK, IsSaved, Waiting
    <2>5. LinkInv' /\ OneUpInv' /\ KickInv' /\ ListInv' /\ TokenInv' /\ MuteInv'
      BY DEF LinkInv, InFlight, OneUpInv, KickInv, ListInv, PanicOnlyBeforeList, TokenInv, MuteInv,
         IsAwaited
    <2> QED
      BY <2>1, <2>2, <2>3, <2>4, <2>5
  <1>13. ASSUME proc = "running", TransferListDone
        PROVE  ClientInv'
    <2> USE <1>13 DEF TransferListDone, EndConnect
    <2>1. TypeOK'
      <3>1. NoCall \in Calls
        BY DEF NoCall, Calls
      <3>2. /\ call' \in [Callers -> Calls] /\ listStarted' \in BOOLEAN /\ started' \in BOOLEAN
            /\ keeper' \in {keeper, "idle"} /\ proc' \in {"running", "panicked"}
        BY <3>1 DEF TypeOK
      <3> QED
        BY <3>2 DEF TypeOK
    <2>2. CallInv'
      BY DEF CallInv, Callers, NoCall, TypeOK, Waiting
    <2>3. ListInv'
      BY DEF ListInv, PanicOnlyBeforeList, TypeOK
    <2>4. LinkInv' /\ OneUpInv' /\ KickInv' /\ TokenInv' /\ IdentityInv' /\ MuteInv' /\ SavedInv'
      BY DEF LinkInv, InFlight, OneUpInv, KickInv, TokenInv, IdentityInv, NoCall, Waiting, MuteInv,
         IsAwaited, SavedInv, IsSaved
    <2> QED
      BY <2>1, <2>2, <2>3, <2>4
  <1>14. ASSUME proc = "running", HeartbeatTick
        PROVE  ClientInv'
    <2> USE <1>14 DEF HeartbeatTick
    <2>1. TypeOK'
      BY DEF TypeOK
    <2>2. /\ LinkInv' /\ CallInv' /\ OneUpInv' /\ KickInv' /\ ListInv'
          /\ TokenInv' /\ IdentityInv' /\ MuteInv' /\ SavedInv'
      BY DEF LinkInv, InFlight, CallInv, Waiting, OneUpInv, KickInv, ListInv, PanicOnlyBeforeList,
         TokenInv, IdentityInv, MuteInv, IsAwaited, SavedInv, IsSaved
    <2> QED
      BY <2>1, <2>2
  <1>15. ASSUME proc = "running", HeartbeatWrite
        PROVE  ClientInv'
    <2> USE <1>15 DEF HeartbeatWrite
    <2>1. TypeOK'
      BY DEF TypeOK
    <2> QED
      BY <2>1, QuietStep
  <1>16. ASSUME proc = "running", HeartbeatResult
        PROVE  ClientInv'
    <2> USE <1>16 DEF HeartbeatResult, Beaten
    <2>1. TypeOK'
      BY DEF TypeOK
    <2> QED
      BY <2>1, QuietStep
  <1>17. ASSUME proc = "running", WriteErrorHandler
        PROVE  ClientInv'
    <2> USE <1>17 DEF WriteErrorHandler
    <2>1. TypeOK'
      <3>1. lateErrors \in Nat
        BY DEF TypeOK
      <3>2. lateErrors' \in Nat
        BY <3>1
      <3>4. connected' \in BOOLEAN
        OBVIOUS
      <3>3. UNCHANGED <<proc, default, identityVars, keeperVars, beat, targetVars, call, newClient, worldVars>>
        OBVIOUS
      <3> HIDE <1>17 DEF WriteErrorHandler
      <3> QED
        BY <3>2, <3>3, <3>4 DEF TypeOK
    <2> QED
      BY <2>1, QuietStep
  <1>18. ASSUME NEW t \in Tunnels, proc = "running", ReadError(t)
        PROVE  ClientInv'
    <2> USE <1>18 DEF ReadError, Dispatched
    <2>1. TypeOK'
      BY DEF TypeOK
    <2>2. /\ LinkInv' /\ CallInv' /\ OneUpInv' /\ KickInv' /\ ListInv'
          /\ TokenInv' /\ IdentityInv' /\ MuteInv' /\ SavedInv'
      BY DEF LinkInv, InFlight, CallInv, Waiting, OneUpInv, KickInv, ListInv, PanicOnlyBeforeList,
         TokenInv, IdentityInv, MuteInv, IsAwaited, SavedInv, IsSaved
    <2> QED
      BY <2>1, <2>2
  <1>19. ASSUME NEW t \in Tunnels, proc = "running", ReadClientNew(t)
        PROVE  ClientInv'
    <2> USE <1>19 DEF ReadClientNew, Dispatched
    <2>1. TypeOK'
      BY DEF TypeOK
    <2>2. /\ LinkInv' /\ CallInv' /\ OneUpInv' /\ KickInv' /\ ListInv'
          /\ TokenInv' /\ IdentityInv' /\ MuteInv' /\ SavedInv'
      BY DEF LinkInv, InFlight, CallInv, Waiting, OneUpInv, KickInv, ListInv, PanicOnlyBeforeList,
         TokenInv, IdentityInv, MuteInv, IsAwaited, SavedInv, IsSaved
    <2> QED
      BY <2>1, <2>2
  <1>20. ASSUME NEW t \in Tunnels, proc = "running", OnNewClient(t)
        PROVE  ClientInv'
    <2> USE <1>20 DEF OnNewClient, TokenOf
    <2>0. default # NoTunnel /\ t \in Callers /\ id[t] = t
      BY DEF LinkInv, InFlight, Callers
    <2>1. TypeOK'
      <3>1. call' \in [Callers -> Calls] /\ lateErrors' \in Nat
        BY <2>0, InvokeStep DEF TypeOK
      <3>2. newClient' \in [Tunnels -> {"none", "sent", "read", "named", "login", "done"}]
        BY DEF TypeOK
      <3>3. terminal' \in {terminal, t} /\ token' \in {token, t}
        OBVIOUS
      <3> QED
        BY <3>1, <3>2, <3>3 DEF TypeOK, Ids
    <2>2. LinkInv'
      BY DEF LinkInv, TypeOK, InFlight
    <2>3. CallInv'
      BY DEF CallInv, Callers, NoCall, Invoke, Hang, LinkInv, TypeOK, Waiting
    <2>4. TokenInv'
      BY DEF TokenInv, TypeOK
    <2>5. IdentityInv'
      <3> SUFFICES ASSUME ~lost PROVE IdentityInv'
        BY DEF IdentityInv
      <3>0. /\ UNCHANGED <<lost, unread, saved, proc, default, dialed, id, torn>>
            /\ newClient[t] \in {"read", "named", "login"} /\ t # dialed
        BY DEF LinkInv
      <3>1. terminal = t /\ terminal' = terminal
        BY <3>0 DEF IdentityInv, InFlight
      <3>2. CASE newClient[t] \in {"read", "named"}
        <4>1. /\ call' = call /\ token' \in {token, t} /\ (token # NoId => token' = token)
              /\ \A u \in Tunnels : \/ newClient'[u] = newClient[u]
                                    \/ u = t /\ InFlight(u) /\ InFlight(u)' /\ (newClient'[u] = "login" => token' = t)
          BY <3>1, <3>2 DEF IdentityInv, InFlight, TypeOK
        <4>2. \A u \in Tunnels : newClient[u] = "login" => token' = u
          BY <4>1, <3>1 DEF IdentityInv, LinkInv
        <4> HIDE <1>20 DEF OnNewClient
        <4> QED
          BY <3>0, <3>1, <4>1, <4>2 DEF IdentityInv, InFlight, Waiting
      <3>3. CASE newClient[t] = "login"
        <4>1. Invoke(t) /\ newClient' = newClient /\ token' = token
          BY <3>3
        <4>2. token = terminal /\ id[default] = terminal
          BY <2>0, <3>1, <3>3 DEF IdentityInv
        <4>3. {terminal, token} = {id[default]}
          BY <4>2
        <4>4. \A x \in Callers : Waiting(x)' => (Waiting(x) /\ call'[x] = call[x]) \/ call'[x].own
          <5>1. Waiting(t)' => call'[t].own
            BY <2>0, <4>1, <4>3, InvokeStep DEF Waiting
          <5>2. \A x \in Callers \ {t} : call'[x] = call[x]
            BY <2>0, <4>1, InvokeStep
          <5> QED
            BY <5>1, <5>2 DEF Waiting
        <4> HIDE <1>20 DEF OnNewClient
        <4> QED
          BY <3>0, <3>1, <4>1, <4>4 DEF IdentityInv, InFlight
      <3> QED
        BY <3>0, <3>2, <3>3
    <2>6. MuteInv'
      BY DEF MuteInv, LinkInv, TypeOK, IsAwaited, InFlight
    <2>7. SavedInv'
      <3> SUFFICES ASSUME ~lost PROVE SavedInv'
        BY DEF SavedInv
      <3>1. UNCHANGED <<lost, saved, listStarted, keeper, link, default>>
        OBVIOUS
      <3>2. call'[Keeper] = call[Keeper]
        <4>1. Keeper \in Callers \ {t} /\ (call' = call \/ Invoke(t))
          BY DEF Callers
        <4>2. CASE Invoke(t)
          BY <2>0, <4>1, <4>2, InvokeStep
        <4> QED
          BY <4>1, <4>2
      <3>3. token # NoId => token' = token
        BY DEF IdentityInv, InFlight, LinkInv
      <3>4. \A x \in Callers : call[x].pc = "saving" => call'[x].pc = "saving"
        <4>1. CASE call' = call
          BY <4>1
        <4>2. CASE call[t] = NoCall /\ Invoke(t)
          <5>1. \A y \in Callers \ {t} : call'[y] = call[y]
            BY <2>0, <4>2, InvokeStep
          <5>2. call[t].pc # "saving"
            BY <4>2 DEF NoCall
          <5> QED
            BY <5>1, <5>2
        <4> QED
          BY <4>1, <4>2
      <3>5. IsSaved /\ token # NoId => IsSaved'
        BY <3>1, <3>3, <3>4 DEF IsSaved
      <3> HIDE <1>20 DEF OnNewClient
      <3> QED
        BY <3>1, <3>2, <3>5 DEF SavedInv, TokenInv, Waiting
    <2>8. OneUpInv' /\ KickInv' /\ ListInv'
      BY DEF OneUpInv, KickInv, ListInv, PanicOnlyBeforeList
    <2> QED
      BY <2>1, <2>2, <2>3, <2>4, <2>5, <2>6, <2>7, <2>8
  <1>21. ASSUME NEW t \in Tunnels, proc = "running", onInvoker_Kick(t)
        PROVE  ClientInv'
    <2> USE <1>21 DEF onInvoker_Kick, Dispatched
    <2>1. TypeOK'
      BY DEF TypeOK
    <2>2. /\ LinkInv' /\ CallInv' /\ OneUpInv' /\ KickInv' /\ ListInv'
          /\ TokenInv' /\ IdentityInv' /\ MuteInv' /\ SavedInv'
      BY DEF LinkInv, InFlight, CallInv, Waiting, OneUpInv, KickInv, ListInv, PanicOnlyBeforeList,
         TokenInv, IdentityInv, MuteInv, IsAwaited, SavedInv, IsSaved
    <2> QED
      BY <2>1, <2>2
  <1>22. ASSUME NEW t \in Tunnels, proc = "running", ReadTargetOut(t)
        PROVE  ClientInv'
    <2> USE <1>22 DEF ReadTargetOut, Dispatched
    <2>1. TypeOK'
      BY DEF TypeOK
    <2> QED
      BY <2>1, QuietStep
  <1>23. ASSUME proc = "running", onInvoker_DialOut
        PROVE  ClientInv'
    <2> USE <1>23 DEF onInvoker_DialOut
    <2>1. TypeOK'
      <3>1. dialing \in 0..targets /\ targets \in 0..MaxTargets /\ connected \in BOOLEAN
        BY DEF TypeOK
      <3>2. dialing' \in 0..targets
        BY <3>1
      <3>4. connected' \in BOOLEAN
        BY <3>1
      <3>3. UNCHANGED <<proc, default, identityVars, keeperVars, beatVars, targets, call, newClient, worldVars>>
        OBVIOUS
      <3> HIDE <1>23 DEF onInvoker_DialOut
      <3> QED
        BY <3>2, <3>3, <3>4 DEF TypeOK
    <2> QED
      BY <2>1, QuietStep
  <1>24. ASSUME NEW t \in Tunnels, proc = "running", ConnectionLost(t)
        PROVE  ClientInv'
    <2> USE <1>24 DEF ConnectionLost
    <2>1. TypeOK'
      <3>1. /\ link' \in [Tunnels -> {"unused", "up", "down"}]
            /\ newClient' \in [Tunnels -> {"none", "sent", "read", "named", "login", "done"}]
        BY DEF TypeOK
      <3>2. rec' \in [Ids -> Tunnels \cup {NoTunnel, Other}] /\ kick' \subseteq Tunnels
        BY DEF TypeOK
      <3>3. pending' \subseteq Callers \X Tunnels
        BY UnansweredAre DEF TypeOK
      <3>4. UNCHANGED <<proc, connVars, identityVars, keeperVars, beatVars, targetVars, call, closed, id,
                        historyVars>>
        OBVIOUS
      <3> HIDE <1>24 DEF ConnectionLost
      <3> QED
        BY <3>1, <3>2, <3>3, <3>4 DEF TypeOK
    <2>2. LinkInv'
      BY DEF LinkInv, TypeOK, InFlight
    <2>3. MuteInv'
      BY DEF MuteInv, TypeOK, IsAwaited, InFlight
    <2>4. CallInv' /\ OneUpInv' /\ KickInv' /\ ListInv' /\ TokenInv' /\ IdentityInv' /\ SavedInv'
      BY DEF CallInv, Waiting, OneUpInv, KickInv, ListInv, PanicOnlyBeforeList, TokenInv,
         IdentityInv, InFlight, SavedInv, IsSaved
    <2> QED
      BY <2>1, <2>2, <2>3, <2>4
  <1>25. ASSUME proc = "running", OtherLogin
        PROVE  ClientInv'
    <2> USE <1>25 DEF OtherLogin, Replace
    <2>1. TypeOK'
      BY DEF TypeOK
    <2>2. /\ LinkInv' /\ CallInv' /\ OneUpInv' /\ KickInv' /\ ListInv'
          /\ TokenInv' /\ IdentityInv' /\ MuteInv' /\ SavedInv'
      BY DEF LinkInv, InFlight, CallInv, Waiting, OneUpInv, KickInv, ListInv, PanicOnlyBeforeList,
         TokenInv, IdentityInv, MuteInv, IsAwaited, SavedInv, IsSaved
    <2> QED
      BY <2>1, <2>2
  <1>26. ASSUME Restart
        PROVE  ClientInv'
    <2> USE <1>26 DEF Restart
    <2>0. \A t \in Tunnels : newClient'[t] = "none" /\ ~InFlight(t)'
      BY DEF InFlight
    <2>1. TypeOK'
      <3>1. call' \in [Callers -> Calls] /\ newClient' \in [Tunnels -> {"none", "sent", "read", "named", "login", "done"}]
        BY DEF NoCall, Calls
      <3>2. /\ link' \in [Tunnels -> {"unused", "up", "down"}] /\ closed' \subseteq Tunnels
            /\ rec' \in [Ids -> Tunnels \cup {NoTunnel, Other}]
        BY DEF TypeOK
      <3>3. /\ terminal' \in Ids \cup {NoId} /\ token' \in Ids \cup {NoId} /\ restarts' \in 0..MaxRestarts
            /\ dialing' \in 0..targets' /\ targets' \in 0..MaxTargets /\ torn' \in BOOLEAN
        BY DEF TypeOK
      <3>4. pending' \subseteq Callers \X Tunnels
        BY UnansweredAre DEF TypeOK
      <3> QED
        BY <3>1, <3>2, <3>3, <3>4 DEF TypeOK
    <2>2. LinkInv'
      BY DEF LinkInv, TypeOK, InFlight
    <2>3. IdentityInv'
      <3> SUFFICES ASSUME ~lost PROVE IdentityInv'
        BY DEF IdentityInv
      <3>1. saved.terminal = saved.token /\ saved.token \in {NoId, token}
        BY DEF IdentityInv
      <3>2. saved' = saved /\ saved = [terminal |-> saved.terminal, token |-> saved.token]
        BY DEF TypeOK
      <3>3. ASSUME ~torn', NEW t \in Tunnels, id[t] # NoId PROVE id[t] = saved.terminal
        <4>1. ~torn /\ saved # NoIdentity
          BY <3>3 DEF TypeOK
        <4>2. token # NoId /\ token = saved.token
          BY <3>1, <3>2, <4>1 DEF NoIdentity
        <4> QED
          BY <3>1, <3>3, <4>1, <4>2 DEF IdentityInv
      <3>4. \A x \in Callers : ~Waiting(x)'
        BY DEF Waiting, NoCall
      <3>5. /\ lost' = lost /\ terminal' = saved.terminal /\ token' = saved.token /\ default' = NoTunnel
            /\ dialed' = NoTunnel /\ proc' = "running" /\ id' = id
        OBVIOUS
      <3> HIDE <1>26 DEF Restart
      <3> QED
        BY <2>0, <3>1, <3>2, <3>3, <3>4, <3>5 DEF IdentityInv
    <2>4. MuteInv'
      <3>1. token' = NoId => terminal' = NoId
        BY DEF TokenInv
      <3>2. dialed' = NoTunnel
        OBVIOUS
      <3> QED
        BY <3>1, <3>2 DEF MuteInv
    <2>5. CallInv' /\ OneUpInv' /\ KickInv' /\ ListInv' /\ TokenInv' /\ SavedInv'
      BY DEF CallInv, Callers, NoCall, Waiting, OneUpInv, KickInv, ListInv, PanicOnlyBeforeList,
         TokenInv, SavedInv
    <2> QED
      BY <2>1, <2>2, <2>3, <2>4, <2>5
  <1>27. ASSUME NEW x \in Callers, NEW t \in Tunnels, LateLogin(x, t)
        PROVE  ClientInv'
    <2> USE <1>27 DEF LateLogin
    <2>0. UNCHANGED <<proc, connVars, identityVars, keeperVars, threadVars, linkVars, id, restarts, other,
                      lost, torn, alarm, twice, unread>>
      OBVIOUS
    <2>1. TypeOK'
      <3>1. id[t] \in Ids \cup {NoId} /\ late' \in BOOLEAN /\ pending' \subseteq Callers \X Tunnels
        BY DEF TypeOK
      <3>2. rec' \in [Ids -> Tunnels \cup {NoTunnel, Other}] /\ kick' \subseteq Tunnels
        BY DEF TypeOK, Replace
      <3> HIDE <1>27 DEF LateLogin
      <3> QED
        BY <2>0, <3>1, <3>2 DEF TypeOK
    <2>2. /\ LinkInv' /\ CallInv' /\ OneUpInv' /\ KickInv' /\ ListInv'
          /\ TokenInv' /\ IdentityInv' /\ MuteInv' /\ SavedInv'
      BY <2>0 DEF LinkInv, InFlight, CallInv, Waiting, OneUpInv, KickInv, ListInv, PanicOnlyBeforeList,
         TokenInv, IdentityInv, MuteInv, IsAwaited, SavedInv, IsSaved
    <2> QED
      BY <2>1, <2>2
  <1>28. CASE UNCHANGED vars
    <2> USE <1>28 DEF vars
    <2>1. TypeOK'
      BY DEF TypeOK
    <2> QED
      BY <2>1, QuietStep
  <1> QED
    BY <1>1, <1>2, <1>3, <1>4, <1>5, <1>6, <1>7, <1>8, <1>9, <1>10, <1>11, <1>12, <1>13,
       <1>14, <1>15, <1>16, <1>17, <1>18, <1>19, <1>20, <1>21, <1>22, <1>23, <1>24, <1>25, <1>26, <1>27,
       <1>28
       DEF Next, Running, KeeperStep, HeartbeatStep, Callers

-----------------------------------------------------------------------------
\* Spec keeps ClientInv: the strengthening the theorems below rest on.
THEOREM ClientInvariant == Spec => []ClientInv
  BY InitClientInv, NextClientInv, PTL DEF Spec

\* The variables keep their types; in particular no call is made on a nil invoker
\* (cli/client.go:139-146, client.go:41-46, 167-184).
THEOREM TypeCorrect == Spec => []TypeOK
  <1>1. ClientInv => TypeOK
    BY DEF ClientInv
  <1> QED
    BY <1>1, ClientInvariant, PTL

\* A client keeps its identity over any number of tunnels and restarts, unless a
\* handshake was cut or a process ended without its client in the file; and a node
\* refuses it only when it cannot read its record (client.go:216-240,
\* node.go:243-253).
THEOREM IdentitiesAreKept == Spec => []IdentityKept
  <1>1. ClientInv => IdentityKept
    BY ClientAssumption DEF ClientInv, IdentityInv, LinkInv, TypeOK, IdentityKept
  <1> QED
    BY <1>1, ClientInvariant, PTL

\* A client with its list is in the file or being written to it (client.go:239).
THEOREM ListedAreSaved == Spec => []ListedIsSaved
  <1>1. ClientInv => ListedIsSaved
    BY DEF ClientInv, SavedInv, IsSaved, ListedIsSaved
  <1> QED
    BY <1>1, ClientInvariant, PTL

\* A client that stays without a Token has lost its Client_New with the tunnel
\* (client.go:168).
THEOREM MutesAreCut == Spec => []MuteOnlyByCut
  <1>1. ClientInv => MuteOnlyByCut
    BY DEF ClientInv, MuteInv, IsAwaited, InFlight, MuteOnlyByCut
  <1> QED
    BY <1>1, ClientInvariant, PTL

\* No process that has its list panics (cli/client.go:134, client.go:171-181).
THEOREM PanicsBeforeList == Spec => []PanicOnlyBeforeList
  <1>1. ClientInv => PanicOnlyBeforeList
    BY DEF ClientInv, ListInv
  <1> QED
    BY <1>1, ClientInvariant, PTL

\* Only a login over a tunnel while one is up, a second one on a tunnel, one that a
\* node records after its tunnel has ended, or another process gets a process
\* kicked (client.go:242-246, node.go:279-289).
THEOREM KickedByRelogin == Spec => []KickedOnlyByRelogin
  <1>1. ClientInv => KickedOnlyByRelogin
    BY DEF ClientInv, KickInv, KickedOnlyByRelogin
  <1> QED
    BY <1>1, ClientInvariant, PTL
=============================================================================
