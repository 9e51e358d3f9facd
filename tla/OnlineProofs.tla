---------------------------- MODULE OnlineProofs ----------------------------
(***************************************************************************)
(* Proofs about OnlineClients for any number of nodes, clients and         *)
(* tunnels: OnlineInv is inductive, and the properties of the online       *)
(* records follow from it.                                                 *)
(***************************************************************************)
EXTENDS OnlineClients, TLAPS

LEMMA InitOnlineInv == Init => OnlineInv
  <1> SUFFICES ASSUME Init PROVE OnlineInv
    OBVIOUS
  <1> USE OnlineAssumption DEF Init
  <1>1. TypeOK
    BY DEF TypeOK, Stages
  <1>2. BirthInv /\ LoginInv /\ DeleteInv /\ LastInv /\ WatchInv
    BY DEF BirthInv, LoginInv, DeleteInv, LastInv, WatchInv
  <1>3. /\ RecordIsAuthentic /\ GhostIsLeftover /\ LatestRecordedUnlessStale
        /\ KickOnlyReplaced
    BY DEF RecordIsAuthentic, GhostIsLeftover, LatestRecordedUnlessStale,
       KickOnlyReplaced
  <1> QED
    BY <1>1, <1>2, <1>3 DEF OnlineInv

-----------------------------------------------------------------------------
(* Steps that only change how far a tunnel is.                             *)

\* What a step that writes no record does to a tunnel: it moves only a tunnel that
\* was accepted, lets none begin to serve that was past it, lets one begin to
\* delete only when it is recorded and close only when it is not or is left over,
\* and adds a login only for a token.
QuietTunnel(i) ==
  /\ stage'[i] = "unborn" <=> stage[i] = "unborn"
  /\ stage'[i] = "accepted" => stage[i] = "accepted"
  /\ stage'[i] = "serving" => stage[i] \in {"accepted", "serving"}
  /\ stage'[i] = "deleting" => stage[i] = "deleting" \/ online[owner[i]] = i
  /\ stage'[i] = "closed" => \/ stage[i] = "closed" \/ online[owner[i]] # i
                             \/ i \in leftover'
  /\ issued'[i] >= issued[i] /\ issued'[i] >= pending'[i]
  /\ stage'[i] \in {"unborn", "accepted"} => issued'[i] = issued[i]
  /\ pending'[i] > 0 => \/ pending[i] > 0
                        \/ stage'[i] \notin {"unborn", "accepted"} /\ token[i]
  /\ kick'[i] # "none" => replacedBy[i] # {}

LEMMA QuietStep ==
  ASSUME OnlineInv, TypeOK',
         UNCHANGED <<owner, token, online, last, replacedBy, overtaken, staleDelete,
                     unkept>>,
         leftover \subseteq leftover',
         \A i \in Tunnels : QuietTunnel(i),
         WatchInv'
  PROVE  OnlineInv'
  <1> USE OnlineAssumption DEF OnlineInv, QuietTunnel
  <1>1. BirthInv'
    <2>1. \A i \in Tunnels : stage'[i] = "unborn" <=> owner'[i] = Nobody
      BY DEF BirthInv
    <2>2. ASSUME NEW i \in Tunnels, pending'[i] > 0, pending[i] > 0
          PROVE  stage'[i] \notin {"unborn", "accepted"}
      BY <2>2 DEF BirthInv
    <2>3. \A i \in Tunnels : stage'[i] \in {"unborn", "accepted"} => issued'[i] = 0
      BY DEF BirthInv
    <2> QED
      BY <2>1, <2>2, <2>3 DEF BirthInv
  <1>0. \A i \in Tunnels : issued[i] > 0 => issued'[i] > 0
    <2>1. \A i \in Tunnels : issued[i] \in Nat /\ issued'[i] \in Nat
      BY DEF TypeOK
    <2> QED
      BY <2>1
  <1>2. LoginInv'
    BY DEF LoginInv
  <1>3. DeleteInv'
    BY DEF TypeOK, DeleteInv
  <1>4. LastInv'
    BY DEF TypeOK, LastInv
  <1>5. KickOnlyReplaced'
    BY DEF TypeOK, KickOnlyReplaced
  <1>6. RecordIsAuthentic'
    <2>1. \A c \in Clients : online[c] # NoTunnel => online[c] \in Tunnels
      BY DEF TypeOK
    <2> QED
      BY <1>0, <2>1 DEF RecordIsAuthentic
  <1>7. GhostIsLeftover'
    BY DEF TypeOK, GhostIsLeftover, RecordIsAuthentic
  <1>8. LatestRecordedUnlessStale'
    <2> SUFFICES ASSUME NEW c \in Clients, last[c] # NoTunnel,
                        stage'[last[c]] = "serving"
                 PROVE  online[c] = last[c] \/ c \in staleDelete \cup unkept
      BY DEF LatestRecordedUnlessStale
    <2>1. last[c] \in Tunnels
      BY DEF TypeOK
    <2>2. stage[last[c]] = "serving"
      BY <2>1 DEF LastInv
    <2> QED
      BY <2>2 DEF LatestRecordedUnlessStale
  <1> QED
    BY <1>1, <1>2, <1>3, <1>4, <1>5, <1>6, <1>7, <1>8

-----------------------------------------------------------------------------
(* Types.                                                                  *)

LEMMA NextTypeOK == OnlineInv /\ [Next]_vars => TypeOK'
  <1> SUFFICES ASSUME OnlineInv, [Next]_vars PROVE TypeOK'
    OBVIOUS
  <1> USE OnlineAssumption
      DEF OnlineInv, TypeOK, Stages, tunnelVars, sessionVars, loginVars, kickVars,
          historyVars, Move
  <1>1. ASSUME NEW i \in Tunnels, NEW n \in Nodes, NEW c \in Clients, Accept(i, n, c)
        PROVE  TypeOK'
    BY <1>1 DEF Accept
  <1>2. ASSUME NEW i \in Tunnels, SetIdWritten(i) PROVE TypeOK'
    BY <1>2 DEF SetIdWritten
  <1>3. ASSUME NEW i \in Tunnels, SetIdFailed(i) PROVE TypeOK'
    BY <1>3 DEF SetIdFailed
  <1>4. ASSUME NEW i \in Tunnels, LoginVerify(i) PROVE TypeOK'
    <2>1. issued[i] \in Nat /\ pending[i] \in Nat
      OBVIOUS
    <2>2. issued[i] + 1 \in Nat /\ pending[i] + 1 \in Nat
      BY <2>1
    <2>3. /\ issued' = [issued EXCEPT ![i] = issued[i] + 1]
          /\ \/ pending' = [pending EXCEPT ![i] = pending[i] + 1]
             \/ pending' = pending
      BY <1>4 DEF LoginVerify
    <2>5. issued' \in [Tunnels -> Nat]
      BY <2>2, <2>3
    <2>6. pending' \in [Tunnels -> Nat]
      BY <2>2, <2>3
    <2>4. rejected' \subseteq Tunnels
      BY <1>4 DEF LoginVerify
    <2> QED
      BY <1>4, <2>4, <2>5, <2>6 DEF LoginVerify
  <1>5. ASSUME NEW i \in Tunnels, LoginPut(i) PROVE TypeOK'
    <2>1. pending[i] \in Nat /\ pending[i] > 0
      BY <1>5 DEF LoginPut
    <2>2. pending' \in [Tunnels -> Nat]
      <3>1. pending[i] - 1 \in Nat
        BY <2>1
      <3> QED
        BY <1>5, <3>1 DEF LoginPut
    <2>3. watch' \in [Nodes -> Seq(Tunnels)]
      <3>1. CASE watch' = watch
        BY <3>1
      <3>2. CASE /\ online[owner[i]] # NoTunnel
                 /\ watch' = [watch EXCEPT ![home[online[owner[i]]]] =
                                Append(@, online[owner[i]])]
        <4> DEFINE old == online[owner[i]]
        <4>1. old \in Tunnels
          BY <1>5, <2>1, <3>2 DEF BirthInv
        <4> HIDE DEF old
        <4>2. watch' = [watch EXCEPT ![home[old]] = Append(@, old)]
          BY <3>2 DEF old
        <4>3. \A n \in Nodes : Append(watch[n], old) \in Seq(Tunnels)
          BY <4>1
        <4> QED
          BY <4>2, <4>3
      <3> QED
        BY <1>5, <3>1, <3>2 DEF LoginPut, PrevValue
    <2>4. /\ online' \in [Clients -> Tunnels \cup {NoTunnel}]
          /\ last' \in [Clients -> Tunnels \cup {NoTunnel}]
          /\ replacedBy' \in [Tunnels -> SUBSET Tunnels]
      <3>1. online' = online \/ online' = [online EXCEPT ![owner[i]] = i]
        BY <1>5 DEF LoginPut
      <3>2. last' = [last EXCEPT ![owner[i]] = i]
        BY <1>5 DEF LoginPut
      <3>3. \/ replacedBy' = replacedBy
            \/ replacedBy' = [replacedBy EXCEPT ![online[owner[i]]] = @ \cup {i}]
        BY <1>5 DEF LoginPut
      <3>4. replacedBy' \in [Tunnels -> SUBSET Tunnels]
        <4> DEFINE old == online[owner[i]]
        <4>1. replacedBy' = replacedBy \/ replacedBy' = [replacedBy EXCEPT ![old] = @ \cup {i}]
          BY <3>3
        <4> HIDE DEF old
        <4> SUFFICES ASSUME replacedBy' = [replacedBy EXCEPT ![old] = @ \cup {i}]
                     PROVE  replacedBy' \in [Tunnels -> SUBSET Tunnels]
          BY <4>1
        <4>2. replacedBy \in [Tunnels -> SUBSET Tunnels]
          OBVIOUS
        <4>3. ASSUME NEW j \in Tunnels PROVE replacedBy'[j] \in SUBSET Tunnels
          BY <4>2
        <4> QED
          BY <4>2, <4>3
      <3>5. online' \in [Clients -> Tunnels \cup {NoTunnel}]
        BY <3>1
      <3>6. last' \in [Clients -> Tunnels \cup {NoTunnel}]
        BY <3>2
      <3> QED
        BY <3>4, <3>5, <3>6
    <2>5. /\ overtaken' \subseteq Tunnels /\ staleDelete' \subseteq Clients
          /\ leftover' \subseteq Tunnels /\ unkept' \subseteq Clients
      <3>1. owner[i] \in Clients
        BY <1>5, <2>1 DEF BirthInv
      <3> QED
        BY <1>5, <3>1 DEF LoginPut
    <2> QED
      BY <1>5, <2>2, <2>3, <2>4, <2>5 DEF LoginPut
  <1>6. ASSUME NEW i \in Tunnels, RejectClose(i) PROVE TypeOK'
    BY <1>6 DEF RejectClose
  <1>7. ASSUME NEW i \in Tunnels, onInvoker_Kick(i) PROVE TypeOK'
    BY <1>7 DEF onInvoker_Kick, Exit
  <1>8. ASSUME NEW i \in Tunnels, AddUniHandler(i) PROVE TypeOK'
    BY <1>8 DEF AddUniHandler
  <1>9. ASSUME NEW i \in Tunnels, ConnectionLost(i) PROVE TypeOK'
    BY <1>9 DEF ConnectionLost
  <1>10. ASSUME NEW i \in Tunnels, ReadError(i) PROVE TypeOK'
    BY <1>10 DEF ReadError
  <1>11. ASSUME NEW i \in Tunnels, HeartbeatExpired(i) PROVE TypeOK'
    BY <1>11 DEF HeartbeatExpired
  <1>12. ASSUME NEW i \in Tunnels, onClose(i) PROVE TypeOK'
    BY <1>12 DEF onClose, HookLeadsTo
  <1>13. ASSUME NEW i \in Tunnels, GetOnlineClient(i) PROVE TypeOK'
    <2>1. stage' \in [Tunnels -> Stages]
      <3>1. \/ stage' = [stage EXCEPT ![i] = "deleting"]
            \/ stage' = [stage EXCEPT ![i] = "closed"]
        BY <1>13 DEF GetOnlineClient
      <3> QED
        BY <3>1
    <2>2. leftover' \subseteq Tunnels
      BY <1>13 DEF GetOnlineClient
    <2> QED
      BY <1>13, <2>1, <2>2 DEF GetOnlineClient
  <1>14. ASSUME NEW i \in Tunnels, DeleteOnlineClient(i) PROVE TypeOK'
    <2>1. owner[i] \in Clients
      BY <1>14 DEF DeleteOnlineClient, BirthInv
    <2>2. staleDelete' \subseteq Clients
      BY <1>14, <2>1 DEF DeleteOnlineClient
    <2> QED
      BY <1>14, <2>2 DEF DeleteOnlineClient
  <1>15. ASSUME NEW n \in Nodes, onWatcher_ClientOnline(n) PROVE TypeOK'
    <2>1. watch' \in [Nodes -> Seq(Tunnels)]
      <3>1. Tail(watch[n]) \in Seq(Tunnels)
        BY <1>15 DEF onWatcher_ClientOnline
      <3> QED
        BY <1>15, <3>1 DEF onWatcher_ClientOnline
    <2> DEFINE i == Head(watch[n])
    <2>2. /\ \/ kick' = kick
             \/ kick' = [kick EXCEPT ![i] = "sent"]
          /\ \/ stage' = stage
             \/ stage' = [stage EXCEPT ![i] = IF @ = "serving" THEN "cancelled" ELSE @]
      BY <1>15 DEF onWatcher_ClientOnline
    <2> HIDE DEF i
    <2>3. kick' \in [Tunnels -> {"none", "sent", "ignored", "obeyed"}]
      BY <2>2
    <2>4. stage' \in [Tunnels -> Stages]
      <3>1. CASE stage[i] = "serving"
        BY <2>2, <3>1
      <3>2. CASE stage[i] # "serving"
        <4>1. stage' = stage \/ stage' = [stage EXCEPT ![i] = stage[i]]
          BY <2>2, <3>2
        <4>2. [stage EXCEPT ![i] = stage[i]] = stage
          OBVIOUS
        <4> QED
          BY <4>1, <4>2
      <3> QED
        BY <3>1, <3>2
    <2> QED
      BY <1>15, <2>1, <2>3, <2>4 DEF onWatcher_ClientOnline
  <1>16. ASSUME NEW n \in Nodes, NodeCrash(n) PROVE TypeOK'
    BY <1>16 DEF NodeCrash
  <1>17. ASSUME NEW n \in Nodes, NodeRestart(n) PROVE TypeOK'
    BY <1>17 DEF NodeRestart
  <1>18. ASSUME NEW c \in Clients, LeaseExpire(c) PROVE TypeOK'
    BY <1>18 DEF LeaseExpire
  <1>19. ASSUME NEW c \in Clients, KeepaliveLost(c) PROVE TypeOK'
    BY <1>19 DEF KeepaliveLost
  <1>20. CASE UNCHANGED vars
    BY <1>20 DEF vars
  <1> QED
    BY <1>1, <1>2, <1>3, <1>4, <1>5, <1>6, <1>7, <1>8, <1>9, <1>10, <1>11, <1>12, <1>13, <1>14, <1>15, <1>16, <1>17, <1>18, <1>19, <1>20 DEF Next

-----------------------------------------------------------------------------
(* OnlineInv is inductive.                                                 *)

LEMMA NextOnlineInv == OnlineInv /\ [Next]_vars => OnlineInv'
  <1> SUFFICES ASSUME OnlineInv, [Next]_vars PROVE OnlineInv'
    OBVIOUS
  <1>0. TypeOK'
    BY NextTypeOK
  <1>a. \A j \in Tunnels :
          /\ issued[j] \in Nat /\ pending[j] \in Nat /\ pending[j] <= issued[j]
          /\ stage[j] \in Stages
          /\ kick[j] # "none" => replacedBy[j] # {}
    BY DEF OnlineInv, TypeOK, LoginInv, KickOnlyReplaced
  <1>b. /\ stage = [j \in Tunnels |-> stage[j]]
        /\ issued = [j \in Tunnels |-> issued[j]]
        /\ pending = [j \in Tunnels |-> pending[j]]
        /\ kick = [j \in Tunnels |-> kick[j]]
    BY DEF OnlineInv, TypeOK
  <1> USE DEF tunnelVars, sessionVars, loginVars, kickVars, Move
  <1>1. ASSUME NEW i \in Tunnels, SetIdWritten(i) PROVE OnlineInv'
    <2>1. \A j \in Tunnels : QuietTunnel(j)
      BY <1>1, <1>a, <1>b DEF SetIdWritten, QuietTunnel
    <2>2. UNCHANGED <<owner, token, online, watch, historyVars>>
      BY <1>1 DEF SetIdWritten
    <2> QED
      BY <1>0, <2>1, <2>2, QuietStep DEF OnlineInv, WatchInv, historyVars
  <1>2. ASSUME NEW i \in Tunnels, SetIdFailed(i) PROVE OnlineInv'
    <2>1. \A j \in Tunnels : QuietTunnel(j)
      BY <1>2, <1>a, <1>b DEF SetIdFailed, QuietTunnel
    <2>2. UNCHANGED <<owner, token, online, watch, historyVars>>
      BY <1>2 DEF SetIdFailed
    <2> QED
      BY <1>0, <2>1, <2>2, QuietStep DEF OnlineInv, WatchInv, historyVars
  <1>3. ASSUME NEW i \in Tunnels, LoginVerify(i) PROVE OnlineInv'
    <2>1. \A j \in Tunnels : QuietTunnel(j)
      <3>1. stage' = stage /\ kick' = kick /\ replacedBy' = replacedBy
        BY <1>3 DEF LoginVerify, historyVars
      <3>2. ASSUME NEW j \in Tunnels
            PROVE  /\ issued'[j] >= issued[j] /\ issued'[j] >= pending'[j]
                   /\ pending'[j] > 0 =>
                        pending[j] > 0 \/ (stage[j] = "serving" /\ token[j])
        <4>1. CASE j = i /\ token[i] /\ pending' = [pending EXCEPT ![i] = @ + 1]
          BY <1>3, <1>a, <1>b, <4>1 DEF LoginVerify
        <4>2. CASE j = i /\ pending' = pending
          BY <1>3, <1>a, <1>b, <4>2 DEF LoginVerify
        <4>3. CASE j # i
          <5>1. issued'[j] = issued[j] /\ pending'[j] = pending[j]
            <6>1. \/ pending' = [pending EXCEPT ![i] = @ + 1]
                  \/ pending' = pending
              BY <1>3 DEF LoginVerify
            <6> QED
              BY <1>3, <1>b, <4>3, <6>1 DEF LoginVerify
          <5> QED
            BY <1>a, <5>1
        <4> QED
          BY <1>3, <4>1, <4>2, <4>3 DEF LoginVerify, Authenticated
      <3>3. \A j \in Tunnels : stage[j] \in {"unborn", "accepted"} => issued'[j] = issued[j]
        BY <1>3, <1>b DEF LoginVerify
      <3> QED
        BY <1>a, <3>1, <3>2, <3>3 DEF QuietTunnel
    <2>2. UNCHANGED <<owner, token, online, watch, historyVars>>
      BY <1>3 DEF LoginVerify
    <2> QED
      BY <1>0, <2>1, <2>2, QuietStep DEF OnlineInv, WatchInv, historyVars
  <1>4. ASSUME NEW i \in Tunnels, RejectClose(i) PROVE OnlineInv'
    <2>1. \A j \in Tunnels : QuietTunnel(j)
      BY <1>4, <1>a, <1>b DEF RejectClose, QuietTunnel
    <2>2. UNCHANGED <<owner, token, online, watch, historyVars>>
      BY <1>4 DEF RejectClose
    <2> QED
      BY <1>0, <2>1, <2>2, QuietStep DEF OnlineInv, WatchInv, historyVars
  <1>5. ASSUME NEW i \in Tunnels, onInvoker_Kick(i) PROVE OnlineInv'
    <2>1. \A j \in Tunnels : QuietTunnel(j)
      BY <1>5, <1>a, <1>b DEF onInvoker_Kick, Exit, QuietTunnel
    <2>2. UNCHANGED <<owner, token, online, watch, historyVars>>
      BY <1>5 DEF onInvoker_Kick
    <2> QED
      BY <1>0, <2>1, <2>2, QuietStep DEF OnlineInv, WatchInv, historyVars
  <1>6. ASSUME NEW i \in Tunnels, AddUniHandler(i) PROVE OnlineInv'
    <2>1. \A j \in Tunnels : QuietTunnel(j)
      BY <1>6, <1>a, <1>b DEF AddUniHandler, QuietTunnel
    <2>2. UNCHANGED <<owner, token, online, watch, historyVars>>
      BY <1>6 DEF AddUniHandler
    <2> QED
      BY <1>0, <2>1, <2>2, QuietStep DEF OnlineInv, WatchInv, historyVars
  <1>7. ASSUME NEW i \in Tunnels, ConnectionLost(i) PROVE OnlineInv'
    <2>1. \A j \in Tunnels : QuietTunnel(j)
      BY <1>7, <1>a, <1>b DEF ConnectionLost, QuietTunnel
    <2>2. UNCHANGED <<owner, token, online, watch, historyVars>>
      BY <1>7 DEF ConnectionLost
    <2> QED
      BY <1>0, <2>1, <2>2, QuietStep DEF OnlineInv, WatchInv, historyVars
  <1>8. ASSUME NEW i \in Tunnels, ReadError(i) PROVE OnlineInv'
    <2>1. \A j \in Tunnels : QuietTunnel(j)
      BY <1>8, <1>a, <1>b DEF ReadError, QuietTunnel
    <2>2. UNCHANGED <<owner, token, online, watch, historyVars>>
      BY <1>8 DEF ReadError
    <2> QED
      BY <1>0, <2>1, <2>2, QuietStep DEF OnlineInv, WatchInv, historyVars
  <1>9. ASSUME NEW i \in Tunnels, HeartbeatExpired(i) PROVE OnlineInv'
    <2>1. \A j \in Tunnels : QuietTunnel(j)
      BY <1>9, <1>a, <1>b DEF HeartbeatExpired, QuietTunnel
    <2>2. UNCHANGED <<owner, token, online, watch, historyVars>>
      BY <1>9 DEF HeartbeatExpired
    <2> QED
      BY <1>0, <2>1, <2>2, QuietStep DEF OnlineInv, WatchInv, historyVars
  <1>10. ASSUME NEW i \in Tunnels, onClose(i) PROVE OnlineInv'
    <2>1. \A j \in Tunnels : QuietTunnel(j)
      BY <1>10, <1>a, <1>b DEF onClose, HookLeadsTo, QuietTunnel
    <2>2. UNCHANGED <<owner, token, online, watch, historyVars>>
      BY <1>10 DEF onClose
    <2> QED
      BY <1>0, <2>1, <2>2, QuietStep DEF OnlineInv, WatchInv, historyVars
  <1>11. ASSUME NEW i \in Tunnels, GetOnlineClient(i) PROVE OnlineInv'
    <2>1. /\ stage[i] = "closing" /\ leftover \subseteq leftover'
          /\ \/ online[owner[i]] = i /\ stage' = [stage EXCEPT ![i] = "deleting"]
             \/ /\ online[owner[i]] # i \/ i \in leftover'
                /\ stage' = [stage EXCEPT ![i] = "closed"]
      BY <1>11 DEF GetOnlineClient, IsRecorded
    <2>2. /\ UNCHANGED <<owner, token, issued, pending, kick, online, watch>>
          /\ UNCHANGED <<last, replacedBy, overtaken, staleDelete, unkept>>
      BY <1>11 DEF GetOnlineClient
    <2>3. \A j \in Tunnels : QuietTunnel(j)
      BY <1>a, <1>b, <2>1, <2>2 DEF QuietTunnel
    <2> QED
      BY <1>0, <2>1, <2>2, <2>3, QuietStep DEF OnlineInv, WatchInv
  <1>12. ASSUME NEW n \in Nodes, onWatcher_ClientOnline(n) PROVE OnlineInv'
    <2> DEFINE i == Head(watch[n])
    <2>1. \A j \in Tunnels : QuietTunnel(j)
      <3>1. issued' = issued /\ pending' = pending
        BY <1>12 DEF onWatcher_ClientOnline
      <3>2. \/ stage' = stage
            \/ stage' = [stage EXCEPT ![i] = IF @ = "serving" THEN "cancelled" ELSE @]
        BY <1>12 DEF onWatcher_ClientOnline
      <3>3. kick' = kick \/ kick' = [kick EXCEPT ![i] = "sent"]
        BY <1>12 DEF onWatcher_ClientOnline
      <3>4. replacedBy[i] # {} /\ i \in Tunnels
        <4>1. watch[n] \in Seq(Tunnels) /\ watch[n] # <<>>
          BY <1>12 DEF onWatcher_ClientOnline, OnlineInv, TypeOK
        <4>2. 1 \in 1..Len(watch[n]) /\ i = watch[n][1]
          BY <4>1
        <4> QED
          BY <4>1, <4>2 DEF OnlineInv, WatchInv
      <3> HIDE DEF i
      <3> QED
        BY <1>a, <1>b, <3>1, <3>2, <3>3, <3>4 DEF QuietTunnel
    <2>2. UNCHANGED <<owner, token, online, historyVars>>
      BY <1>12 DEF onWatcher_ClientOnline
    <2>3. WatchInv'
      <3>1. /\ watch[n] \in Seq(Tunnels) /\ watch[n] # <<>>
            /\ watch \in [Nodes -> Seq(Tunnels)]
        BY <1>12 DEF onWatcher_ClientOnline, OnlineInv, TypeOK
      <3>2. /\ watch' = [watch EXCEPT ![n] = Tail(watch[n])]
            /\ replacedBy' = replacedBy
        BY <1>12 DEF onWatcher_ClientOnline, historyVars
      <3>3. \A k \in 1..Len(Tail(watch[n])) :
              k + 1 \in 1..Len(watch[n]) /\ Tail(watch[n])[k] = watch[n][k + 1]
        BY <3>1
      <3>4. ASSUME NEW m \in Nodes, NEW k \in 1..Len(watch'[m])
            PROVE  replacedBy[watch'[m][k]] # {}
        <4>1. CASE m = n
          BY <3>1, <3>2, <3>3, <3>4, <4>1 DEF OnlineInv, WatchInv
        <4>2. CASE m # n
          BY <3>1, <3>2, <3>4, <4>2 DEF OnlineInv, WatchInv
        <4> QED
          BY <4>1, <4>2
      <3> QED
        BY <3>2, <3>4 DEF WatchInv
    <2> QED
      BY <1>0, <2>1, <2>2, <2>3, QuietStep DEF historyVars
  <1>13. ASSUME NEW n \in Nodes, NodeCrash(n) PROVE OnlineInv'
    <2>1. \A j \in Tunnels : QuietTunnel(j)
      <3>1. /\ \A j \in Tunnels : \/ stage'[j] = "dead" /\ stage[j] # "unborn"
                                  \/ stage'[j] = stage[j]
            /\ \A j \in Tunnels : pending'[j] \in {0, pending[j]}
            /\ issued' = issued /\ kick' = kick
        BY <1>13, <1>b DEF NodeCrash
      <3>2. \A j \in Tunnels : issued'[j] >= issued[j] /\ issued'[j] >= pending'[j]
        BY <1>a, <3>1
      <3> QED
        BY <1>a, <3>1, <3>2 DEF OnlineInv, BirthInv, LoginInv, QuietTunnel
    <2>2. UNCHANGED <<owner, token, online, historyVars>>
      BY <1>13 DEF NodeCrash
    <2>3. WatchInv'
      <3>1. watch' = [watch EXCEPT ![n] = <<>>] /\ replacedBy' = replacedBy
        BY <1>13 DEF NodeCrash, historyVars
      <3>2. watch \in [Nodes -> Seq(Tunnels)]
        BY DEF OnlineInv, TypeOK
      <3>3. watch'[n] = <<>> /\ \A m \in Nodes : m # n => watch'[m] = watch[m]
        BY <3>1, <3>2
      <3>4. ASSUME NEW m \in Nodes, NEW k \in 1..Len(watch'[m])
            PROVE  replacedBy[watch'[m][k]] # {}
        <4>1. m # n
          BY <3>3, <3>4
        <4> QED
          BY <3>3, <3>4, <4>1 DEF OnlineInv, WatchInv
      <3> QED
        BY <3>1, <3>4 DEF WatchInv
    <2> QED
      BY <1>0, <2>1, <2>2, <2>3, QuietStep DEF historyVars
  <1>14. ASSUME NEW n \in Nodes, NodeRestart(n) PROVE OnlineInv'
    <2>1. \A j \in Tunnels : QuietTunnel(j)
      BY <1>14, <1>a, <1>b DEF NodeRestart, QuietTunnel
    <2>2. UNCHANGED <<owner, token, online, historyVars>>
      BY <1>14 DEF NodeRestart
    <2>3. WatchInv'
      BY <1>14 DEF NodeRestart, OnlineInv, TypeOK, WatchInv, historyVars
    <2> QED
      BY <1>0, <2>1, <2>2, <2>3, QuietStep DEF historyVars
  <1>15. ASSUME NEW i \in Tunnels, NEW n \in Nodes, NEW c \in Clients, Accept(i, n, c)
         PROVE  OnlineInv'
    <2>1. /\ stage[i] = "unborn" /\ owner[i] = Nobody /\ pending[i] = 0
          /\ \A d \in Clients : online[d] # i /\ last[d] # i
      <3>1. stage[i] = "unborn"
        BY <1>15 DEF Accept
      <3>2. owner[i] = Nobody /\ pending[i] = 0
        BY <1>a, <3>1 DEF OnlineInv, BirthInv
      <3>3. \A d \in Clients : online[d] # i
        BY <3>2, OnlineAssumption DEF OnlineInv, RecordIsAuthentic
      <3>4. \A d \in Clients : last[d] # i
        BY <3>1, OnlineAssumption DEF OnlineInv, LastInv
      <3> QED
        BY <3>1, <3>2, <3>3, <3>4
    <2>2. /\ stage' = [stage EXCEPT ![i] = "accepted"]
          /\ owner' = [owner EXCEPT ![i] = c]
          /\ \E holds \in BOOLEAN : token' = [token EXCEPT ![i] = holds]
          /\ UNCHANGED <<issued, pending, online, watch, kick, historyVars>>
      BY <1>15 DEF Accept
    <2> USE OnlineAssumption DEF OnlineInv, TypeOK, historyVars
    <2>3. BirthInv' /\ LoginInv'
      BY <2>1, <2>2, <1>a DEF BirthInv, LoginInv
    <2>4. DeleteInv' /\ LastInv'
      BY <2>1, <2>2 DEF DeleteInv, LastInv
    <2>5. WatchInv' /\ KickOnlyReplaced'
      BY <2>2 DEF WatchInv, KickOnlyReplaced
    <2>6. RecordIsAuthentic' /\ GhostIsLeftover' /\ LatestRecordedUnlessStale'
      BY <2>1, <2>2 DEF RecordIsAuthentic, GhostIsLeftover, LatestRecordedUnlessStale
    <2> QED
      BY <1>0, <2>3, <2>4, <2>5, <2>6
  <1>16. ASSUME NEW i \in Tunnels, LoginPut(i) PROVE OnlineInv'
    <2> DEFINE c == owner[i]
               old == online[c]
    <2>1. /\ pending[i] > 0 /\ issued[i] > 0 /\ token[i]
          /\ stage[i] \notin {"unborn", "accepted"} /\ c \in Clients
      <3>1. pending[i] > 0
        BY <1>16 DEF LoginPut
      <3>2. issued[i] > 0
        BY <1>a, <3>1
      <3>3. token[i] /\ stage[i] \notin {"unborn", "accepted"}
        BY <3>1 DEF OnlineInv, LoginInv, BirthInv
      <3>4. c \in Clients
        BY <3>3 DEF OnlineInv, TypeOK, BirthInv
      <3> QED
        BY <3>1, <3>2, <3>3, <3>4
    <2>a. /\ pending' = [pending EXCEPT ![i] = @ - 1]
          /\ last' = [last EXCEPT ![c] = i]
          /\ UNCHANGED <<issued, tunnelVars, sessionVars, kickVars>>
      BY <1>16 DEF LoginPut
    <2>b. BirthInv' /\ LoginInv'
      <3>1. ASSUME NEW j \in Tunnels
            PROVE  /\ pending'[j] <= issued[j]
                   /\ pending'[j] > 0 => pending[j] > 0
        <4>1. CASE j = i
          <5>1. pending'[i] = pending[i] - 1
            BY <1>b, <2>a
          <5> QED
            BY <1>a, <2>1, <4>1, <5>1
        <4>2. CASE j # i
          <5>1. pending'[j] = pending[j]
            BY <1>b, <2>a, <4>2
          <5> QED
            BY <1>a, <5>1
        <4> QED
          BY <4>1, <4>2
      <3>2. UNCHANGED <<stage, owner, token, issued>>
        BY <2>a
      <3>3. BirthInv'
        BY <3>1, <3>2 DEF OnlineInv, BirthInv
      <3>4. LoginInv'
        BY <3>1, <3>2 DEF OnlineInv, LoginInv
      <3> QED
        BY <3>3, <3>4
    <2>c. LastInv'
      BY <2>1, <2>a DEF OnlineInv, TypeOK, LastInv
    <2>d. CASE /\ unkept' = unkept \cup {c}
               /\ UNCHANGED <<online, watch, replacedBy, overtaken, staleDelete, leftover>>
      <3> HIDE DEF c, old
      <3>1. DeleteInv' /\ WatchInv' /\ KickOnlyReplaced' /\ RecordIsAuthentic'
            /\ GhostIsLeftover'
        BY <2>a, <2>d DEF OnlineInv, DeleteInv, WatchInv, KickOnlyReplaced, RecordIsAuthentic,
                          GhostIsLeftover
      <3>2. LatestRecordedUnlessStale'
        BY <2>1, <2>a, <2>d DEF OnlineInv, TypeOK, LatestRecordedUnlessStale
      <3> QED
        BY <1>0, <2>b, <2>c, <3>1, <3>2 DEF OnlineInv
    <2>e. ASSUME online' = [online EXCEPT ![c] = i],
                 unkept' = unkept \ {c},
                 overtaken' = overtaken \cup
                    {j \in Tunnels : stage[j] = "deleting" /\ owner[j] = c},
                 staleDelete' = staleDelete \ {c},
                 leftover' = IF stage[i] = "closed" THEN leftover \cup {i} ELSE leftover,
                 replacedBy' = IF old = NoTunnel
                                 THEN replacedBy
                                 ELSE [replacedBy EXCEPT ![old] = @ \cup {i}],
                 \/ watch' = watch
                 \/ /\ old # NoTunnel
                    /\ watch' = [watch EXCEPT ![home[old]] = Append(@, old)]
          PROVE  OnlineInv'
      <3>1. old # NoTunnel => old \in Tunnels
        BY <2>1 DEF OnlineInv, TypeOK
      <3> HIDE DEF c, old
      <3>2. \A j \in Tunnels : replacedBy[j] # {} => replacedBy'[j] # {}
        BY <2>e DEF OnlineInv, TypeOK
      <3>3. WatchInv'
        <4>1. old # NoTunnel => replacedBy'[old] # {}
          BY <2>e, <3>1 DEF OnlineInv, TypeOK
        <4>2. watch \in [Nodes -> Seq(Tunnels)]
          BY DEF OnlineInv, TypeOK
        <4>3. ASSUME NEW n \in Nodes, NEW k \in 1..Len(watch[n])
              PROVE  replacedBy'[watch[n][k]] # {}
          <5>1. watch[n] \in Seq(Tunnels)
            BY <4>2
          <5>2. watch[n][k] \in Tunnels
            BY <5>1
          <5> QED
            BY <3>2, <5>2 DEF OnlineInv, WatchInv
        <4>4. ASSUME old # NoTunnel, NEW n \in Nodes,
                     NEW k \in 1..Len(Append(watch[n], old))
              PROVE  replacedBy'[Append(watch[n], old)[k]] # {}
          <5>1. watch[n] \in Seq(Tunnels)
            BY <4>2
          <5>2. CASE k = Len(watch[n]) + 1
            BY <3>1, <4>1, <4>4, <5>1, <5>2
          <5>3. CASE k \in 1..Len(watch[n])
            BY <3>1, <4>3, <4>4, <5>1, <5>3
          <5> QED
            BY <3>1, <4>4, <5>1, <5>2, <5>3
        <4> SUFFICES ASSUME NEW n \in Nodes, NEW k \in 1..Len(watch'[n])
                     PROVE  replacedBy'[watch'[n][k]] # {}
          BY DEF WatchInv
        <4>5. CASE watch'[n] = watch[n]
          BY <4>3, <4>5
        <4>6. CASE old # NoTunnel /\ watch'[n] = Append(watch[n], old)
          BY <4>4, <4>6
        <4> QED
          BY <2>e, <4>2, <4>5, <4>6
      <3> USE DEF OnlineInv, TypeOK
      <3>4. DeleteInv'
        BY <2>1, <2>a, <2>e DEF DeleteInv
      <3>5. KickOnlyReplaced'
        BY <2>a, <2>e, <3>2 DEF KickOnlyReplaced
      <3>6. RecordIsAuthentic'
        <4>1. owner[i] = c
          BY DEF c
        <4> QED
          BY <2>1, <2>a, <2>e, <4>1 DEF RecordIsAuthentic
      <3>7. GhostIsLeftover'
        BY <2>1, <2>a, <2>e DEF GhostIsLeftover
      <3>8. LatestRecordedUnlessStale'
        BY <2>1, <2>a, <2>e DEF LatestRecordedUnlessStale
      <3> QED
        BY <1>0, <2>b, <2>c, <3>3, <3>4, <3>5, <3>6, <3>7, <3>8
    <2> QED
      BY <1>16, <2>d, <2>e DEF LoginPut, PrevValue
  <1>17. ASSUME NEW i \in Tunnels, DeleteOnlineClient(i) PROVE OnlineInv'
    <2> DEFINE c == owner[i]
    <2>1. stage[i] = "deleting" /\ c \in Clients
      BY <1>17 DEF DeleteOnlineClient, OnlineInv, TypeOK, BirthInv
    <2>a. CASE leftover' = leftover \cup {i} /\ UNCHANGED <<online, staleDelete>>
      <3>1. /\ stage' = [stage EXCEPT ![i] = "closed"]
            /\ UNCHANGED <<owner, token, issued, pending, kick, watch>>
            /\ UNCHANGED <<last, replacedBy, overtaken, unkept>>
        BY <1>17 DEF DeleteOnlineClient
      <3>2. \A j \in Tunnels : QuietTunnel(j)
        BY <1>a, <1>b, <2>1, <2>a, <3>1 DEF QuietTunnel
      <3> QED
        BY <1>0, <2>a, <3>1, <3>2, QuietStep DEF OnlineInv, WatchInv
    <2>b. SUFFICES ASSUME online' = [online EXCEPT ![c] = NoTunnel],
                          staleDelete' = IF i \in overtaken THEN staleDelete \cup {c}
                                                            ELSE staleDelete,
                          UNCHANGED leftover
                   PROVE  OnlineInv'
      BY <1>17, <2>a DEF DeleteOnlineClient
    <2>2. /\ stage' = [stage EXCEPT ![i] = "closed"]
          /\ online' = [online EXCEPT ![c] = NoTunnel]
          /\ staleDelete' = IF i \in overtaken THEN staleDelete \cup {c} ELSE staleDelete
          /\ UNCHANGED <<tunnelVars, loginVars, kickVars, watch,
                         last, replacedBy, overtaken, leftover, unkept>>
      BY <1>17, <2>b DEF DeleteOnlineClient
    <2>3. i \notin overtaken => online[c] \in {i, NoTunnel}
      BY <2>1 DEF OnlineInv, DeleteInv
    <2> HIDE DEF c
    <2> USE DEF OnlineInv, TypeOK
    <2>4. BirthInv' /\ LoginInv'
      BY <2>1, <2>2 DEF BirthInv, LoginInv
    <2>5. DeleteInv' /\ LastInv'
      BY <2>1, <2>2 DEF DeleteInv, LastInv
    <2>6. WatchInv' /\ KickOnlyReplaced'
      BY <2>2 DEF WatchInv, KickOnlyReplaced
    <2>7. RecordIsAuthentic'
      BY <2>2 DEF RecordIsAuthentic
    <2>8. GhostIsLeftover'
      <3> SUFFICES ASSUME NEW d \in Clients, online'[d] # NoTunnel,
                          stage'[online'[d]] = "closed"
                   PROVE  online'[d] \in leftover
        BY <2>2 DEF GhostIsLeftover
      <3>1. d # c /\ online'[d] = online[d] /\ online[d] # NoTunnel
        BY <2>2
      <3>2. owner[online[d]] = d
        BY <3>1 DEF RecordIsAuthentic
      <3>3. online[d] # i
        BY <3>1, <3>2 DEF c
      <3> QED
        BY <2>2, <3>1, <3>3 DEF GhostIsLeftover
    <2>9. LatestRecordedUnlessStale'
      <3> SUFFICES ASSUME NEW d \in Clients, last[d] # NoTunnel,
                          stage'[last[d]] = "serving"
                   PROVE  online'[d] = last[d] \/ d \in staleDelete' \cup unkept'
        BY <2>2 DEF LatestRecordedUnlessStale
      <3>1. last[d] # i /\ stage[last[d]] = "serving"
        BY <2>2
      <3>2. online[d] = last[d] \/ d \in staleDelete \cup unkept
        BY <3>1 DEF LatestRecordedUnlessStale
      <3>3. CASE d = c
        BY <2>2, <2>3, <3>1, <3>2, <3>3
      <3>4. CASE d # c
        BY <2>2, <3>2, <3>4
      <3> QED
        BY <3>3, <3>4
    <2> QED
      BY <1>0, <2>4, <2>5, <2>6, <2>7, <2>8, <2>9
  <1>18. ASSUME NEW c \in Clients, LeaseExpire(c) PROVE OnlineInv'
    <2>1. /\ stage[online[c]] = "dead"
          /\ online' = [online EXCEPT ![c] = NoTunnel]
          /\ UNCHANGED <<tunnelVars, sessionVars, loginVars, kickVars, watch, historyVars>>
      BY <1>18 DEF LeaseExpire, Renewed
    <2> USE DEF OnlineInv, TypeOK, historyVars
    <2>2. BirthInv' /\ LoginInv' /\ LastInv' /\ WatchInv' /\ KickOnlyReplaced'
      BY <2>1 DEF BirthInv, LoginInv, LastInv, WatchInv, KickOnlyReplaced
    <2>3. DeleteInv'
      BY <2>1 DEF DeleteInv
    <2>4. RecordIsAuthentic' /\ GhostIsLeftover'
      BY <2>1 DEF RecordIsAuthentic, GhostIsLeftover
    <2>5. LatestRecordedUnlessStale'
      BY <2>1 DEF LatestRecordedUnlessStale
    <2> QED
      BY <1>0, <2>2, <2>3, <2>4, <2>5
  <1>19. ASSUME NEW c \in Clients, KeepaliveLost(c) PROVE OnlineInv'
    <2>1. /\ online' = [online EXCEPT ![c] = NoTunnel]
          /\ unkept' = unkept \cup {c}
          /\ UNCHANGED <<tunnelVars, sessionVars, loginVars, kickVars, watch>>
          /\ UNCHANGED <<last, replacedBy, overtaken, staleDelete, leftover>>
      BY <1>19 DEF KeepaliveLost
    <2> USE DEF OnlineInv, TypeOK
    <2>2. BirthInv' /\ LoginInv' /\ LastInv' /\ WatchInv' /\ KickOnlyReplaced'
      BY <2>1 DEF BirthInv, LoginInv, LastInv, WatchInv, KickOnlyReplaced
    <2>3. DeleteInv'
      BY <2>1 DEF DeleteInv
    <2>4. RecordIsAuthentic' /\ GhostIsLeftover'
      BY <2>1 DEF RecordIsAuthentic, GhostIsLeftover
    <2>5. LatestRecordedUnlessStale'
      BY <2>1 DEF LatestRecordedUnlessStale
    <2> QED
      BY <1>0, <2>2, <2>3, <2>4, <2>5
  <1>20. CASE UNCHANGED vars
    <2>1. \A j \in Tunnels : QuietTunnel(j)
      BY <1>20, <1>a DEF vars, QuietTunnel
    <2>2. UNCHANGED <<owner, token, online, watch, historyVars>>
      BY <1>20 DEF vars
    <2> QED
      BY <1>0, <2>1, <2>2, QuietStep DEF OnlineInv, WatchInv, historyVars
  <1> QED
    BY <1>1, <1>2, <1>3, <1>4, <1>5, <1>6, <1>7, <1>8, <1>9, <1>10, <1>11, <1>12,
       <1>13, <1>14, <1>15, <1>16, <1>17, <1>18, <1>19, <1>20 DEF Next

-----------------------------------------------------------------------------
(* The properties follow.                                                  *)

\* Spec keeps OnlineInv: the strengthening the theorems below rest on.
THEOREM OnlineInvariant == Spec => []OnlineInv
  BY InitOnlineInv, NextOnlineInv, PTL DEF Spec

\* The variables keep their types: what is put, watched, replaced or deleted is a
\* tunnel, whatever the number of logins (node.go:180-185, 242-307).
THEOREM TypeCorrect == Spec => []TypeOK
  <1>1. OnlineInv => TypeOK
    BY DEF OnlineInv
  <1> QED
    BY <1>1, OnlineInvariant, PTL

\* A record names a tunnel whose process has shown its client's token.
THEOREM RecordsAreAuthentic == Spec => []RecordIsAuthentic
  <1>1. OnlineInv => RecordIsAuthentic
    BY DEF OnlineInv
  <1> QED
    BY <1>1, OnlineInvariant, PTL

\* A closed tunnel is recorded only when a login handler outlived it, or when its
\* delete did not reach etcd.
THEOREM GhostsAreLeftover == Spec => []GhostIsLeftover
  <1>1. OnlineInv => GhostIsLeftover
    BY DEF OnlineInv
  <1> QED
    BY <1>1, OnlineInvariant, PTL

\* The latest login stays recorded but for a stale delete and what etcd loses.
THEOREM LatestStaysRecorded == Spec => []LatestRecordedUnlessStale
  <1>1. OnlineInv => LatestRecordedUnlessStale
    BY DEF OnlineInv
  <1> QED
    BY <1>1, OnlineInvariant, PTL

\* Only a tunnel whose record was replaced is ever kicked.
THEOREM KicksOnlyReplaced == Spec => []KickOnlyReplaced
  <1>1. OnlineInv => KickOnlyReplaced
    BY DEF OnlineInv
  <1> QED
    BY <1>1, OnlineInvariant, PTL
-----------------------------------------------------------------------------
(* The refinement of SessionRegistry.                                      *)

\* What the registry sees of a tunnel.
Verified == {i \in Tunnels : token[i] /\ issued[i] > 0}
Ended == {i \in Tunnels : stage[i] \notin {"unborn", "accepted", "serving"}}
Replaced == {i \in Tunnels : replacedBy[i] # {}}
Kicked == {i \in Tunnels : kick[i] # "none"}
Leaving == {i \in Tunnels : stage[i] = "deleting"}

registryVars == <<owner, Verified, Ended, online, Replaced, Kicked, Leaving, unkept>>

LEMMA InitRegistry == Init => Registry!Init
  BY OnlineAssumption DEF Init, Registry!Init

\* A tunnel that ends otherwise than by a removed record ends in the registry.
LEMMA EndOf ==
  ASSUME TypeOK, NEW E \in SUBSET Tunnels, \A i \in E : owner[i] # Nobody,
         Ended' = Ended \cup E, Leaving' = Leaving \ E,
         UNCHANGED <<owner, Verified, online, Replaced, Kicked, unkept>>
  PROVE  Registry!Next
  <1>1. Registry!End(E)
    BY DEF Registry!End, Verified, Ended, Replaced, Kicked, Leaving
  <1> QED
    BY <1>1 DEF Registry!Next

\* One tunnel ends, which was not about to remove its record.
LEMMA MoveEnds ==
  ASSUME TypeOK, BirthInv, NEW i \in Tunnels, NEW from, NEW to,
         Move(i, from, to), from \notin {"unborn", "deleting"},
         to \notin {"unborn", "accepted", "serving", "deleting"},
         UNCHANGED <<owner, Verified, online, Replaced, Kicked, unkept>>
  PROVE  Registry!Next
  <1>1. stage[i] = from /\ stage'[i] = to /\ \A j \in Tunnels : j # i => stage'[j] = stage[j]
    BY DEF Move, TypeOK
  <1>2. owner[i] # Nobody
    BY <1>1 DEF BirthInv
  <1>3. Ended' = Ended \cup {i} /\ Leaving' = Leaving \ {i}
    BY <1>1 DEF Ended, Leaving
  <1>4. {i} \in SUBSET Tunnels /\ \A j \in {i} : owner[j] # Nobody
    BY <1>2
  <1> QED
    BY <1>3, <1>4, EndOf

LEMMA NextRegistry == OnlineInv /\ [Next]_vars => [Registry!Next]_registryVars
  <1> SUFFICES ASSUME OnlineInv, [Next]_vars PROVE Registry!Next \/ UNCHANGED registryVars
    BY DEF registryVars
  <1> USE OnlineAssumption DEF OnlineInv, registryVars
  <1>1. ASSUME NEW i \in Tunnels, NEW n \in Nodes, NEW c \in Clients, Accept(i, n, c)
        PROVE  Registry!Next
    <2>1. owner[i] = Nobody /\ owner' = [owner EXCEPT ![i] = c]
      BY <1>1 DEF Accept, Move, BirthInv
    <2>2. \A j \in Tunnels : j # i => UNCHANGED <<stage[j], token[j]>>
      BY <1>1 DEF Accept, Move, TypeOK
    <2>3. stage[i] = "unborn" /\ stage'[i] = "accepted"
      BY <1>1 DEF Accept, Move, TypeOK
    <2>4. UNCHANGED <<issued, online, replacedBy, kick, unkept>>
      BY <1>1 DEF Accept, loginVars, historyVars
    <2>5. issued[i] = 0
      BY <2>3 DEF BirthInv
    <2>6. UNCHANGED <<Verified, Ended, Replaced, Kicked, Leaving>>
      BY <2>2, <2>3, <2>4, <2>5 DEF Verified, Ended, Replaced, Kicked, Leaving
    <2>7. Registry!Open(i, c)
      BY <2>1, <2>4, <2>6 DEF Registry!Open, Verified, Ended, Replaced, Kicked, Leaving
    <2> QED
      BY <2>7 DEF Registry!Next
  <1>2. ASSUME NEW i \in Tunnels, SetIdWritten(i) PROVE UNCHANGED registryVars
    BY <1>2 DEF SetIdWritten, Move, TypeOK, tunnelVars, loginVars, kickVars, historyVars,
       Verified, Ended, Replaced, Kicked, Leaving
  <1>3. ASSUME NEW i \in Tunnels, NEW from, NEW to, Move(i, from, to),
               from \notin {"unborn", "deleting"},
               to \notin {"unborn", "accepted", "serving", "deleting"},
               UNCHANGED <<owner, token, issued, online, replacedBy, kick, unkept>>
        PROVE  Registry!Next
    BY <1>3, MoveEnds DEF Verified, Replaced, Kicked
  <1>4. ASSUME NEW i \in Tunnels,
               SetIdFailed(i) \/ RejectClose(i) \/ ReadError(i) \/ HeartbeatExpired(i) \/ onClose(i)
        PROVE  Registry!Next
    <2>1. UNCHANGED <<owner, token, issued, online, replacedBy, kick, unkept>>
      BY <1>4 DEF SetIdFailed, RejectClose, ReadError, HeartbeatExpired, onClose,
         tunnelVars, loginVars, kickVars, historyVars
    <2>2. \/ Move(i, "accepted", "leaked") \/ Move(i, "serving", "cancelled")
          \/ Move(i, "cancelled", "closing")
      BY <1>4 DEF SetIdFailed, RejectClose, ReadError, HeartbeatExpired, onClose, HookLeadsTo
    <2> QED
      BY <2>1, <2>2, <1>3
  <1>5. ASSUME NEW i \in Tunnels, LoginVerify(i) PROVE Registry!Next \/ UNCHANGED registryVars
    <2>1. UNCHANGED <<owner, token, stage, online, replacedBy, kick, unkept>>
      BY <1>5 DEF LoginVerify, tunnelVars, sessionVars, kickVars, historyVars
    <2>2. UNCHANGED <<Ended, Replaced, Kicked, Leaving>>
      BY <2>1 DEF Ended, Replaced, Kicked, Leaving
    <2>3. /\ stage[i] = "serving" /\ issued'[i] > 0
          /\ \A j \in Tunnels : j # i => issued'[j] = issued[j]
      BY <1>5 DEF LoginVerify, TypeOK
    <2>4. CASE token[i]
      <3>1. Verified' = Verified \cup {i}
        BY <2>1, <2>3, <2>4 DEF Verified
      <3>2. owner[i] # Nobody /\ i \notin Ended
        BY <2>3 DEF BirthInv, Ended
      <3>3. Registry!Verify(i)
        BY <2>1, <2>2, <3>1, <3>2 DEF Registry!Verify, Verified, Ended, Replaced, Kicked, Leaving
      <3> QED
        BY <3>3 DEF Registry!Next
    <2>5. CASE ~token[i]
      <3>1. Verified' = Verified
        BY <2>1, <2>3, <2>5 DEF Verified
      <3> QED
        BY <2>1, <2>2, <3>1
    <2> QED
      BY <2>4, <2>5
  <1>6. ASSUME NEW i \in Tunnels, LoginPut(i) PROVE Registry!Next
    <2> DEFINE c == owner[i]
    <2>1. UNCHANGED <<owner, token, stage, issued, kick>>
      BY <1>6 DEF LoginPut, tunnelVars, sessionVars, kickVars
    <2>2. UNCHANGED <<Verified, Ended, Kicked, Leaving>>
      BY <2>1 DEF Verified, Ended, Kicked, Leaving
    <2>3. i \in Verified /\ c \in Clients
      <3>1. pending[i] \in Nat /\ issued[i] \in Nat /\ owner[i] \in Clients \cup {Nobody}
        BY DEF TypeOK
      <3>2. pending[i] > 0
        BY <1>6 DEF LoginPut
      <3>3. token[i] /\ pending[i] <= issued[i] /\ owner[i] # Nobody
        BY <3>2 DEF LoginInv, BirthInv
      <3> QED
        BY <3>1, <3>2, <3>3 DEF Verified
    <2>4. CASE /\ online' = [online EXCEPT ![c] = i]
               /\ replacedBy' = IF online[c] = NoTunnel THEN replacedBy
                                ELSE [replacedBy EXCEPT ![online[c]] = @ \cup {i}]
               /\ unkept' = unkept \ {c}
      <3>1. Replaced' = Replaced \cup ({online[c]} \ {NoTunnel})
        <4>1. online[c] \in Tunnels \cup {NoTunnel}
          BY <2>3 DEF TypeOK
        <4>2. CASE online[c] = NoTunnel
          BY <2>4, <4>2 DEF Replaced
        <4>3. CASE online[c] # NoTunnel
          <5>1. /\ replacedBy'[online[c]] # {}
                /\ \A j \in Tunnels : j # online[c] => replacedBy'[j] = replacedBy[j]
            BY <2>4, <4>1, <4>3 DEF TypeOK
          <5> QED
            BY <4>1, <4>3, <5>1 DEF Replaced
        <4> QED
          BY <4>2, <4>3
      <3>2. Registry!Login(i)
        BY <2>1, <2>2, <2>3, <2>4, <3>1
           DEF Registry!Login, Verified, Ended, Replaced, Kicked, Leaving
      <3> QED
        BY <3>2 DEF Registry!Next
    <2>5. CASE unkept' = unkept \cup {c} /\ UNCHANGED <<online, replacedBy>>
      <3>1. Registry!Lose(c)
        BY <2>1, <2>2, <2>5 DEF Registry!Lose, Verified, Ended, Replaced, Kicked, Leaving
      <3> QED
        BY <2>3, <3>1 DEF Registry!Next
    <2> QED
      BY <1>6, <2>4, <2>5 DEF LoginPut
  <1>7. ASSUME NEW i \in Tunnels, onInvoker_Kick(i) PROVE UNCHANGED registryVars
    <2>1. UNCHANGED <<owner, token, issued, stage, online, replacedBy, unkept>>
      BY <1>7 DEF onInvoker_Kick, tunnelVars, loginVars, historyVars
    <2>2. Kicked' = Kicked
      BY <1>7 DEF onInvoker_Kick, Kicked, TypeOK
    <2> QED
      BY <2>1, <2>2 DEF Verified, Ended, Replaced, Leaving
  <1>8. ASSUME NEW i \in Tunnels, AddUniHandler(i) \/ ConnectionLost(i)
        PROVE  UNCHANGED registryVars
    BY <1>8 DEF AddUniHandler, ConnectionLost, tunnelVars, sessionVars, loginVars, kickVars,
       historyVars, Verified, Ended, Replaced, Kicked, Leaving
  <1>9. ASSUME NEW i \in Tunnels, GetOnlineClient(i) PROVE Registry!Next
    <2>1. UNCHANGED <<owner, token, issued, online, replacedBy, kick, unkept>>
      BY <1>9 DEF GetOnlineClient, tunnelVars, loginVars, kickVars
    <2>2. CASE Move(i, "closing", "closed")
      BY <2>1, <2>2, <1>3
    <2>3. CASE Move(i, "closing", "deleting") /\ online[owner[i]] = i
      <3>1. /\ stage[i] = "closing" /\ stage'[i] = "deleting"
            /\ \A j \in Tunnels : j # i => stage'[j] = stage[j]
        BY <2>3 DEF Move, TypeOK
      <3>2. UNCHANGED <<Verified, Ended, Replaced, Kicked>> /\ i \in Ended
        BY <2>1, <3>1 DEF Verified, Ended, Replaced, Kicked
      <3>3. Leaving' = Leaving \cup {i}
        BY <3>1 DEF Leaving
      <3>4. Registry!Leave(i)
        BY <2>1, <2>3, <3>2, <3>3 DEF Registry!Leave, Verified, Ended, Replaced, Kicked, Leaving
      <3> QED
        BY <3>4 DEF Registry!Next
    <2> QED
      BY <1>9, <2>2, <2>3 DEF GetOnlineClient, IsRecorded
  <1>10. ASSUME NEW i \in Tunnels, DeleteOnlineClient(i) PROVE Registry!Next
    <2>1. UNCHANGED <<owner, token, issued, replacedBy, kick, unkept>>
      BY <1>10 DEF DeleteOnlineClient, tunnelVars, loginVars, kickVars
    <2>2. /\ stage[i] = "deleting" /\ stage'[i] = "closed"
          /\ \A j \in Tunnels : j # i => stage'[j] = stage[j]
      BY <1>10 DEF DeleteOnlineClient, Move, TypeOK
    <2>3. UNCHANGED <<Verified, Ended, Replaced, Kicked>> /\ i \in Leaving
      BY <2>1, <2>2 DEF Verified, Ended, Replaced, Kicked, Leaving
    <2>4. Leaving' = Leaving \ {i}
      BY <2>2 DEF Leaving
    <2>5. CASE online' = [online EXCEPT ![owner[i]] = NoTunnel]
      <3>1. Registry!Remove(i)
        BY <2>1, <2>3, <2>4, <2>5 DEF Registry!Remove, Verified, Ended, Replaced, Kicked, Leaving
      <3> QED
        BY <3>1 DEF Registry!Next
    <2>6. CASE UNCHANGED online
      <3>1. Ended' = Ended \cup {i} /\ owner[i] # Nobody
        BY <2>2, <2>3 DEF Ended, BirthInv
      <3>2. {i} \in SUBSET Tunnels /\ \A j \in {i} : owner[j] # Nobody
        BY <3>1
      <3> QED
        BY <2>1, <2>3, <2>4, <2>6, <3>1, <3>2, EndOf
    <2> QED
      BY <1>10, <2>5, <2>6 DEF DeleteOnlineClient
  <1>11. ASSUME NEW n \in Nodes, onWatcher_ClientOnline(n)
         PROVE  Registry!Next \/ UNCHANGED registryVars
    <2>1. PICK i \in Tunnels : i = Head(watch[n]) /\ replacedBy[i] # {}
      <3>1. watch[n] \in Seq(Tunnels) /\ watch[n] # <<>>
        BY <1>11 DEF onWatcher_ClientOnline, TypeOK
      <3>2. 1 \in 1..Len(watch[n]) /\ Head(watch[n]) = watch[n][1] /\ watch[n][1] \in Tunnels
        BY <3>1
      <3> QED
        BY <3>2 DEF WatchInv
    <2>2. UNCHANGED <<owner, token, issued, online, replacedBy, unkept>>
      BY <1>11 DEF onWatcher_ClientOnline, tunnelVars, loginVars, historyVars
    <2>3. UNCHANGED <<Verified, Replaced>>
      BY <2>2 DEF Verified, Replaced
    <2>4. CASE kick' = [kick EXCEPT ![i] = "sent"] /\ UNCHANGED stage
      <3>1. Kicked' = Kicked \cup {i}
        BY <2>1, <2>4 DEF Kicked, TypeOK
      <3>2. UNCHANGED <<Ended, Leaving>>
        BY <2>4 DEF Ended, Leaving
      <3>3. i \in Replaced
        BY <2>1 DEF Replaced
      <3>4. Registry!Kick(i)
        BY <2>2, <2>3, <3>1, <3>2, <3>3
           DEF Registry!Kick, Verified, Ended, Replaced, Kicked, Leaving
      <3> QED
        BY <2>1, <3>4 DEF Registry!Next
    <2>5. CASE stage' = [stage EXCEPT ![i] = IF @ = "serving" THEN "cancelled" ELSE @] /\ UNCHANGED kick
      <3>1. CASE stage[i] = "serving"
        <4>1. Move(i, "serving", "cancelled")
          BY <2>5, <3>1 DEF Move
        <4> QED
          BY <2>1, <2>2, <2>5, <4>1, <1>3
      <3>2. CASE stage[i] # "serving"
        <4>1. UNCHANGED stage
          BY <2>5, <3>2 DEF TypeOK
        <4> QED
          BY <2>2, <2>3, <2>5, <4>1 DEF Ended, Kicked, Leaving
      <3> QED
        BY <3>1, <3>2
    <2>6. CASE UNCHANGED <<stage, kick>>
      BY <2>2, <2>3, <2>6 DEF Ended, Kicked, Leaving
    <2> QED
      BY <1>11, <2>4, <2>5, <2>6, <2>1 DEF onWatcher_ClientOnline
  <1>12. ASSUME NEW n \in Nodes, NodeCrash(n) PROVE Registry!Next
    <2> DEFINE E == {i \in Tunnels : home[i] = n /\ stage[i] # "unborn"}
    <2>1. UNCHANGED <<owner, token, issued, online, replacedBy, kick, unkept>>
      BY <1>12 DEF NodeCrash, tunnelVars, kickVars, historyVars
    <2>2. \A i \in Tunnels : stage'[i] = IF i \in E THEN "dead" ELSE stage[i]
      BY <1>12 DEF NodeCrash
    <2>3. \A i \in E : owner[i] # Nobody
      BY DEF BirthInv
    <2>4. E \in SUBSET Tunnels
      OBVIOUS
    <2> HIDE DEF E
    <2>5. Ended' = Ended \cup E /\ Leaving' = Leaving \ E
      BY <2>2, <2>4 DEF Ended, Leaving
    <2>6. UNCHANGED <<Verified, Replaced, Kicked>>
      BY <2>1 DEF Verified, Replaced, Kicked
    <2> QED
      BY <2>1, <2>3, <2>4, <2>5, <2>6, EndOf
  <1>13. ASSUME NEW n \in Nodes, NodeRestart(n) PROVE UNCHANGED registryVars
    BY <1>13 DEF NodeRestart, tunnelVars, sessionVars, loginVars, kickVars, historyVars,
       Verified, Ended, Replaced, Kicked, Leaving
  <1>14. ASSUME NEW c \in Clients, LeaseExpire(c) \/ KeepaliveLost(c) PROVE Registry!Next
    <2>1. UNCHANGED <<owner, token, issued, stage, replacedBy, kick>>
      BY <1>14 DEF LeaseExpire, KeepaliveLost, tunnelVars, sessionVars, loginVars, kickVars,
         historyVars
    <2>2. UNCHANGED <<Verified, Ended, Replaced, Kicked, Leaving>>
      BY <2>1 DEF Verified, Ended, Replaced, Kicked, Leaving
    <2>3. online' = [online EXCEPT ![c] = NoTunnel]
      BY <1>14 DEF LeaseExpire, KeepaliveLost
    <2>4. CASE LeaseExpire(c)
      <3>1. online[c] \in Ended /\ UNCHANGED unkept
        BY <2>4 DEF LeaseExpire, Renewed, Ended, TypeOK, historyVars
      <3>2. Registry!Expire(c)
        BY <2>1, <2>2, <2>3, <3>1 DEF Registry!Expire, Verified, Ended, Replaced, Kicked, Leaving
      <3> QED
        BY <3>2 DEF Registry!Next
    <2>5. CASE KeepaliveLost(c)
      <3>1. unkept' = unkept \cup {c}
        BY <2>5 DEF KeepaliveLost
      <3>2. Registry!Lose(c)
        BY <2>1, <2>2, <2>3, <3>1 DEF Registry!Lose, Verified, Ended, Replaced, Kicked, Leaving
      <3> QED
        BY <3>2 DEF Registry!Next
    <2> QED
      BY <1>14, <2>4, <2>5
  <1>15. CASE UNCHANGED vars
    BY <1>15 DEF vars, tunnelVars, sessionVars, loginVars, kickVars, historyVars,
       Verified, Ended, Replaced, Kicked, Leaving
  <1> QED
    BY <1>1, <1>2, <1>4, <1>5, <1>6, <1>7, <1>8, <1>9, <1>10, <1>11, <1>12, <1>13, <1>14, <1>15
       DEF Next

\* The nodes keep a registry: who is recorded was verified, who is kicked was
\* replaced, and what takes a record away is the end of its session, of a session
\* that ended while it was recorded, or etcd (node.go:168-307, server.go:95-215).
THEOREM RegistryIsKept == Spec => KeepsRegistry
  <1>1. OnlineInv /\ [Next]_vars => [Registry!Next]_(Registry!vars)
    BY NextRegistry DEF registryVars, Registry!vars, Verified, Ended, Replaced, Kicked, Leaving
  <1> QED
    BY <1>1, InitRegistry, OnlineInvariant, PTL DEF Spec, KeepsRegistry, Registry!Spec
=============================================================================
