---------------------------- MODULE OnlineClients ---------------------------
(***************************************************************************)
(* The command tunnels of the clients at the nodes and the online records  *)
(* the nodes keep of them in etcd: upgradeWebTransport accepts a tunnel,   *)
(* onInvokerClientLogin writes its record, onWatcher_ClientOnline kicks    *)
(* the tunnel that a record replaced, OnCloseClient deletes the record of  *)
(* a tunnel that closes.  No step is a transaction: the nodes, the         *)
(* handlers of one node and the closing tunnels interleave between every   *)
(* two accesses to etcd.  A tunnel stands for the client process behind    *)
(* it; what a process does with more than one tunnel is left to that side. *)
(***************************************************************************)
EXTENDS Naturals, Sequences

CONSTANTS Nodes, Clients,
          Tunnels,    \* the InvokerIds (a fresh uuid per accepted session)
          NoTunnel,   \* no record
          Nobody      \* the owner and the home of a tunnel not yet accepted

ASSUME OnlineAssumption == /\ NoTunnel \notin Tunnels
                           /\ Nobody \notin Nodes \cup Clients

VARIABLES
  up,          \* up[n]: the process of node n runs
  home,        \* home[i]: the node that accepted tunnel i
  owner,       \* owner[i]: its TerminalId
  fresh,       \* fresh[i]: the client was created by this connection
  token,       \* token[i]: the process behind i holds its owner's token
  kickable,    \* kickable[i]: that process has registered its Kick handler
  stage,       \* stage[i]: how far tunnel i has come in its life at its node
  link,        \* link[i]: its session is up
  routed,      \* the tunnels in the InvokeRoute of their node
  issued,      \* issued[i]: the logins the client has sent on i
  pending,     \* pending[i]: its login handlers that are verified, before the PUT
  rejected,    \* the tunnels with a refused login
  online,      \* etcd: online[c] is the InvokerId in the online record of c
  watch,       \* watch[n]: the replaced tunnels of n in PUT events n has to handle
  kick,        \* kick[i]: the Kick request on tunnel i
  last,        \* history: last[c] is the tunnel with the latest login of c
  replacedBy,  \* history: the tunnels whose PUT found the record of i
  overtaken,   \* history: tunnels whose client had a PUT between check and delete
  staleDelete, \* history: clients whose record such a tunnel deleted
  leftover,    \* history: tunnels whose record was written after they closed, or
               \* whose delete of it did not reach etcd
  unkept       \* history: clients whose latest PUT or its keepalive etcd has lost

tunnelVars  == <<home, owner, fresh, token>>
sessionVars == <<stage, link, routed>>
loginVars   == <<issued, pending, rejected>>
kickVars    == <<kickable, kick>>
historyVars == <<last, replacedBy, overtaken, staleDelete, leftover, unkept>>
vars == <<up, tunnelVars, sessionVars, loginVars, kickVars, online, watch, historyVars>>

Stages == {"unborn", "accepted", "leaked", "serving",
           "cancelled", "closing", "deleting", "closed", "dead"}

\* The node no longer has to do anything for a tunnel in one of these.
Gone == {"leaked", "closed", "dead"}

TypeOK ==
  /\ up \in [Nodes -> BOOLEAN]
  /\ home \in [Tunnels -> Nodes \cup {Nobody}]
  /\ owner \in [Tunnels -> Clients \cup {Nobody}]
  /\ fresh \in [Tunnels -> BOOLEAN]
  /\ token \in [Tunnels -> BOOLEAN]
  /\ kickable \in [Tunnels -> BOOLEAN]
  /\ stage \in [Tunnels -> Stages]
  /\ link \in [Tunnels -> BOOLEAN]
  /\ routed \subseteq Tunnels
  /\ issued \in [Tunnels -> Nat]
  /\ pending \in [Tunnels -> Nat]
  /\ rejected \subseteq Tunnels
  /\ online \in [Clients -> Tunnels \cup {NoTunnel}]
  /\ watch \in [Nodes -> Seq(Tunnels)]
  /\ kick \in [Tunnels -> {"none", "sent", "ignored", "obeyed"}]
  /\ last \in [Clients -> Tunnels \cup {NoTunnel}]
  /\ replacedBy \in [Tunnels -> SUBSET Tunnels]
  /\ overtaken \subseteq Tunnels
  /\ staleDelete \subseteq Clients
  /\ leftover \subseteq Tunnels
  /\ unkept \subseteq Clients

Init ==
  /\ up = [n \in Nodes |-> TRUE]
  /\ home = [i \in Tunnels |-> Nobody]
  /\ owner = [i \in Tunnels |-> Nobody]
  /\ fresh = [i \in Tunnels |-> FALSE]
  /\ token = [i \in Tunnels |-> FALSE]
  /\ kickable = [i \in Tunnels |-> FALSE]
  /\ stage = [i \in Tunnels |-> "unborn"]
  /\ link = [i \in Tunnels |-> FALSE]
  /\ routed = {}
  /\ issued = [i \in Tunnels |-> 0]
  /\ pending = [i \in Tunnels |-> 0]
  /\ rejected = {}
  /\ online = [c \in Clients |-> NoTunnel]
  /\ watch = [n \in Nodes |-> <<>>]
  /\ kick = [i \in Tunnels |-> "none"]
  /\ last = [c \in Clients |-> NoTunnel]
  /\ replacedBy = [i \in Tunnels |-> {}]
  /\ overtaken = {}
  /\ staleDelete = {}
  /\ leftover = {}
  /\ unkept = {}

Move(i, from, to) == stage[i] = from /\ stage' = [stage EXCEPT ![i] = to]

-----------------------------------------------------------------------------
(* upgradeWebTransport.                                                    *)

\* A session with the command type is upgraded and enters the route.  With
\* an empty TerminalId the node creates the client, and its token reaches
\* the process over this very tunnel.
Accept(i, n, c) ==
  /\ up[n]
  /\ Move(i, "unborn", "accepted")
  /\ home' = [home EXCEPT ![i] = n]
  /\ owner' = [owner EXCEPT ![i] = c]
  /\ \E new \in BOOLEAN, holds \in BOOLEAN :
       /\ new => holds /\ \A j \in Tunnels : owner[j] # c
       /\ fresh' = [fresh EXCEPT ![i] = new]
       /\ token' = [token EXCEPT ![i] = holds]
  /\ \E registered \in BOOLEAN : kickable' = [kickable EXCEPT ![i] = registered]
  /\ link' = [link EXCEPT ![i] = TRUE]
  /\ routed' = routed \cup {i}
  /\ UNCHANGED <<up, loginVars, kick, online, watch, historyVars>>

\* The SetId write succeeds, also when the session is already lost; the hooks
\* are set and DispatchInvoke starts.
SetIdWritten(i) ==
  /\ Move(i, "accepted", "serving")
  /\ UNCHANGED <<up, tunnelVars, link, routed, loginVars, kickVars, online, watch,
                 historyVars>>

\* The SetId write fails: Close runs before SetOnClose, so no hook takes the
\* invoker out of the route.
SetIdFailed(i) ==
  /\ ~link[i]
  /\ Move(i, "accepted", "leaked")
  /\ UNCHANGED <<up, tunnelVars, link, routed, loginVars, kickVars, online, watch,
                 historyVars>>

-----------------------------------------------------------------------------
(* onInvokerClientLogin, in a goroutine per request.                       *)

\* OnConnected logs in once per tunnel, and the OnNewClient of a client that the node
\* has created once more, on the tunnel that is the default one by then: the first
\* tunnel, or any later one if the handler is late.
Logins(i) == IF \E j \in Tunnels : fresh[j] /\ owner[j] = owner[i] THEN 2 ELSE 1

\* A slip: the token of the request is not compared with the client's.
Authenticated_Always(i) == TRUE

Authenticated(i) == token[i]

\* The request is read and the handler compares its token; without the record of the
\* client, which it may fail to read, it refuses.  What it reads of the online
\* record afterwards is not used.
LoginVerify(i) ==
  /\ stage[i] = "serving"
  /\ link[i]
  /\ issued[i] < Logins(i)
  /\ issued' = [issued EXCEPT ![i] = @ + 1]
  /\ \/ Authenticated(i) /\ pending' = [pending EXCEPT ![i] = @ + 1] /\ UNCHANGED rejected
     \/ rejected' = rejected \cup {i} /\ UNCHANGED pending
  /\ UNCHANGED <<up, tunnelVars, sessionVars, kickVars, online, watch, historyVars>>

\* A slip: the watcher is handed the new value instead of the previous one.
PrevValue_Current(old, i) == i

PrevValue(old, i) == old

\* The PUT, whatever has become of the tunnel meanwhile.  etcd sends the event
\* with the previous value to every node; it means something to the node of
\* the replaced tunnel only.  An error of the PUT is dropped.  The response that
\* follows changes nothing more: if it cannot be written the tunnel closes, as it
\* does in ReadError.
LoginPut(i) ==
  LET c == owner[i]
      old == online[c]
      prev == PrevValue(old, i)
  IN /\ pending[i] > 0
     /\ pending' = [pending EXCEPT ![i] = @ - 1]
     /\ last' = [last EXCEPT ![c] = i]
     /\ \/ /\ online' = [online EXCEPT ![c] = i]
           /\ watch' = IF prev # NoTunnel /\ up[home[prev]]
                         THEN [watch EXCEPT ![home[prev]] = Append(@, prev)]
                         ELSE watch
           /\ replacedBy' = IF old = NoTunnel THEN replacedBy
                                              ELSE [replacedBy EXCEPT ![old] = @ \cup {i}]
           /\ overtaken' = overtaken \cup
                             {j \in Tunnels : stage[j] = "deleting" /\ owner[j] = c}
           /\ staleDelete' = staleDelete \ {c}
           /\ leftover' = IF stage[i] = "closed" THEN leftover \cup {i} ELSE leftover
           /\ unkept' = unkept \ {c}
        \/ /\ unkept' = unkept \cup {c}
           /\ UNCHANGED <<online, watch, replacedBy, overtaken, staleDelete, leftover>>
     /\ UNCHANGED <<up, issued, rejected, tunnelVars, sessionVars, kickVars>>

\* 50 ms after a refused login the node closes the tunnel.
RejectClose(i) ==
  /\ i \in rejected
  /\ Move(i, "serving", "cancelled")
  /\ UNCHANGED <<up, tunnelVars, link, routed, loginVars, kickVars, online, watch,
                 historyVars>>

-----------------------------------------------------------------------------
(* Kicking the tunnel a login has replaced.                                *)

\* The node handles one PUT event.  The Kick reaches the client, or is lost
\* with the session; when the write fails, writeErrorHandler closes.
onWatcher_ClientOnline(n) ==
  /\ up[n]
  /\ watch[n] # <<>>
  /\ watch' = [watch EXCEPT ![n] = Tail(@)]
  /\ LET i == Head(watch[n]) IN
       \/ /\ i \in routed /\ link[i]
          /\ kick' = [kick EXCEPT ![i] = "sent"]
          /\ UNCHANGED stage
       \/ /\ i \in routed /\ ~link[i]
          /\ stage' = [stage EXCEPT ![i] = IF @ = "serving" THEN "cancelled" ELSE @]
          /\ UNCHANGED kick
       \/ /\ i \notin routed \/ ~link[i]
          /\ UNCHANGED <<stage, kick>>
  /\ UNCHANGED <<up, tunnelVars, link, routed, loginVars, kickable, online, historyVars>>

\* A slip: the client acknowledges the Kick and goes on.
Exit_GoOn(i) == UNCHANGED link

Exit(i) == link' = [link EXCEPT ![i] = FALSE]

\* The client reads the Kick: it exits, or, when its handlers are not yet
\* registered, drops the request.
onInvoker_Kick(i) ==
  /\ kick[i] = "sent"
  /\ link[i]
  /\ IF kickable[i]
       THEN /\ Exit(i)
            /\ kick' = [kick EXCEPT ![i] = "obeyed"]
       ELSE /\ kick' = [kick EXCEPT ![i] = "ignored"]
            /\ UNCHANGED link
  /\ UNCHANGED <<up, tunnelVars, stage, routed, loginVars, kickable, online, watch,
                 historyVars>>

\* InitClient registers the client's handlers once ConnectTo has returned.
AddUniHandler(i) ==
  /\ stage[i] # "unborn"
  /\ ~kickable[i]
  /\ kickable' = [kickable EXCEPT ![i] = TRUE]
  /\ UNCHANGED <<up, tunnelVars, sessionVars, loginVars, kick, online, watch, historyVars>>

-----------------------------------------------------------------------------
(* The end of a tunnel.                                                    *)

\* The network fails or the client goes away.
ConnectionLost(i) ==
  /\ link[i]
  /\ link' = [link EXCEPT ![i] = FALSE]
  /\ UNCHANGED <<up, tunnelVars, stage, routed, loginVars, kickVars, online, watch,
                 historyVars>>

\* DispatchInvoke: ReadInvoke fails, Close, RemoveInvoker.
ReadError(i) ==
  /\ ~link[i]
  /\ Move(i, "serving", "cancelled")
  /\ routed' = routed \ {i}
  /\ UNCHANGED <<up, tunnelVars, link, loginVars, kickVars, online, watch, historyVars>>

\* 30 s after the last heartbeat the route's cache drops the tunnel and its
\* expire handler closes it.
HeartbeatExpired(i) ==
  /\ Move(i, "serving", "cancelled")
  /\ routed' = routed \ {i}
  /\ UNCHANGED <<up, tunnelVars, link, loginVars, kickVars, online, watch, historyVars>>

\* A slip: the onClose hook does not call the adapter's OnCloseClient.
HookLeadsTo_Closed == "closed"

HookLeadsTo == "closing"

onClose(i) ==
  /\ Move(i, "cancelled", HookLeadsTo)
  /\ link' = [link EXCEPT ![i] = FALSE]
  /\ routed' = routed \ {i}
  /\ UNCHANGED <<up, tunnelVars, loginVars, kickVars, online, watch, historyVars>>

\* A slip: the record is deleted without comparing its InvokerId.
IsRecorded_Any(i) == online[owner[i]] # NoTunnel

IsRecorded(i) == online[owner[i]] = i

\* OnCloseClient reads the record and compares its InvokerId; a read that fails
\* is no record.
GetOnlineClient(i) ==
  /\ \/ /\ Move(i, "closing", IF IsRecorded(i) THEN "deleting" ELSE "closed")
        /\ UNCHANGED leftover
     \/ /\ Move(i, "closing", "closed")
        /\ leftover' = leftover \cup {i}
  /\ UNCHANGED <<up, tunnelVars, link, routed, loginVars, kickVars, online, watch,
                 last, replacedBy, overtaken, staleDelete, unkept>>

\* ... and deletes whatever the key holds by then, or the delete is lost.
DeleteOnlineClient(i) ==
  /\ Move(i, "deleting", "closed")
  /\ \/ /\ online' = [online EXCEPT ![owner[i]] = NoTunnel]
        /\ staleDelete' = IF i \in overtaken THEN staleDelete \cup {owner[i]}
                                             ELSE staleDelete
        /\ UNCHANGED leftover
     \/ /\ leftover' = leftover \cup {i}
        /\ UNCHANGED <<online, staleDelete>>
  /\ UNCHANGED <<up, tunnelVars, link, routed, loginVars, kickVars, watch,
                 last, replacedBy, overtaken, unkept>>

-----------------------------------------------------------------------------
(* Nodes.                                                                  *)

\* The process of n ends: its sessions, its goroutines and its watch with it.
\* Its records stay until their leases run out.
NodeCrash(n) ==
  LET here == {i \in Tunnels : home[i] = n /\ stage[i] # "unborn"}
  IN /\ up[n]
     /\ up' = [up EXCEPT ![n] = FALSE]
     /\ stage' = [i \in Tunnels |-> IF i \in here THEN "dead" ELSE stage[i]]
     /\ link' = [i \in Tunnels |-> link[i] /\ i \notin here]
     /\ routed' = routed \ here
     /\ pending' = [i \in Tunnels |-> IF i \in here THEN 0 ELSE pending[i]]
     /\ watch' = [watch EXCEPT ![n] = <<>>]
     /\ UNCHANGED <<tunnelVars, issued, rejected, kickVars, online, historyVars>>

NodeRestart(n) ==
  /\ ~up[n]
  /\ up' = [up EXCEPT ![n] = TRUE]
  /\ UNCHANGED <<tunnelVars, sessionVars, loginVars, kickVars, online, watch,
                 historyVars>>

\* A slip: the record is written without a lease.
Renewed_ForGood(i) == TRUE

Renewed(i) == stage[i] # "dead"

\* The lease of PutValueAndKeepAlive runs out when its node no longer renews it.
LeaseExpire(c) ==
  /\ online[c] # NoTunnel
  /\ ~Renewed(online[c])
  /\ online' = [online EXCEPT ![c] = NoTunnel]
  /\ UNCHANGED <<up, tunnelVars, sessionVars, loginVars, kickVars, watch, historyVars>>

\* The keepalive of a living node does not reach etcd in time: nobody reads the
\* channel that says so, and the record is not written again.
KeepaliveLost(c) ==
  /\ online[c] # NoTunnel
  /\ Renewed(online[c])
  /\ online' = [online EXCEPT ![c] = NoTunnel]
  /\ unkept' = unkept \cup {c}
  /\ UNCHANGED <<up, tunnelVars, sessionVars, loginVars, kickVars, watch,
                 last, replacedBy, overtaken, staleDelete, leftover>>

Next ==
  \/ \E i \in Tunnels :
       \/ \E n \in Nodes, c \in Clients : Accept(i, n, c)
       \/ SetIdWritten(i)
       \/ SetIdFailed(i)
       \/ LoginVerify(i)
       \/ LoginPut(i)
       \/ RejectClose(i)
       \/ onInvoker_Kick(i)
       \/ AddUniHandler(i)
       \/ ConnectionLost(i)
       \/ ReadError(i)
       \/ HeartbeatExpired(i)
       \/ onClose(i)
       \/ GetOnlineClient(i)
       \/ DeleteOnlineClient(i)
  \/ \E n \in Nodes : onWatcher_ClientOnline(n) \/ NodeCrash(n) \/ NodeRestart(n)
  \/ \E c \in Clients : LeaseExpire(c) \/ KeepaliveLost(c)

Spec == Init /\ [][Next]_vars

\* Goroutines run, sent requests are read, leases expire.  Nothing is assumed
\* of the clients, of the network or of crashes.
Fairness ==
  /\ \A i \in Tunnels : /\ WF_vars(SetIdWritten(i) \/ SetIdFailed(i))
                        /\ WF_vars(LoginPut(i))
                        /\ WF_vars(RejectClose(i))
                        /\ WF_vars(onInvoker_Kick(i))
                        /\ WF_vars(ReadError(i))
                        /\ WF_vars(onClose(i))
                        /\ WF_vars(GetOnlineClient(i))
                        /\ WF_vars(DeleteOnlineClient(i))
  /\ \A n \in Nodes : WF_vars(onWatcher_ClientOnline(n))
  /\ \A c \in Clients : WF_vars(LeaseExpire(c))

FairSpec == Spec /\ Fairness

-----------------------------------------------------------------------------
(* Properties that hold.                                                   *)

\* The record of a client names a tunnel of that client whose process proved
\* that it holds the client's token (node.go:242-289), whatever tunnels of
\* other clients and other processes come and go.
RecordIsAuthentic ==
  \A c \in Clients : online[c] # NoTunnel =>
      LET i == online[c] IN owner[i] = c /\ token[i] /\ issued[i] > 0

\* A tunnel that has closed leaves no record behind (node.go:180-185), but for
\* the cases the code does not handle: a login handler that was still on its way to
\* the PUT when the tunnel closed, and a read or delete that did not reach etcd.
GhostIsLeftover ==
  \A c \in Clients : online[c] # NoTunnel =>
      (stage[online[c]] = "closed" => online[c] \in leftover)

\* The tunnel of the latest login is the recorded one for as long as its node
\* serves it; the record is lost in two ways only: a closing tunnel of the same
\* client read the record before this login and deleted it afterwards
\* (node.go:181-184), or etcd lost the PUT or the keepalive (etcd.go:118-121).
LatestRecordedUnlessStale ==
  \A c \in Clients : last[c] # NoTunnel =>
      (stage[last[c]] = "serving" => online[c] = last[c] \/ c \in staleDelete \cup unkept)

\* Only a tunnel whose record a later login replaced is kicked: no crash,
\* expiry or close makes a node kick the tunnel that is in the record for good
\* (node.go:294-307).
KickOnlyReplaced ==
  \A i \in Tunnels : kick[i] # "none" => replacedBy[i] # {}

\* A tunnel that another one replaced ends, unless the Kick came before the
\* client could handle it.
ReplacedGoes ==
  \A i \in Tunnels :
    (replacedBy[i] \ {i} # {}) ~> (stage[i] \in Gone \/ kick[i] = "ignored")

\* The record of a tunnel that ends, by closing or with its node, is
\* eventually gone or another tunnel's, but for a late PUT or a lost delete.
EndedGoesOffline ==
  \A i \in Tunnels :
    (stage[i] \in {"cancelled", "dead"}) ~>
       ((\A c \in Clients : online[c] # i) \/ i \in leftover)

-----------------------------------------------------------------------------
(* What a comment says and the code does not do.                           *)

\* node.go:276: an existing client is kicked when its ConnectionId differs.
KickOnlyOtherConnections ==
  \A i \in Tunnels : kick[i] # "none" => replacedBy[i] \ {i} # {}

-----------------------------------------------------------------------------
(* The inductive invariant of OnlineProofs.                                *)

BirthInv ==
  /\ \A i \in Tunnels : stage[i] = "unborn" <=> owner[i] = Nobody
  /\ \A i \in Tunnels : pending[i] > 0 => stage[i] \notin {"unborn", "accepted"}
  /\ \A i \in Tunnels : stage[i] \in {"unborn", "accepted"} => issued[i] = 0

LoginInv ==
  \A i \in Tunnels : pending[i] <= issued[i] /\ (pending[i] > 0 => token[i])

\* A closing tunnel that has checked the record deletes its own, unless it was
\* overtaken.
DeleteInv ==
  \A i \in Tunnels : (stage[i] = "deleting" /\ i \notin overtaken) =>
      online[owner[i]] \in {i, NoTunnel}

LastInv ==
  \A c \in Clients :
    last[c] # NoTunnel => stage[last[c]] \notin {"unborn", "accepted"}

WatchInv ==
  \A n \in Nodes : \A k \in 1..Len(watch[n]) : replacedBy[watch[n][k]] # {}

OnlineInv ==
  /\ TypeOK /\ BirthInv /\ LoginInv /\ DeleteInv /\ LastInv /\ WatchInv
  /\ RecordIsAuthentic /\ GhostIsLeftover /\ LatestRecordedUnlessStale
  /\ KickOnlyReplaced

-----------------------------------------------------------------------------
(* The nodes implement a registry of sessions.                             *)

Registry == INSTANCE SessionRegistry WITH
  verified <- {i \in Tunnels : token[i] /\ issued[i] > 0},
  ended    <- {i \in Tunnels : stage[i] \notin {"unborn", "accepted", "serving"}},
  current  <- online,
  replaced <- {i \in Tunnels : replacedBy[i] # {}},
  kicked   <- {i \in Tunnels : kick[i] # "none"},
  leaving  <- {i \in Tunnels : stage[i] = "deleting"},
  lost     <- unkept

\* Whatever nodes, handlers and hooks do between two accesses to etcd: a record is
\* written for a verified session alone, only what it replaced is kicked, and it goes
\* with its session, by a session that ended while it was recorded, or when etcd
\* loses it; a session that has ended stays so (node.go:168-307, server.go:95-215).
KeepsRegistry == Registry!Spec
=============================================================================
