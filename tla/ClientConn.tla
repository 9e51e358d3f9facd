------------------------------ MODULE ClientConn -----------------------------
(***************************************************************************)
(* One client process and its command tunnels: the goroutine that connects *)
(* and reconnects (the Keeper), the heartbeat, the handlers of write       *)
(* errors, the handlers of Client_New, Client_Kick and TargetOut, all of   *)
(* them sharing connected, the default invoker and the client's identity   *)
(* without a lock.  The nodes are reduced to what the process sees of      *)
(* them: a TerminalId per tunnel, Client_New, answers, and a Kick on the   *)
(* tunnel that a login has replaced (OnlineClients has their side).        *)
(***************************************************************************)
EXTENDS Naturals

CONSTANTS Tunnels,     \* the command tunnels the process may dial: a bound
          MaxTargets,  \* the TargetOut requests it may read: a bound
          MaxRestarts, \* how often it is started again: a bound
          Stored,      \* the client of a client.json the process starts with
          NoId,        \* the empty TerminalId or Token
          NoTunnel,    \* a nil invoker, or no record
          Other,       \* a tunnel of another process
          Keeper       \* the goroutine of ConnectTo, as a caller of login

ASSUME ClientAssumption ==
  /\ MaxTargets \in Nat /\ MaxRestarts \in Nat
  /\ {Stored, NoId, NoTunnel, Other, Keeper} \cap Tunnels = {}
  /\ Stored # NoId /\ NoTunnel # Other

\* A client is the stored one or the one a node creates for a tunnel; it is
\* named like the tunnel, and its token like the client.
Ids == Tunnels \cup {Stored}

\* login runs in the Keeper and in the OnNewClient handler of a tunnel.
Callers == Tunnels \cup {Keeper}

VARIABLES
  proc,        \* the process runs, or how it has ended
  connected,   \* Client.connected
  default,     \* the default invoker
  terminal,    \* TerminalId
  token,       \* Token
  saved,       \* what client.json says of the two
  keeper,      \* where the Keeper is
  dialed,      \* the tunnel the Keeper dials
  started,     \* the keepalive loop and the heartbeat run
  kickable,    \* the handlers of InitClient are registered
  listStarted, \* Client.listenStarted
  beat,        \* the heartbeat goroutine
  lateErrors,  \* writeErrorHandler goroutines that have not run yet
  targets,     \* TargetOut requests read
  dialing,     \* onInvoker_DialOut goroutines before their Dial
  call,        \* call[x]: the login or list call of caller x
  newClient,   \* newClient[t]: the Client_New of tunnel t and its handler
  link,        \* link[t]: the session of t
  closed,      \* the tunnels whose invoker is cancelled
  id,          \* node: id[t] is the TerminalId of t
  rec,         \* node: rec[c] is the tunnel in the online record of c
  kick,        \* the tunnels with a Kick to read
  pending,     \* node: logins whose tunnel has ended before the PUT of their record
  restarts,    \* how often the process was started again
  other,       \* history: another process has logged in as this client
  lost,        \* history: a handshake has failed
  torn,        \* history: a process has ended without its client in the file
  alarm,       \* history: the Keeper has dialed while its tunnel was up
  twice,       \* history: two logins were accepted on one tunnel
  late,        \* history: a login was recorded after its tunnel had ended
  unread       \* history: a login was refused for a record that could not be read

connVars     == <<connected, default>>
identityVars == <<terminal, token, saved>>
keeperVars   == <<keeper, dialed, started, kickable, listStarted>>
beatVars     == <<beat, lateErrors>>
targetVars   == <<targets, dialing>>
threadVars   == <<beatVars, targetVars, call, newClient>>
linkVars     == <<link, closed>>
nodeVars     == <<id, rec, kick, pending>>
historyVars  == <<restarts, other, lost, torn, alarm, twice, late, unread>>
worldVars    == <<linkVars, nodeVars, historyVars>>
vars == <<proc, connVars, identityVars, keeperVars, threadVars, worldVars>>

\* A call in progress, the tunnel it is on, and whether its request carries the
\* identity of the client of that tunnel and no node has refused it.
NoCall == [pc |-> "none", on |-> NoTunnel, own |-> FALSE]
Calls == [pc : {"none", "asked", "answered", "read", "failed", "stuck", "saving"},
          on : Tunnels \cup {NoTunnel}, own : BOOLEAN]

\* A slip: the Token has no name in the file.
Identity_NoToken == [terminal |-> terminal, token |-> NoId]

Identity == [terminal |-> terminal, token |-> token]

\* A file that is not there, or empty, leaves the two empty.
NoIdentity == [terminal |-> NoId, token |-> NoId]

TypeOK ==
  /\ proc \in {"running", "refused", "kicked", "panicked"}
  /\ connected \in BOOLEAN
  /\ default \in Tunnels \cup {NoTunnel}
  /\ keeper \in {"connected", "login", "list", "listing"} => default # NoTunnel
  /\ terminal \in Ids \cup {NoId} /\ token \in Ids \cup {NoId}
  /\ saved \in [terminal : Ids \cup {NoId}, token : Ids \cup {NoId}]
  /\ keeper \in {"dial", "handshake", "connected", "login", "list", "listing", "idle"}
  /\ dialed \in Tunnels \cup {NoTunnel}
  /\ started \in BOOLEAN /\ kickable \in BOOLEAN /\ listStarted \in BOOLEAN
  /\ beat \in [pc : {"wait", "write", "ok", "failed"}, on : Tunnels \cup {NoTunnel}]
  /\ lateErrors \in Nat
  /\ targets \in 0..MaxTargets /\ dialing \in 0..targets
  /\ call \in [Callers -> Calls]
  /\ newClient \in [Tunnels -> {"none", "sent", "read", "named", "login", "done"}]
  /\ link \in [Tunnels -> {"unused", "up", "down"}]
  /\ closed \subseteq Tunnels
  /\ id \in [Tunnels -> Ids \cup {NoId}]
  /\ rec \in [Ids -> Tunnels \cup {NoTunnel, Other}]
  /\ kick \subseteq Tunnels /\ pending \subseteq Callers \X Tunnels
  /\ restarts \in 0..MaxRestarts
  /\ {other, lost, torn, alarm, twice, late, unread} \subseteq BOOLEAN

\* The process starts with a client.json or without one.
Init ==
  /\ proc = "running"
  /\ connected = FALSE /\ default = NoTunnel
  /\ terminal \in {Stored, NoId} /\ token = terminal /\ saved = Identity
  /\ keeper = "dial" /\ dialed = NoTunnel
  /\ started = FALSE /\ kickable = FALSE /\ listStarted = FALSE
  /\ beat = [pc |-> "wait", on |-> NoTunnel] /\ lateErrors = 0
  /\ targets = 0 /\ dialing = 0
  /\ call = [x \in Callers |-> NoCall]
  /\ newClient = [t \in Tunnels |-> "none"]
  /\ link = [t \in Tunnels |-> "unused"] /\ closed = {}
  /\ id = [t \in Tunnels |-> NoId] /\ rec = [c \in Ids |-> NoTunnel] /\ kick = {} /\ pending = {}
  /\ restarts = 0
  /\ other = FALSE /\ lost = FALSE /\ torn = FALSE /\ alarm = FALSE /\ twice = FALSE
  /\ late = FALSE /\ unread = FALSE

-----------------------------------------------------------------------------
(* Client.Dial and ConnectTo.                                              *)

\* ConnectTo returns; the first time it starts the keepalive goroutine.
EndConnect == keeper' = "idle" /\ started' = TRUE

DialFailed ==
  /\ keeper = "dial"
  /\ EndConnect
  /\ UNCHANGED <<proc, connVars, identityVars, dialed, kickable, listStarted, threadVars, worldVars>>

\* The session and its stream are open: connected is set before the tunnel
\* has its ids.  A node that reads an empty TerminalId creates a client.
DialOpened(t) ==
  /\ keeper = "dial"
  /\ link[t] = "unused"
  /\ keeper' = "handshake"
  /\ dialed' = t
  /\ connected' = TRUE
  /\ link' = [link EXCEPT ![t] = "up"]
  /\ id' = [id EXCEPT ![t] = IF terminal = NoId THEN t ELSE terminal]
  /\ newClient' = [newClient EXCEPT ![t] = IF terminal = NoId THEN "sent" ELSE "none"]
  /\ alarm' = (alarm \/ (default # NoTunnel /\ link[default] = "up"))
  /\ UNCHANGED <<proc, default, identityVars, started, kickable, listStarted, beatVars, targetVars,
                 call, closed, rec, kick, pending, restarts, other, lost, torn, twice, late, unread>>

\* AddDialInvoker reads the ids, or fails to and leaves them empty: nobody
\* looks at the difference, and ConnectTo takes over what it finds.
AddDialInvoker ==
  /\ keeper = "handshake"
  /\ keeper' = "connected"
  /\ default' = dialed
  /\ dialed' = NoTunnel
  /\ terminal' = IF link[dialed] = "up" THEN id[dialed] ELSE NoId
  /\ lost' = (lost \/ link[dialed] = "down")
  /\ UNCHANGED <<proc, connected, token, saved, started, kickable, listStarted, threadVars,
                 linkVars, nodeVars, restarts, other, torn, alarm, twice, late, unread>>

\* A call of tunnel t has been cancelled while its answer was handed over: the
\* invokeMapLock of t is held for good.
Orphaned(t) == \E y \in Callers : call[y].pc = "stuck" /\ call[y].on = t

Hang(x, t) == call' = [call EXCEPT ![x] = [pc |-> "stuck", on |-> t, own |-> FALSE]]

\* Every Invoke takes that lock of the default invoker and writes; a failed write
\* also starts the invoker's writeErrorHandler.
Invoke(x) ==
  \/ /\ Orphaned(default)
     /\ Hang(x, default)
     /\ UNCHANGED lateErrors
  \/ /\ ~Orphaned(default) /\ link[default] = "up"
     /\ call' = [call EXCEPT ![x] =
          [pc |-> "asked", on |-> default, own |-> {terminal, token} = {id[default]}]]
     /\ UNCHANGED lateErrors
  \/ /\ ~Orphaned(default) /\ link[default] # "up"
     /\ call' = [call EXCEPT ![x].pc = "failed"]
     /\ lateErrors' = lateErrors + 1

\* A slip: the client logs in whether it has an identity or not.
HasIdentity_Always == TRUE

HasIdentity == token # NoId /\ terminal # NoId

\* OnConnected logs in a client that has an identity.
OnConnected ==
  /\ keeper = "connected"
  /\ \/ HasIdentity /\ keeper' = "login" /\ Invoke(Keeper) /\ UNCHANGED started
     \/ ~HasIdentity /\ EndConnect /\ UNCHANGED <<call, lateErrors>>
  /\ UNCHANGED <<proc, connVars, identityVars, dialed, kickable, listStarted, beat, targetVars,
                 newClient, worldVars>>

\* The keepalive loop dials again when it finds connected unset.
Keepalive ==
  /\ keeper = "idle"
  /\ ~connected
  /\ keeper' = "dial"
  /\ UNCHANGED <<proc, connVars, identityVars, dialed, started, kickable, listStarted, threadVars,
                 worldVars>>

\* InitClient registers the handlers once the first ConnectTo has returned.
InitClient ==
  /\ started /\ ~kickable
  /\ kickable' = TRUE
  /\ UNCHANGED <<proc, connVars, identityVars, keeper, dialed, started, listStarted, threadVars,
                 worldVars>>

-----------------------------------------------------------------------------
(* Invoke and login.                                                       *)

IsLogin(x) == x # Keeper \/ keeper = "login"

\* A slip: the node kicks the tunnel of the new record.
Replace_KickNew(c, t) ==
  rec' = [rec EXCEPT ![c] = t] /\ kick' = kick \cup {t}

\* A new online record replaces one; its tunnel, if it is still there, may be
\* sent a Kick.
Replace(c, t) ==
  /\ rec' = [rec EXCEPT ![c] = t]
  /\ \/ UNCHANGED kick
     \/ rec[c] \in Tunnels /\ link[rec[c]] = "up" /\ kick' = kick \cup {rec[c]}

\* The node answers.  It grants a login with the identity of the tunnel's client, but
\* refuses even that one if the record of the client was lost, or cannot be read.
Answer(x) ==
  LET t == call[x].on
      answered == [call EXCEPT ![x].pc = "answered"]
  IN
  /\ call[x].pc = "asked"
  /\ link[t] = "up"
  /\ \/ /\ IsLogin(x) /\ call[x].own
        /\ call' = answered
        /\ Replace(id[t], t)
        /\ twice' = (twice \/ rec[id[t]] = t)
        /\ UNCHANGED unread
     \/ /\ IsLogin(x) /\ call[x].own
        /\ call' = [answered EXCEPT ![x].own = FALSE]
        /\ unread' = TRUE
        /\ UNCHANGED <<rec, kick, twice>>
     \/ /\ ~(IsLogin(x) /\ call[x].own)
        /\ call' = answered
        /\ UNCHANGED <<rec, kick, twice, unread>>
  /\ UNCHANGED <<proc, connVars, identityVars, keeperVars, beatVars, targetVars, newClient, linkVars,
                 id, pending, restarts, other, lost, torn, alarm, late>>

\* The logins on the tunnels of T that a node may have read and has not yet answered.
Unanswered(T) ==
  {<<x, call[x].on>> : x \in {y \in Callers : /\ IsLogin(y) /\ call[y].pc = "asked" /\ call[y].own
                                             /\ call[y].on \in T /\ link[call[y].on] = "up"}}

\* The node puts the record of a login, although its tunnel has ended.
LateLogin(x, t) ==
  /\ <<x, t>> \in pending
  /\ pending' = pending \ {<<x, t>>}
  /\ late' = TRUE
  /\ Replace(id[t], t)
  /\ UNCHANGED <<proc, connVars, identityVars, keeperVars, threadVars, linkVars, id, restarts, other,
                 lost, torn, alarm, twice, unread>>

\* DispatchInvoke reads the answer and hands it to receiveResponse.
ReadAnswer(x) ==
  /\ call[x].pc = "answered"
  /\ link[call[x].on] = "up"
  /\ call' = [call EXCEPT ![x].pc = "read"]
  /\ UNCHANGED <<proc, connVars, identityVars, keeperVars, beatVars, targetVars, newClient, worldVars>>

\* The invoker is cancelled under the call: it fails; or, when its answer was read,
\* never returns, for receiveResponse keeps the lock (Invoker); or waits for a lock
\* that is kept like that.
CallCancelled(x) ==
  /\ call[x].pc \in {"asked", "answered", "read"}
  /\ call[x].on \in closed
  /\ \/ call' = [call EXCEPT ![x] = [NoCall EXCEPT !.pc = "failed"]]
     \/ (call[x].pc = "read" \/ Orphaned(call[x].on)) /\ Hang(x, call[x].on)
  /\ UNCHANGED <<proc, connVars, identityVars, keeperVars, beatVars, targetVars, newClient, worldVars>>

\* A slip: listenStarted is not looked at.
HasList_Never == FALSE

HasList == listStarted

\* login returns: OnConnected goes on in the Keeper, the handler of Client_New ends.
LoginReturns(x) ==
  /\ call' = [call EXCEPT ![x] = NoCall]
  /\ IF x # Keeper
       THEN newClient' = [newClient EXCEPT ![x] = "done"] /\ UNCHANGED <<keeper, started>>
       ELSE /\ IF HasList THEN EndConnect ELSE keeper' = "list" /\ UNCHANGED started
            /\ UNCHANGED newClient

\* A failed call is logged, a refusal ends the process, and after an accepted
\* login os.Create empties the file.
LoginDone(x) ==
  /\ IsLogin(x)
  /\ \/ /\ call[x].pc = "failed"
        /\ LoginReturns(x)
        /\ UNCHANGED <<proc, saved>>
     \/ /\ call[x].pc = "read" /\ ~call[x].own
        /\ proc' = "refused"
        /\ UNCHANGED <<saved, call, newClient, keeper, started>>
     \/ /\ call[x].pc = "read" /\ call[x].own
        /\ saved' = NoIdentity
        /\ call' = [call EXCEPT ![x] = [NoCall EXCEPT !.pc = "saving"]]
        /\ UNCHANGED <<proc, newClient, keeper, started>>
  /\ UNCHANGED <<connVars, terminal, token, dialed, kickable, listStarted, beatVars, targetVars,
                 worldVars>>

\* SaveJsonSetting reads the two fields as they are by now, and flushes.
SaveJsonSetting(x) ==
  /\ call[x].pc = "saving"
  /\ saved' = Identity
  /\ LoginReturns(x)
  /\ UNCHANGED <<proc, connVars, terminal, token, dialed, kickable, listStarted, beatVars, targetVars,
                 worldVars>>

\* The first OnConnected with an identity asks for the list of listens.
TransferList ==
  /\ keeper = "list"
  /\ keeper' = "listing"
  /\ Invoke(Keeper)
  /\ UNCHANGED <<proc, connVars, identityVars, dialed, started, kickable, listStarted, beat, targetVars,
                 newClient, worldVars>>

\* A failed call returns no response, and OnConnected uses it all the same.
TransferListDone ==
  /\ keeper = "listing"
  /\ \/ /\ call[Keeper].pc = "read"
        /\ listStarted' = TRUE
        /\ EndConnect
        /\ UNCHANGED proc
     \/ /\ call[Keeper].pc = "failed"
        /\ proc' = "panicked"
        /\ UNCHANGED <<listStarted, keeper, started>>
  /\ call' = [call EXCEPT ![Keeper] = NoCall]
  /\ UNCHANGED <<connVars, identityVars, dialed, kickable, beatVars, targetVars, newClient, worldVars>>

-----------------------------------------------------------------------------
(* The heartbeat and the write errors.                                     *)

\* The heartbeat takes the default invoker of this moment.
HeartbeatTick ==
  /\ started /\ beat.pc = "wait" /\ connected
  /\ IF default = NoTunnel
       THEN proc' = "panicked" /\ UNCHANGED beat
       ELSE beat' = [pc |-> "write", on |-> default] /\ UNCHANGED proc
  /\ UNCHANGED <<connVars, identityVars, keeperVars, lateErrors, targetVars, call, newClient, worldVars>>

HeartbeatWrite ==
  /\ beat.pc = "write"
  /\ IF link[beat.on] = "up"
       THEN beat' = [beat EXCEPT !.pc = "ok"] /\ UNCHANGED lateErrors
       ELSE beat' = [beat EXCEPT !.pc = "failed"] /\ lateErrors' = lateErrors + 1
  /\ UNCHANGED <<proc, connVars, identityVars, keeperVars, targetVars, call, newClient, worldVars>>

\* A slip: a heartbeat that could not be written counts as one.
Beaten_Always == TRUE

Beaten == beat.pc = "ok"

\* The result of the write becomes the state of the connection.
HeartbeatResult ==
  /\ beat.pc \in {"ok", "failed"}
  /\ connected' = Beaten
  /\ beat' = [pc |-> "wait", on |-> NoTunnel]
  /\ UNCHANGED <<proc, default, identityVars, keeperVars, lateErrors, targetVars, call, newClient,
                 worldVars>>

\* writeErrorHandler, in a goroutine of its own, whenever it runs.
WriteErrorHandler ==
  /\ lateErrors > 0
  /\ lateErrors' = lateErrors - 1
  /\ connected' = FALSE
  /\ UNCHANGED <<proc, default, identityVars, keeperVars, beat, targetVars, call, newClient, worldVars>>

-----------------------------------------------------------------------------
(* DispatchInvoke of a tunnel and its handlers.                            *)

\* ConnectTo has handed the tunnel to DispatchInvoke.
Dispatched(t) == link[t] # "unused" /\ t # dialed

ReadError(t) ==
  /\ Dispatched(t) /\ link[t] = "down" /\ t \notin closed
  /\ closed' = closed \cup {t}
  /\ UNCHANGED <<proc, connVars, identityVars, keeperVars, threadVars, link, nodeVars, historyVars>>

ReadClientNew(t) ==
  /\ Dispatched(t) /\ link[t] = "up" /\ newClient[t] = "sent"
  /\ newClient' = [newClient EXCEPT ![t] = "read"]
  /\ UNCHANGED <<proc, connVars, identityVars, keeperVars, beatVars, targetVars, call, worldVars>>

\* A slip: the node keeps the token to itself.
TokenOf_None(t) == NoId

\* What GenerateNewClient has put into the record of the client of t.
TokenOf(t) == t

\* OnNewClient assigns TerminalId, then Token, then logs in on the default
\* invoker, which need not be t any more.
OnNewClient(t) ==
  /\ \/ /\ newClient[t] = "read"
        /\ newClient' = [newClient EXCEPT ![t] = "named"]
        /\ terminal' = t
        /\ UNCHANGED <<token, call, lateErrors>>
     \/ /\ newClient[t] = "named"
        /\ newClient' = [newClient EXCEPT ![t] = "login"]
        /\ token' = TokenOf(t)
        /\ UNCHANGED <<terminal, call, lateErrors>>
     \/ /\ newClient[t] = "login" /\ call[t] = NoCall
        /\ Invoke(t)
        /\ UNCHANGED <<terminal, token, newClient>>
  /\ UNCHANGED <<proc, connVars, saved, keeperVars, beat, targetVars, worldVars>>

\* A Kick ends the process, or is dropped when its handler is not registered.
onInvoker_Kick(t) ==
  /\ Dispatched(t) /\ link[t] = "up" /\ t \in kick
  /\ kick' = kick \ {t}
  /\ proc' = IF kickable THEN "kicked" ELSE proc
  /\ UNCHANGED <<connVars, identityVars, keeperVars, threadVars, linkVars, id, rec, pending,
                 historyVars>>

ReadTargetOut(t) ==
  /\ Dispatched(t) /\ link[t] = "up" /\ kickable
  /\ targets < MaxTargets
  /\ targets' = targets + 1
  /\ dialing' = dialing + 1
  /\ UNCHANGED <<proc, connVars, identityVars, keeperVars, beatVars, call, newClient, worldVars>>

\* The Dial of a data tunnel fails, or sets connected like any other.
onInvoker_DialOut ==
  /\ dialing > 0
  /\ dialing' = dialing - 1
  /\ connected' \in {connected, TRUE}
  /\ UNCHANGED <<proc, default, identityVars, keeperVars, beatVars, targets, call, newClient, worldVars>>

-----------------------------------------------------------------------------
(* The network, other processes, and the end of this one.                  *)

\* A session ends, by the network, the node, or the node's heartbeat timeout,
\* and with it what has not been read; its record is no tunnel's any more.
ConnectionLost(t) ==
  /\ link[t] = "up"
  /\ link' = [link EXCEPT ![t] = "down"]
  /\ newClient' = [newClient EXCEPT ![t] = IF @ = "sent" THEN "none" ELSE @]
  /\ kick' = kick \ {t}
  /\ \E read \in SUBSET Unanswered({t}) : pending' = pending \cup read
  /\ rec' = [c \in Ids |-> IF rec[c] = t THEN NoTunnel ELSE rec[c]]
  /\ UNCHANGED <<proc, connVars, identityVars, keeperVars, beatVars, targetVars, call, closed, id,
                 historyVars>>

\* Another process is started with a copy of client.json and logs in.
OtherLogin ==
  /\ ~other
  /\ saved.terminal # NoId /\ saved.terminal = saved.token
  /\ other' = TRUE
  /\ Replace(saved.terminal, Other)
  /\ UNCHANGED <<proc, connVars, identityVars, keeperVars, threadVars, linkVars, id, pending, restarts,
                 lost, torn, alarm, twice, late, unread>>

\* The process has ended, or ends now, with all its goroutines and sessions, and
\* is started again with what is in the file.
Restart ==
  /\ restarts < MaxRestarts
  /\ restarts' = restarts + 1
  /\ torn' = (torn \/ (saved = NoIdentity /\ \E t \in Tunnels : id[t] # NoId))
  /\ proc' = "running"
  /\ connected' = FALSE /\ default' = NoTunnel
  /\ terminal' = saved.terminal /\ token' = saved.token
  /\ keeper' = "dial" /\ dialed' = NoTunnel
  /\ started' = FALSE /\ kickable' = FALSE /\ listStarted' = FALSE
  /\ beat' = [pc |-> "wait", on |-> NoTunnel] /\ lateErrors' = 0
  /\ dialing' = 0
  /\ call' = [x \in Callers |-> NoCall]
  /\ newClient' = [t \in Tunnels |-> "none"]
  /\ link' = [t \in Tunnels |-> IF link[t] = "up" THEN "down" ELSE link[t]]
  /\ closed' = {t \in Tunnels : link[t] # "unused"}
  /\ rec' = [c \in Ids |-> IF rec[c] \in Tunnels THEN NoTunnel ELSE rec[c]]
  /\ kick' = {}
  /\ \E read \in SUBSET Unanswered(Tunnels) : pending' = pending \cup read
  /\ UNCHANGED <<saved, targets, id, other, lost, alarm, twice, late, unread>>

\* The steps of the Keeper's goroutine and those of the heartbeat's.
KeeperStep ==
  \/ DialFailed
  \/ \E t \in Tunnels : DialOpened(t)
  \/ AddDialInvoker
  \/ OnConnected
  \/ CallCancelled(Keeper) \/ LoginDone(Keeper) \/ SaveJsonSetting(Keeper)
  \/ TransferList \/ TransferListDone
  \/ Keepalive

HeartbeatStep == HeartbeatTick \/ HeartbeatWrite \/ HeartbeatResult

Running ==
  \/ KeeperStep
  \/ HeartbeatStep
  \/ InitClient
  \/ WriteErrorHandler
  \/ \E x \in Callers : Answer(x) \/ ReadAnswer(x)
  \/ \E t \in Tunnels :
       \/ CallCancelled(t) \/ LoginDone(t) \/ SaveJsonSetting(t)
       \/ ReadError(t)
       \/ ReadClientNew(t) \/ OnNewClient(t)
       \/ onInvoker_Kick(t)
       \/ ReadTargetOut(t)
       \/ ConnectionLost(t)
  \/ onInvoker_DialOut
  \/ OtherLogin

Next ==
  \/ proc = "running" /\ Running
  \/ \E x \in Callers, t \in Tunnels : LateLogin(x, t)
  \/ Restart

Spec == Init /\ [][Next]_vars

\* The goroutines of the process run, a dial succeeds in the end, the node
\* sends the ids of a tunnel or the session ends.  Nothing is assumed of
\* answers, of data tunnels, of Kicks or of the network staying up.
Fairness ==
  /\ WF_vars(proc = "running" /\ KeeperStep)
  /\ SF_vars(proc = "running" /\ \E t \in Tunnels : DialOpened(t))
  /\ WF_vars(proc = "running" /\ HeartbeatStep)
  /\ WF_vars(proc = "running" /\ \E t \in Tunnels : ReadError(t))

FairSpec == Spec /\ Fairness

-----------------------------------------------------------------------------
(* Properties.                                                             *)

\* While no handshake has failed and no process has ended without its client in
\* the file, there is one client for good, over all starts: all tunnels have the
\* same TerminalId, TerminalId and Token belong together, the file holds that
\* client or nothing, and a login is refused only by a node that cannot read the
\* client's record (client.go:41-46, 167-184, 216-240; cli/client.go:139-146;
\* json.go:36-72; node.go:243-253).
IdentityKept ==
  ~lost /\ ~torn =>
    /\ \A t, u \in Tunnels : id[t] # NoId /\ id[u] # NoId => id[t] = id[u]
    /\ \A t \in Tunnels : id[t] # NoId => {terminal, token} \subseteq {id[t], NoId}
    /\ saved \in {[terminal |-> c, token |-> c] : c \in {NoId, token}}
    /\ proc = "refused" => unread

\* A client that has got its list is in the file, but for the moments between the
\* truncation and the flush of a save: there a Kick, a panic or a crash loses it
\* (client.go:167-184, 239; json.go:36-59).
ListedIsSaved ==
  listStarted /\ ~lost =>
    saved = [terminal |-> token, token |-> token] \/ \E x \in Callers : call[x].pc = "saving"

\* A client that stays connected without a login, for it has no Token, is one whose
\* tunnel has ended before it read its Client_New (client.go:41-46, 168).
MuteOnlyByCut ==
  (/\ keeper = "idle" /\ terminal # NoId /\ token = NoId
   /\ \A t \in Tunnels : newClient[t] \in {"none", "done"}) =>
    \E t \in Tunnels : id[t] = terminal /\ link[t] = "down" /\ newClient[t] = "none"

\* A process that has once got its list of listens does not panic any more,
\* neither in the heartbeat nor in OnConnected (cli/client.go:134,
\* client.go:171-181).
PanicOnlyBeforeList == proc = "panicked" => ~listStarted

\* A Kick ends a process only if another process has logged in as its client, or
\* the process itself has logged in over a tunnel that was still up or twice on
\* one tunnel, or a node was so late with a login that its tunnel had ended:
\* else losing and replacing its tunnels, or the process, does not get it kicked
\* (client.go:242-246, cli/client.go:160-179, node.go:279-289).
KickedOnlyByRelogin == proc = "kicked" => other \/ alarm \/ twice \/ late

\* A process whose tunnel has ended gets to another one, unless it ends, or its
\* Keeper waits for a call that never returns, or the tunnels of the bound are
\* used up (cli/client.go:124-137, 160-179).
Reconnects ==
  \A t \in Tunnels :
    (default = t /\ t \in closed) ~>
       \/ default # t
       \/ proc # "running"
       \/ call[Keeper].pc = "stuck"
       \/ \A u \in Tunnels : link[u] # "unused"

-----------------------------------------------------------------------------
(* The inductive invariant (ClientProofs).                                 *)

InFlight(t) == newClient[t] \in {"sent", "read", "named", "login"}
Waiting(x) == call[x].pc \in {"asked", "answered", "read"}

\* What a tunnel is to the process: it has an id since it was dialed, and once it
\* was dispatched there is a default invoker.
LinkInv ==
  /\ \A t \in Tunnels : link[t] = "unused" <=> id[t] = NoId
  /\ \A t \in closed : link[t] = "down"
  /\ keeper = "handshake" <=> dialed # NoTunnel
  /\ dialed # NoTunnel => link[dialed] # "unused" /\ newClient[dialed] \in {"none", "sent"}
  /\ default # NoTunnel => link[default] # "unused"
  /\ \A t \in Tunnels :
       /\ link[t] = "up" /\ t # dialed => default # NoTunnel
       /\ newClient[t] = "sent" => link[t] = "up"
       /\ newClient[t] \notin {"none", "sent"} => default # NoTunnel
       /\ InFlight(t) => id[t] = t

\* Whose call it is, and on which tunnel.
CallInv ==
  /\ \A x \in Callers :
       /\ call[x].pc # "none" => default # NoTunnel
       /\ Waiting(x) => call[x].on \in Tunnels /\ link[call[x].on] # "unused"
  /\ \A t \in Tunnels : call[t].pc # "none" => newClient[t] = "login"
  /\ call[Keeper].pc # "none" => keeper \in {"login", "listing"}
  /\ Waiting(Keeper) => call[Keeper].on = default
  /\ call[Keeper].pc = "failed" => link[default] = "down"
  /\ call[Keeper].pc = "saving" => keeper = "login"

\* Without an alarm one tunnel is up at a time, and so none is kicked by a login in time.
OneUpInv ==
  ~alarm => \A t \in Tunnels :
    link[t] = "up" => t = dialed \/ (dialed = NoTunnel /\ t = default)
KickInv == kick # {} \/ proc = "kicked" => other \/ alarm \/ twice \/ late

ListInv ==
  /\ keeper \in {"list", "listing"} => ~listStarted
  /\ listStarted => default # NoTunnel
  /\ PanicOnlyBeforeList

\* Who logs in has a Token, and no process loses it.
TokenInv ==
  /\ keeper \in {"login", "list", "listing"} => token # NoId
  /\ listStarted => token # NoId
  /\ \A t \in Tunnels : newClient[t] \in {"login", "done"} => token # NoId
  /\ saved.token = NoId => saved.terminal = NoId

\* One client for all that the process has.
IdentityInv ==
  ~lost =>
    /\ token \in {NoId, terminal}
    /\ saved \in {[terminal |-> c, token |-> c] : c \in {NoId, token}}
    /\ proc = "refused" => unread
    /\ default # NoTunnel => id[default] = terminal
    /\ dialed # NoTunnel => id[dialed] = IF terminal = NoId THEN dialed ELSE terminal
    /\ \A t \in Tunnels :
         /\ InFlight(t) => terminal = t \/ (terminal = NoId /\ t = dialed)
         /\ newClient[t] = "login" => token = t
    /\ \A x \in Callers : Waiting(x) => call[x].own \/ (unread /\ call[x].pc # "asked")
    /\ ~torn => \A t \in Tunnels :
         id[t] # NoId => id[t] = terminal \/ (terminal = NoId /\ t = dialed)

\* The client of a Token that has not come yet was created for a tunnel.
IsAwaited(c) ==
  \E t \in Tunnels : id[t] = c /\ (InFlight(t) \/ (newClient[t] = "none" /\ link[t] = "down"))
MuteInv ==
  token = NoId => /\ terminal # NoId => IsAwaited(terminal)
                  /\ dialed # NoTunnel => IsAwaited(id[dialed])

IsSaved == saved = [terminal |-> token, token |-> token] \/ \E x \in Callers : call[x].pc = "saving"
SavedInv ==
  ~lost => /\ listStarted => IsSaved
           /\ keeper = "list" /\ link[default] = "up" => IsSaved
           /\ keeper = "listing" /\ Waiting(Keeper) => IsSaved

ClientInv ==
  /\ TypeOK /\ LinkInv /\ CallInv /\ OneUpInv /\ KickInv /\ ListInv /\ TokenInv
  /\ IdentityInv /\ MuteInv /\ SavedInv
=============================================================================
