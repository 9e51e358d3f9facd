----------------------------- MODULE TunnelRelay -----------------------------
(***************************************************************************)
(* A TCP connection that the listening client accepts (TcpListen) and the  *)
(* relay built for it: a data tunnel from the listening client to its node *)
(* (ListenIn), a TargetOut over the command tunnel of the target client, a *)
(* data tunnel from there (onInvoker_DialOut, Transfer_Go), a dialed       *)
(* connection, and Copy in the three processes.  The relay has four ends:  *)
(*                                                                         *)
(*    local --L-- listen tunnel --N-- target tunnel --T-- remote           *)
(*                                                                         *)
(* The bytes are left out: Copy is modelled by when each of its two        *)
(* directions stops.  Close of an invoker only cancels its context: its    *)
(* onClose runs a moment later, closes the session and, at the node, takes *)
(* the invoker out of the route.                                           *)
(***************************************************************************)
EXTENDS Naturals

CONSTANT Conns   \* the connections accepted for one listen

VARIABLES
  built,    \* built[x]: how far the relay of x has been built
  end,      \* end[x][e]: whether the connection or session of the end e is open
  copying,  \* copying[x]: the directions in which a Copy runs
  route,    \* the invokers in the route of the node: <<x, "listen">>, <<x, "target">>
  hooks,    \* the invokers of the node that are closed and have their onClose to run
  goodbyes, \* the invokers of the two clients that have
  dial      \* dial[x]: the net.Dial of the target client

closeVars == <<route, hooks, goodbyes>>
relayVars == <<built, end, copying, closeVars, dial>>

Tunnels == {"listen", "target"}
Ends == Tunnels \cup {"local", "remote"}

\* The two goroutines of a Copy: what is read from the one goes to the other.
Copy(e, f) == {<<e, f>>, <<f, e>>}
ListenCopy == Copy("listen", "local")
NodeCopy   == Copy("target", "listen")
TargetCopy == Copy("target", "remote")
Directions == ListenCopy \cup NodeCopy \cup TargetCopy

RelayTypeOK ==
  /\ built \in [Conns -> {"idle", "accepted", "dialed", "listenIn", "targetOut", "dialedOut",
                       "going", "paired",            \* the steps, in order
                       "unserved", "cut", "noTarget", "targetLost", "orphan"}]   \* where they stop
  /\ end \in [Conns -> [Ends -> {"none", "open", "closed"}]]
  /\ copying \in [Conns -> SUBSET Directions]
  /\ route \subseteq Conns \X Tunnels
  /\ hooks \subseteq route /\ goodbyes \subseteq Conns \X Tunnels
  /\ dial \in [Conns -> {"none", "dialing", "done", "refused"}]

RelayInit ==
  /\ built = [x \in Conns |-> "idle"]
  /\ end = [x \in Conns |-> [e \in Ends |-> "none"]]
  /\ copying = [x \in Conns |-> {}]
  /\ route = {} /\ hooks = {} /\ goodbyes = {}
  /\ dial = [x \in Conns |-> "none"]

Go(x, from, where) == built[x] = from /\ built' = [built EXCEPT ![x] = where]

Opened(x, e) == [end EXCEPT ![x][e] = "open"]

\* The ends in E are closed, but for those that are not open.
Closed(x, E) == [end EXCEPT ![x] =
                   [e \in Ends |-> IF e \in E /\ @[e] = "open" THEN "closed" ELSE @[e]]]

\* Close of invokers of the node, and of a client: the first one counts.
NodeCloses(x, E) == hooks' = hooks \cup (route \cap ({x} \X E))
ClientCloses(x, E) == goodbyes' = goodbyes \cup {<<x, e>> : e \in {f \in E : end[x][f] = "open"}}

-----------------------------------------------------------------------------
(* The listening client.                                                   *)

Accept(x) ==
  /\ Go(x, "idle", "accepted")
  /\ end' = Opened(x, "local")
  /\ UNCHANGED <<copying, closeVars, dial>>

\* A failed Dial is logged: nobody reads the local connection, or closes it.
DialListen(x) ==
  /\ \/ /\ Go(x, "accepted", "dialed")
        /\ end' = Opened(x, "listen")
        /\ route' = route \cup {<<x, "listen">>}
     \/ /\ Go(x, "accepted", "unserved")
        /\ UNCHANGED <<end, route>>
  /\ UNCHANGED <<copying, hooks, goodbyes, dial>>

\* After the ListenIn, written or not, the copying begins.
WriteListenIn(x) ==
  /\ \/ /\ Go(x, "dialed", "listenIn")
        /\ end[x]["listen"] = "open"
        /\ UNCHANGED goodbyes
     \/ /\ Go(x, "dialed", "cut")
        /\ ClientCloses(x, {"listen"})
  /\ copying' = [copying EXCEPT ![x] = @ \cup ListenCopy]
  /\ UNCHANGED <<end, route, hooks, dial>>

-----------------------------------------------------------------------------
(* The node.                                                               *)

\* A slip: a TargetOut that cannot be written is only logged.
ListenWithoutTarget_Stays(x) == UNCHANGED hooks

ListenWithoutTarget(x) == NodeCloses(x, {"listen"})

\* ConnectionIn reads the ListenIn, unless the tunnel is broken before.  The
\* TargetOut goes to the command tunnel of the target, if it is here; if the
\* write fails, the node closes both tunnels.
onInvokerListenIn(x) ==
  /\ \/ Go(x, "listenIn", "targetOut") /\ UNCHANGED hooks
     \/ Go(x, "listenIn", "noTarget") /\ UNCHANGED hooks
     \/ Go(x, "listenIn", "cut") /\ ListenWithoutTarget(x)
     \/ Go(x, "listenIn", "cut") /\ end[x]["listen"] = "closed" /\ UNCHANGED hooks
  /\ UNCHANGED <<end, copying, route, goodbyes, dial>>

\* The Transfer_Go names the listen invoker: with it the two tunnels are joined,
\* without it the target tunnel stays as it is.
onInvokerTransferGo(x) ==
  /\ \/ /\ Go(x, "going", "paired")
        /\ <<x, "listen">> \in route
        /\ copying' = [copying EXCEPT ![x] = @ \cup NodeCopy]
     \/ /\ Go(x, "going", "orphan")
        /\ <<x, "listen">> \notin route
        /\ UNCHANGED copying
     \/ /\ Go(x, "going", "targetLost")
        /\ end[x]["target"] = "closed"
        /\ UNCHANGED copying
  /\ UNCHANGED <<end, closeVars, dial>>

-----------------------------------------------------------------------------
(* The target client.                                                      *)

\* The command tunnel loses the TargetOut, or the target cannot dial the node.
TargetFails(x) ==
  /\ Go(x, "targetOut", "noTarget")
  /\ UNCHANGED <<end, copying, closeVars, dial>>

onInvoker_DialOut(x) ==
  /\ Go(x, "targetOut", "dialedOut")
  /\ end' = Opened(x, "target")
  /\ route' = route \cup {<<x, "target">>}
  /\ UNCHANGED <<copying, hooks, goodbyes, dial>>

WriteTransferGo(x) ==
  /\ \/ /\ Go(x, "dialedOut", "going")
        /\ end[x]["target"] = "open"
        /\ dial' = [dial EXCEPT ![x] = "dialing"]
        /\ UNCHANGED goodbyes
     \/ /\ Go(x, "dialedOut", "targetLost")
        /\ ClientCloses(x, {"target"})
        /\ UNCHANGED dial
  /\ UNCHANGED <<end, copying, route, hooks>>

DialRemote(x) ==
  /\ dial[x] = "dialing"
  /\ dial' = [dial EXCEPT ![x] = "done"]
  /\ end' = Opened(x, "remote")
  /\ copying' = [copying EXCEPT ![x] = @ \cup TargetCopy]
  /\ UNCHANGED <<built, closeVars>>

\* A refused dial is followed by a Copy to a nil connection: the process ends by
\* the panic, and with it every relay that it serves.
DialRefused(x) ==
  /\ dial[x] = "dialing"
  /\ dial' = [y \in Conns |-> IF y = x THEN "refused"
                              ELSE IF dial[y] = "dialing" THEN "none" ELSE dial[y]]
  /\ end' = [y \in Conns |-> Closed(y, {"target", "remote"})[y]]
  /\ copying' = [y \in Conns |-> copying[y] \ TargetCopy]
  /\ built' = [y \in Conns |-> IF built[y] = "targetOut" THEN "noTarget"
                               ELSE IF built[y] = "dialedOut" THEN "targetLost" ELSE built[y]]
  /\ goodbyes' = goodbyes \ (Conns \X {"target"})
  /\ UNCHANGED <<route, hooks>>

-----------------------------------------------------------------------------
(* Copy, and the onClose of what it closes.                                *)

\* A slip: a direction that ends leaves the closing to the other one.
Closes_None(d) == {}

\* The ends that a direction closes when it stops.
Closes(d) == {d[1], d[2]}

\* The direction d of a Copy stops: a connection is closed at once, an invoker's
\* onClose is still to come.
Stop(x, d) ==
  /\ d \in copying[x]
  /\ copying' = [copying EXCEPT ![x] = @ \ {d}]
  /\ end' = Closed(x, Closes(d) \ Tunnels)
  /\ IF d \in NodeCopy
       THEN NodeCloses(x, Closes(d)) /\ UNCHANGED goodbyes
       ELSE ClientCloses(x, Closes(d) \cap Tunnels) /\ UNCHANGED hooks
  /\ UNCHANGED <<built, route, dial>>

\* It reads the end of its source.
ReadEnds(x, d) == end[x][d[1]] = "closed" /\ Stop(x, d)

\* It has something to write, and cannot.
WriteFails(x, d) == end[x][d[2]] = "closed" /\ Stop(x, d)

\* A slip: the onClose of an invoker leaves it in the route.
RemoveInvoker_None(x, e) == route

RemoveInvoker(x, e) == route \ {<<x, e>>}

NodeOnClose(x, e) ==
  /\ <<x, e>> \in hooks
  /\ hooks' = hooks \ {<<x, e>>}
  /\ end' = Closed(x, {e})
  /\ route' = RemoveInvoker(x, e)
  /\ UNCHANGED <<built, copying, goodbyes, dial>>

ClientOnClose(x, e) ==
  /\ <<x, e>> \in goodbyes
  /\ goodbyes' = goodbyes \ {<<x, e>>}
  /\ end' = Closed(x, {e})
  /\ UNCHANGED <<built, copying, route, hooks, dial>>

-----------------------------------------------------------------------------
(* The users at both ends, and the network between the processes.          *)

Hangup(x) ==
  /\ \E e \in {"local", "remote"} : end[x][e] = "open" /\ end' = Closed(x, {e})
  /\ UNCHANGED <<built, copying, closeVars, dial>>

\* A slip: the node would notice the end of a tunnel that nobody reads.
RouteWithout_Lost(x, e) == route \ {<<x, e>>}

\* Between ListenIn and Copy the node does not read the tunnel, and its route
\* keeps it.
RouteWithout(x, e) == route

TunnelLost(x) ==
  /\ \E e \in Tunnels : /\ end[x][e] = "open"
                       /\ end' = Closed(x, {e})
                       /\ route' = RouteWithout(x, e)
  /\ UNCHANGED <<built, copying, hooks, goodbyes, dial>>

Build(x) ==
  \/ DialListen(x) \/ WriteListenIn(x) \/ onInvokerListenIn(x) \/ onInvokerTransferGo(x)
  \/ onInvoker_DialOut(x) \/ TargetFails(x) \/ WriteTransferGo(x)

RelayNext ==
  \E x \in Conns :
    \/ Accept(x) \/ Build(x) \/ DialRemote(x) \/ DialRefused(x)
    \/ \E d \in Directions : ReadEnds(x, d) \/ WriteFails(x, d)
    \/ \E e \in Tunnels : NodeOnClose(x, e) \/ ClientOnClose(x, e)
    \/ Hangup(x) \/ TunnelLost(x)

RelaySpec == RelayInit /\ [][RelayNext]_relayVars

\* What a process goes on with by itself.  That a direction finds the end it writes
\* to closed is not part of it: it may never have anything to write.
Works(x) ==
  \/ Build(x) \/ DialRemote(x) \/ DialRefused(x)
  \/ \E d \in Directions : ReadEnds(x, d)
  \/ \E e \in Tunnels : NodeOnClose(x, e) \/ ClientOnClose(x, e)

\* Every goroutine goes on, and a net.Dial ends somehow.  No step of a relay can be
\* taken twice, so the fairness of the union is that of each of its steps.
RelayFairness == \A x \in Conns : WF_relayVars(Works(x))

FairRelaySpec == RelaySpec /\ RelayFairness

-----------------------------------------------------------------------------
(* Properties.                                                             *)

\* The Transfer_Go of a target always finds its listen tunnel in the route, even
\* one that was lost on the way: it can then be closed (node.go:476-494).
GoFindsListener ==
  \A x \in Conns : built[x] \in {"dialedOut", "going"} => <<x, "listen">> \in route

\* The route keeps a joined tunnel for as long as both directions of the node's Copy
\* run; when one has stopped, the tunnel is closed and its onClose is to come, and it
\* leaves the route only with that, when its session is closed
\* (invoke.go:156-163, closer.go:49-62, server.go:168-176).
JoinedIsRouted ==
  \A x \in Conns, e \in Tunnels : built[x] = "paired" =>
    IF NodeCopy \subseteq copying[x]
      THEN <<x, e>> \in route \ hooks
      ELSE <<x, e>> \in hooks \/ (<<x, e>> \notin route /\ end[x][e] = "closed")

\* A tunnel that has ended leaves the route in the end, unless its relay never gets
\* as far as the two Copys of the node: that one stays for as long as the node runs
\* (node.go:136-143, 457-494; server.go:168-176).
RouteDrains ==
  \A x \in Conns, e \in Tunnels :
    (<<x, e>> \in route /\ end[x][e] = "closed")
      ~> (<<x, e>> \notin route \/ built[x] \in {"noTarget", "targetLost", "orphan", "cut"})

\* When any end of a joined relay closes, all of them do: no half of it stays
\* behind in one of the three processes (client.go:63-79, 248-311; node.go:476-494).
CloseSpreads ==
  \A x \in Conns :
    (built[x] = "paired" /\ \E e \in Ends : end[x][e] = "closed")
      ~> (\A e \in Ends : end[x][e] # "open")

\* A local connection that is accepted gets its relay, or is closed, or hangs open in
\* one of three ways: the listener could not dial, the target did not get the
\* TargetOut, or its tunnel was lost before the node had read its Transfer_Go
\* (client.go:63-79, 248-300; node.go:136-143, 457-474).
AcceptedIsServed ==
  \A x \in Conns :
    (built[x] = "accepted") ~>
      (built[x] \in {"paired", "unserved", "noTarget", "targetLost"}
       \/ end[x]["local"] = "closed")

-----------------------------------------------------------------------------
(* The inductive invariant (ListenProofs).                                 *)

\* The ends that a relay has got so far.
EndInv ==
  \A x \in Conns :
    /\ built[x] # "idle" => end[x]["local"] # "none"
    /\ built[x] \notin {"idle", "accepted", "unserved"} => end[x]["listen"] # "none"
    /\ built[x] \in {"dialedOut", "going", "paired"} => end[x]["target"] # "none"

\* The node copies only for a joined relay, and closes only in one that is joined or
\* cut; until it is joined no tunnel leaves its route.
RouteInv ==
  \A x \in Conns :
    /\ copying[x] \cap NodeCopy # {} => built[x] = "paired"
    /\ \A e \in Tunnels : <<x, e>> \in hooks => built[x] \in {"paired", "cut"}
    /\ built[x] \in {"dialed", "listenIn", "targetOut", "dialedOut", "going"} =>
         <<x, "listen">> \in route
    /\ built[x] \in {"dialedOut", "going"} => <<x, "target">> \in route

RelayInv == RelayTypeOK /\ EndInv /\ RouteInv /\ JoinedIsRouted
=============================================================================
