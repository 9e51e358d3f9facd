---------------------------- MODULE HttpTransport ----------------------------
(***************************************************************************)
(* The node as an HTTP proxy: getTransport and OnHttpRoot for the requests *)
(* of one key (a tunnel and the remote address of a browser), and the data *)
(* tunnels that the target client dials for them (onInvokerTransferGo).    *)
(* The transports of the key live in a utils.Cache (TimedCache), reduced   *)
(* here to one entry, the lease of it, and the Delete calls under way.     *)
(* The keys do not touch each other, so one is enough.  A request may ask  *)
(* for one data tunnel and make one transport: both carry its name.        *)
(***************************************************************************)
EXTENDS Naturals, FiniteSets

CONSTANTS Requests,  \* the HTTP requests of the key
          None,      \* no transport, no invoker
          Expiry,    \* the Delete of an expired lease
          AtOnce     \* how many requests the browser has in progress at once

ASSUME TransportAssumption == /\ {None, Expiry} \cap Requests = {} /\ None # Expiry
                              /\ AtOnce \in Nat \ {0}

VARIABLES
  req,        \* req[r]: the point request r has reached
  uses,       \* uses[r]: the transport it uses
  entry,      \* the transport in the cache
  leased,     \* a timer runs for it
  stray,      \* timers run for entries that a Delete has removed
  invoker,    \* invoker[r]: the field of transport r
  conn,       \* conn[r]: the invoker that its DialContext returns; None: no http.Transport
  go,         \* go[t]: the point the data tunnel t and its onInvokerTransferGo have reached
  to,         \* to[t]: the transport it has found
  open,       \* the data tunnels that are open
  hooks,      \* the closed tunnels whose OnCloseClient has to run
  toDelete,   \* the callers of Delete before the deleteHandler
  deleting,   \* those between the deleteHandler and the lock
  timedOut,   \* history: the requests that waited 10 s
  met,        \* history: the requests that were in progress with another one
  crossed     \* history: a transport was set, or took a tunnel, while a Delete was
              \* between its deleteHandler and the lock; or a Delete ended while a
              \* handler had found the transport and not yet given it its tunnel

reqVars    == <<req, uses>>
leaseVars  == <<leased, stray>>
cacheVars  == <<entry, leaseVars>>
transVars  == <<invoker, conn>>
goVars     == <<go, to>>
deleteVars == <<toDelete, deleting>>
historyVars == <<timedOut, met, crossed>>
vars == <<reqVars, cacheVars, transVars, goVars, open, hooks, deleteVars, historyVars>>

Ended == {"served", "mixed", "failed", "panicked"}
InProgress == {r \in Requests : req[r] \notin {"idle"} \cup Ended}

\* Who calls Delete: a request, the hook of a closed tunnel, a timer.
Deleters == (Requests \X {"request", "tunnel"}) \cup {<<Expiry, "lease">>}

TypeOK ==
  /\ req \in [Requests -> {"idle", "found", "ask", "asked", "stored", "wait", "decide",
                           "trip", "tripping", "delete"} \cup Ended]
  /\ uses \in [Requests -> Requests \cup {None}]
  /\ entry \in Requests \cup {None}
  /\ leased \in BOOLEAN /\ stray \in BOOLEAN /\ (leased => entry # None)
  /\ invoker \in [Requests -> Requests \cup {None}]
  /\ conn \in [Requests -> Requests \cup {None}]
  /\ go \in [Requests -> {"none", "dialing", "ignored", "found", "sending", "done"}]
  /\ to \in [Requests -> Requests \cup {None}]
  /\ open \subseteq Requests
  /\ hooks \subseteq Requests \ open
  /\ toDelete \subseteq Deleters /\ deleting \subseteq Deleters
  /\ timedOut \subseteq Requests /\ met \subseteq Requests /\ crossed \in BOOLEAN

Init ==
  /\ req = [r \in Requests |-> "idle"]
  /\ uses = [r \in Requests |-> None]
  /\ entry = None /\ leased = FALSE /\ stray = FALSE
  /\ invoker = [r \in Requests |-> None]
  /\ conn = [r \in Requests |-> None]
  /\ go = [t \in Requests |-> "none"]
  /\ to = [t \in Requests |-> None]
  /\ open = {} /\ hooks = {}
  /\ toDelete = {} /\ deleting = {}
  /\ timedOut = {} /\ met = {} /\ crossed = FALSE

Step(r, from, where) == req[r] = from /\ req' = [req EXCEPT ![r] = where]

\* A transport has taken the tunnel, which carries the key for the hook.
Taken(t) == go[t] \in {"sending", "done"}

\* Closing is idempotent, and the hook knows only tunnels that carry a key.
CloseTunnels(T) ==
  /\ open' = open \ T
  /\ hooks' = hooks \cup {t \in T \cap open : Taken(t)}

-----------------------------------------------------------------------------
(* getTransport.                                                           *)

Lookup(r) ==
  /\ Cardinality(InProgress) < AtOnce
  /\ Step(r, "idle", IF entry = None THEN "ask" ELSE "found")
  /\ uses' = [uses EXCEPT ![r] = entry]
  /\ met' = IF InProgress = {} THEN met ELSE met \cup InProgress \cup {r}
  /\ UNCHANGED <<cacheVars, transVars, goVars, open, hooks, deleteVars, timedOut, crossed>>

\* A transport that was found is leased again, if it is still there, and used,
\* whether its maker has finished it or not.
Renew(r) ==
  /\ Step(r, "found", "trip")
  /\ leased' = (entry # None)
  /\ UNCHANGED <<uses, entry, stray, transVars, goVars, open, hooks, deleteVars, historyVars>>

TargetOffline(r) ==
  /\ Step(r, "ask", "failed")
  /\ UNCHANGED <<uses, cacheVars, transVars, goVars, open, hooks, deleteVars, historyVars>>

\* TargetOut is on its way before the transport is in the cache.
WriteTargetOut(r) ==
  /\ Step(r, "ask", "asked")
  /\ go' = [go EXCEPT ![r] = "dialing"]
  /\ UNCHANGED <<uses, cacheVars, transVars, to, open, hooks, deleteVars, historyVars>>

\* Set has no lease for the new value, whatever the old one had.
SetTransport(r) ==
  /\ Step(r, "asked", "stored")
  /\ entry' = r
  /\ leased' = FALSE
  /\ crossed' = (crossed \/ deleting # {})
  /\ UNCHANGED <<uses, stray, transVars, goVars, open, hooks, deleteVars, timedOut, met>>

\* A slip: getTransport does not wait for the tunnel.
Awaits_Not == "decide"

Awaits == "wait"

SetExpire(r) ==
  /\ Step(r, "stored", Awaits)
  /\ leased' = (entry # None)
  /\ UNCHANGED <<uses, entry, stray, transVars, goVars, open, hooks, deleteVars, historyVars>>

\* A slip: the wait has no limit.
Timeout_Never(r) ==
  FALSE /\ Step(r, "wait", "decide") /\ UNCHANGED vars

\* Ten seconds, or a tunnel on the channel of the transport.
Timeout(r) ==
  /\ Step(r, "wait", "decide")
  /\ timedOut' = timedOut \cup {r}
  /\ UNCHANGED <<uses, cacheVars, transVars, goVars, open, hooks, deleteVars, met, crossed>>

Receive(r, t) ==
  /\ Step(r, "wait", "decide")
  /\ go[t] = "sending" /\ to[t] = r
  /\ go' = [go EXCEPT ![t] = "done"]
  /\ UNCHANGED <<uses, cacheVars, transVars, to, open, hooks, deleteVars, historyVars>>

\* A slip: the transport is used whether it has a tunnel or not.
HasTunnel_Always(r) == TRUE

HasTunnel(r) == invoker[r] # None

\* Without a tunnel the key is deleted, with one the transport is finished.
Decide(r) ==
  /\ \/ /\ ~HasTunnel(r)
        /\ Step(r, "decide", "delete")
        /\ toDelete' = toDelete \cup {<<r, "request">>}
        /\ UNCHANGED <<uses, conn>>
     \/ /\ HasTunnel(r)
        /\ Step(r, "decide", "trip")
        /\ uses' = [uses EXCEPT ![r] = r]
        /\ conn' = [conn EXCEPT ![r] = invoker[r]]
        /\ UNCHANGED toDelete
  /\ UNCHANGED <<cacheVars, invoker, goVars, open, hooks, deleting, historyVars>>

-----------------------------------------------------------------------------
(* OnHttpRoot.                                                             *)

\* RoundTrip writes the request on the connection of the transport; a transport
\* that is not finished has no http.Transport, and the call panics.
RoundTrip(r) ==
  /\ \/ Step(r, "trip", "tripping") /\ conn[uses[r]] # None
     \/ Step(r, "trip", "panicked") /\ conn[uses[r]] = None
  /\ UNCHANGED <<uses, cacheVars, transVars, goVars, open, hooks, deleteVars, historyVars>>

\* The requests whose answers come over one connection, in any order.
Sharing(r) == {s \in Requests : req[s] = "tripping" /\ conn[uses[s]] = conn[uses[r]]}

\* DialContext gives every dial the same connection: with two requests on it
\* either of them may read the answer of the other.
Answered(r) ==
  /\ \/ Step(r, "tripping", "served")
     \/ Step(r, "tripping", "mixed") /\ Sharing(r) # {r}
  /\ conn[uses[r]] \in open
  /\ UNCHANGED <<uses, cacheVars, transVars, goVars, open, hooks, deleteVars, historyVars>>

\* RoundTrip fails, because the tunnel is closed or for the target's reasons:
\* the invoker that the transport has now is closed and the key is deleted.
RoundTripFailed(r) ==
  /\ Step(r, "tripping", "delete")
  /\ CloseTunnels({invoker[uses[r]]})
  /\ toDelete' = toDelete \cup {<<r, "request">>}
  /\ UNCHANGED <<uses, cacheVars, transVars, goVars, deleting, historyVars>>

-----------------------------------------------------------------------------
(* The cache.                                                              *)

\* The lease of 20 s, which starts with the wait of 10 s, outlasts it.
LeaseExpires ==
  /\ leased
  /\ req[entry] # "wait"
  /\ leased' = FALSE
  /\ toDelete' = toDelete \cup {<<Expiry, "lease">>}
  /\ UNCHANGED <<reqVars, entry, stray, transVars, goVars, open, hooks, deleting, historyVars>>

\* A timer outlives the entry it was set for, and deletes what the key has by
\* then; it may have been the last one or not.
StrayExpires ==
  /\ stray
  /\ stray' \in BOOLEAN
  /\ toDelete' = toDelete \cup {<<Expiry, "lease">>}
  /\ UNCHANGED <<reqVars, entry, leased, transVars, goVars, open, hooks, deleting, historyVars>>

\* A slip: the invoker of the cached transport is not closed.
Cached_None == {}

Cached == IF entry = None THEN {} ELSE {invoker[entry]}

\* The deleteHandler closes the invoker of the transport the key has now ...
DeleteHandler(d) ==
  /\ d \in toDelete
  /\ toDelete' = toDelete \ {d}
  /\ deleting' = deleting \cup {d}
  /\ CloseTunnels(Cached)
  /\ UNCHANGED <<reqVars, cacheVars, transVars, goVars, timedOut, met, crossed>>

\* ... and then the key goes with whatever it has.
Delete(d) ==
  /\ d \in deleting
  /\ deleting' = deleting \ {d}
  /\ entry' = None
  /\ leased' = FALSE
  /\ stray' = (stray \/ leased)
  /\ req' = IF d[2] = "request" THEN [req EXCEPT ![d[1]] = "failed"] ELSE req
  /\ crossed' = (crossed \/ \E t \in Requests : go[t] = "found")
  /\ UNCHANGED <<uses, transVars, goVars, open, hooks, toDelete, timedOut, met>>

-----------------------------------------------------------------------------
(* The data tunnels.                                                       *)

\* The target does not come, or its tunnel and its Transfer_Go do, and the handler
\* looks for the transport of the key.
TargetFails(t) ==
  /\ go[t] = "dialing"
  /\ go' = [go EXCEPT ![t] = "none"]
  /\ UNCHANGED <<reqVars, cacheVars, transVars, to, open, hooks, deleteVars, historyVars>>

onInvokerTransferGo(t) ==
  /\ go[t] = "dialing"
  /\ open' = open \cup {t}
  /\ go' = [go EXCEPT ![t] = IF entry = None THEN "ignored" ELSE "found"]
  /\ to' = [to EXCEPT ![t] = entry]
  /\ UNCHANGED <<reqVars, cacheVars, transVars, hooks, deleteVars, historyVars>>

\* The transport takes the tunnel, whether it is in the cache by then or not, and
\* the handler is at its channel.
TakeTunnel(t) ==
  /\ go[t] = "found"
  /\ go' = [go EXCEPT ![t] = "sending"]
  /\ invoker' = [invoker EXCEPT ![to[t]] = t]
  /\ crossed' = (crossed \/ deleting # {})
  /\ UNCHANGED <<reqVars, cacheVars, conn, to, open, hooks, deleteVars, timedOut, met>>

ConnectionLost(t) ==
  /\ t \in open
  /\ CloseTunnels({t})
  /\ UNCHANGED <<reqVars, cacheVars, transVars, goVars, deleteVars, historyVars>>

\* The hook of a closed tunnel closes the invoker of the transport that the key
\* has by then, and deletes the key.
OnCloseClient(t) ==
  /\ t \in hooks
  /\ open' = open \ Cached
  /\ hooks' = (hooks \ {t}) \cup {u \in Cached \cap open : Taken(u)}
  /\ toDelete' = toDelete \cup {<<t, "tunnel">>}
  /\ UNCHANGED <<reqVars, cacheVars, transVars, goVars, deleting, historyVars>>

GetTransport(r) ==
  \/ Lookup(r) \/ Renew(r) \/ TargetOffline(r) \/ WriteTargetOut(r)
  \/ SetTransport(r) \/ SetExpire(r) \/ Timeout(r) \/ Decide(r)
  \/ \E t \in Requests : Receive(r, t)

Next ==
  \/ \E r \in Requests : \/ GetTransport(r)
                         \/ RoundTrip(r) \/ Answered(r) \/ RoundTripFailed(r)
  \/ \E t \in Requests : \/ TargetFails(t) \/ onInvokerTransferGo(t) \/ TakeTunnel(t)
                         \/ ConnectionLost(t) \/ OnCloseClient(t)
  \/ LeaseExpires \/ StrayExpires
  \/ \E d \in toDelete : DeleteHandler(d)
  \/ \E d \in deleting : Delete(d)

Spec == Init /\ [][Next]_vars

\* Goroutines run, the clock does, a dialed tunnel comes or fails.  A target
\* need not answer, and a session need not end.
Fairness ==
  /\ \A r \in Requests : /\ WF_vars(GetTransport(r) /\ req[r] # "idle")
                         /\ WF_vars(RoundTrip(r))
                         /\ WF_vars(RoundTripFailed(r) /\ conn[uses[r]] \notin open)
                         /\ WF_vars(OnCloseClient(r))
  /\ WF_vars(LeaseExpires)
  /\ \A d \in Deleters : WF_vars(DeleteHandler(d)) /\ WF_vars(Delete(d))

FairSpec == Spec /\ Fairness

-----------------------------------------------------------------------------
(* Properties.                                                             *)

\* A request that never had to share its key with another one neither panics on
\* an unfinished transport nor reads another request's answer (node.go:42-129).
AloneIsSafe ==
  \A r \in Requests : r \notin met => req[r] \notin {"panicked", "mixed"}

\* A handler that waits on the channel of a transport has somebody who waits at
\* the other end, as long as no request has timed out and none have overlapped
\* (node.go:66-71, 476-488).
HandlerHasTaker ==
  timedOut = {} /\ met = {} =>
    \A t \in Requests : go[t] = "sending" => req[to[t]] \in {"stored", "wait"}

\* An open tunnel that a transport has taken can be found and closed: it is the
\* invoker of the transport that is in the cache, unless a request timed out,
\* requests overlapped, or a Delete crossed a Set or the handler of a Transfer_Go
\* (node.go:168-178, 476-488, 515-520).
OpenIsTracked ==
  timedOut = {} /\ met = {} /\ ~crossed =>
    \A t \in open : Taken(t) => entry = to[t] /\ invoker[entry] = t

\* A request ends, by an answer, the timeout, or the lease, which closes its
\* tunnel; or it waits on an open tunnel whose transport is not in the cache any
\* more (node.go:42-129).
RequestEnds ==
  \A r \in Requests :
    (r \in InProgress) ~>
      \/ req[r] \in Ended
      \/ req[r] = "tripping" /\ entry # uses[r] /\ conn[uses[r]] \in open

-----------------------------------------------------------------------------
(* The inductive invariant (HttpProofs).                                   *)

MetInv == \A r, s \in InProgress : r # s => {r, s} \subseteq met

\* A transport in the cache is finished, or its maker is still at it.
EntryInv ==
  entry # None => req[entry] \in {"stored", "wait", "decide", "delete"} \/ conn[entry] # None

\* What a request uses is finished, if it was never with another one.
UseInv ==
  \A r \in Requests :
    /\ req[r] \in {"found", "trip", "tripping"} => uses[r] # None
    /\ req[r] \in {"found", "trip"} /\ r \notin met => conn[uses[r]] # None
    /\ <<r, "request">> \in toDelete \cup deleting => req[r] = "delete"
    /\ <<r, "request">> \notin toDelete \cap deleting

\* A tunnel that has not come has found no transport, and hooks and transports have
\* only those that one took.
GoInv ==
  \A t \in Requests :
    /\ req[t] \in {"idle", "ask"} => go[t] = "none"
    /\ go[t] \in {"none", "dialing"} => t \notin open
    /\ to[t] = None <=> go[t] \in {"none", "dialing", "ignored"}
    /\ t \in hooks => Taken(t)
    /\ invoker[t] # None => Taken(invoker[t])

\* Requests one at a time get the tunnels that they asked for.
SoloInv ==
  timedOut = {} /\ met = {} =>
    \A r \in Requests :
      /\ go[r] = "dialing" => req[r] \in {"asked", "stored", "wait"}
      /\ to[r] \in {None, r}
      /\ go[r] \in {"found", "sending"} => to[r] = r /\ req[r] \in {"stored", "wait"}
      /\ req[r] \in {"ask", "asked"} => entry = None
      /\ req[r] \in {"stored", "wait"} => entry \in {r, None}

\* Between its two halves a Delete has nothing left to close.
DeletingInv == deleting # {} /\ ~crossed => entry = None \/ invoker[entry] \notin open

\* The transport that a handler has found is still in the cache.
FoundInv ==
  timedOut = {} /\ met = {} /\ ~crossed =>
    \A t \in Requests : go[t] = "found" => entry = to[t]

HttpInv ==
  /\ TypeOK /\ MetInv /\ EntryInv /\ UseInv /\ GoInv /\ SoloInv /\ DeletingInv /\ FoundInv
  /\ AloneIsSafe /\ OpenIsTracked
=============================================================================
