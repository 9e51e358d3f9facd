# A model of zhangyu in TLA+

zhangyu is a tunnel service in Go. Clients behind a NAT keep a QUIC
(WebTransport) command tunnel to a node. A user adds a *listen*: a TCP port that
one client opens and another client (the target) serves, or an HTTP host that the
node itself serves. Every connection to a listen becomes a pair of data tunnels
that a node joins. The nodes share their state through etcd.

These modules model the parts of that program whose difficulty is in the order of
events: one process has many goroutines that share fields without a lock, three
processes build one relay, and several nodes read and write etcd without
transactions. TLC checks the models on small instances; TLAPS checks proofs of the
safety of all of them for instances of any size. Every definition is translated from the code, and `PROJECT.json` ("map") says from which lines.

    tlc  -workers 2 -config MCInvoker.cfg MCInvoker.tla     one run
    tlapm InvokerProofs.tla                                 the proofs of a module

Contents

1. Inventory: the parts of the system
2. The modules, and how they correspond to the code
3. The runs: what each one checks, its bounds, what it shows
4. Fairness
5. What is proved, and how
6. Where the code departs from its own documents
7. Abstractions, and what is not modelled
8. Plan

## 1. Inventory

| part | source | state it keeps | operations |
|---|---|---|---|
| RPC tunnel (`rpc.Invoker`) | `rpc/invoke.go` | `invokeMap` of response channels, `invokeMapLock`, `writerLock`, context, the stream | `Invoke`, `WriteInvoke`, `receiveResponse`, `DispatchInvoke`, `Copy`, `Close` |
| Invoke route (`rpc.InvokeRoute`) | `rpc/invoke.go` | the map of invokers (a `utils.Cache`), the handler tables, the default invoker | `AddAcceptInvoker`, `AddDialInvoker`, `GetInvoker`, `RemoveInvoker`, `AddUniHandler`, `AddRpcHandler`, the dispatch |
| Closer | `utils/closer.go` | a context and an onClose hook | `SetCtx`, `SetOnClose`, `Close` |
| Timed cache | `utils/cache.go` | the map, a version per item, one goroutine per lease | `Set`, `SetExpire`, `Get`, `Delete`, `expire` |
| QUIC server | `rpc/quic/srv/server.go` | the route of a node | accept and upgrade of a session, `SetId`, the heartbeat's lease |
| Session registry | `app/node/node.go`, `app/node/etcd/etcd.go` | etcd: one online record per client, under a lease | login, the watcher and the Kick, `OnCloseClient` |
| Client process | `app/client/client.go`, `rpc/quic/cli/client.go`, `utils/json.go` | `connected`, default invoker, `TerminalId`, `Token`, `client.json`, `listenStarted` | `ConnectTo`, keepalive, heartbeat, `OnConnected`, `OnNewClient`, `login`, `SaveJsonSetting`, `Kick` |
| Listen delivery | `node.go`, `client.go` | etcd: the listens of a client; in the client: the open ports | `httpHandler_ListenAdd`, `TransferList`, `onInvoker_ListenAdd`, `AddListen` |
| Names, keys and the HTTP API | `app/node/etcd/etcd.go`, `app/node/node.go` | etcd: tunnel ids, domains, the signing key | `lock`, `GenerateTunnelId`, `GenerateDomainName`, `GenerateNewClient`, `httpHandler_Login`, `verifyToken`, `httpHandler_ListenAdd`, `AddListenWithTunnel`, `GetJwtSignKey` |
| Framing | `rpc/invoke.go`, `utils/io.go` | two byte streams per tunnel, `writerLock`, the read buffer of the handshake | `AddAcceptInvoker`, `AddDialInvoker`, `writeInvokeData`, `readInvokeStr`, `Copy` |
| TCP relay | `client.go`, `node.go`, `rpc/invoke.go` | four ends and six copying goroutines in three processes | `TcpListen`, `onInvokerListenIn`, `onInvoker_DialOut`, `onInvokerTransferGo`, `Copy` |
| HTTP proxy | `node.go`, `transport.go` | a cache of transports, one per tunnel and browser | `OnHttpRoot`, `getTransport`, `onInvokerTransferGo`, `OnCloseClient` |
| Data types, helpers, programs | the rest | none | not modelled, see section 7 |

How they interact:

    browser / user                                        remote service
         |                                                      |
    listening client --data tunnel--+          +--data tunnel-- target client
         |  command tunnel          |          |        command tunnel |
         +------------------------ node ------ node -------------------+
                                      \        /
                                         etcd   (online records, names, listens, key)

- *Calls.* A client calls its node (`Invoke`: login, list of listens); the node
  writes one-way requests to a client (`Client_New`, `Kick`, `ListenAdd`,
  `TargetOut`) and does not know whether they arrive.
- *Shared state in a process.* The goroutines of a client (the one that connects,
  the heartbeat, a handler per request, the handlers of failed writes) share
  `connected`, the default invoker and the identity without a lock. The requests
  of a browser share one transport in the node.
- *Callbacks.* A `Closer` runs `onClose` in a goroutine once its context is
  cancelled; a cache calls `expireHandler` and `deleteHandler`, outside its lock;
  etcd calls the watcher of each node with the previous value of a record.
- *Shared state between nodes.* Records in etcd, read and written in separate
  calls, some under a lease of 5 s that protects a name, some under a lease that
  the node keeps alive.

What is hard in each part, and what makes it correct:

- **RPC tunnel.** Responses of concurrent calls come back in any order, and
  `receiveResponse` sends to the caller while it has the lock of all calls.
  Correct: a call gets its own answer or fails, at most one execution per call,
  nobody waits for ever.
- **Session registry.** Two logins, a close and a crash interleave between any two
  accesses to etcd. Correct: the record names the tunnel of the latest login, an
  ended tunnel loses its record, the tunnel that was replaced ends and no other.
- **Client process.** It reconnects while goroutines of the tunnel before are
  still running. Correct: it stays one client, it gets back a tunnel, it does not
  end by itself.
- **Timed cache.** Timers, deletes and renewals of a key cross. Correct: no entry
  ends before its lease, none stays after it, whatever leaves was closed.
- **HTTP proxy.** A transport is stored after the tunnel for it was asked for, and
  used by a second request before it is finished. Correct: a request ends, gets
  its own answer, and leaves no tunnel open that nobody can find.
- **Names and keys.** A name is locked for 5 s and put without a look at the lock; the
  nodes agree on a signing key by one transaction. Correct: a name leads to the one
  it was given to, a token of one node is good at all.
- **Framing.** Handshake, frames of many goroutines and raw bytes follow each other
  on one stream, which may end at any byte. Correct: a reader gets what was written,
  whole and in order, or nothing.
- **Listen delivery.** A listen reaches the client by the list it asks for or by a
  notice. Correct: it does by one of them.
- **TCP relay.** Any of four ends may go at any time while three processes build
  the relay. Correct: nothing of it is left when one end is gone.

`PROJECT.json` ("hazards") lists these dangers one by one, at the line where each
bites, with the properties that watch over it.

## 2. The modules, and how they correspond to the code

The modules are peers: each takes one part and reduces its neighbours to what
they do to it. Where a neighbour is reduced, the module that has it in full is
named in the comment at the head. `BidiCall`, `SessionRegistry`, `LeasedMap`, `NameBook`
and `Channel` are abstract specifications, which `Invoker`, `OnlineClients`, `TimedCache`,
`Allocation` and `Framing` implement. An `MC...` module adds what TLC needs (symmetry, an order of
names) to the module without changing a definition; a `...Proofs` module has the
theorems. Operators named `X_Something` with the comment "A slip" are wrong
variants of the operator `X` after them. They are no part of any specification:
each is a plausible mistake that breaks one of the properties, and so shows that
the property can fail.

**BidiCall.** What a bidirectional call promises: `Issue`, `Execute`, `Complete`,
`Answer`, `Fail`. An execution happens at most once, an answer needs a completed
execution, an outcome never changes.

**Invoker** (`rpc/invoke.go`, `utils/closer.go`). The client's `Invoke`
(`getResponseChan`, the write, the `select`, `RemoveResponseChan`), the goroutine
of `receiveResponse`, `DispatchInvoke` at both ends, the node's handlers and the
two Closers. A goroutine's program counter is a function (`call[r]`,
`receiver[r]`, `handler[r]`, `loop[e]`). Critical sections that cannot block are
one step; the one that can, the send in `receiveResponse`, keeps `lockHolder`.
The streams are sequences of request ids; a write to a session that is gone is
refused or buffered and lost, as the QUIC stream does it.

**NameBook.** What the names of a network promise: a name that leads to somebody leads
to the same one for good, and none is taken away. Only a name that is loose may be
given once more.

**SessionRegistry.** What the nodes promise of the sessions of clients: `Verify`, `Login`,
`Kick`, `End`, and the ways in which a record goes. Only a verified session becomes
current; only one that was current when a login came is kicked (it may be the one that
logs in again: section 6); none comes back after its end. The exceptions are steps of
their own: `Leave` and `Remove`, between which another session may have become current,
and `Lose`, which is etcd's.

**OnlineClients** (`node.go` 168-307, `server.go` 95-215, `etcd.go` records). The
life of a command tunnel at its node (`stage`), the login handlers that have
verified a token and have yet to put the record (`pending`), the record in etcd
(`online`), the events each node has to handle (`watch`), the Kick. Each access to
etcd is a step of its own: `LoginVerify` and `LoginPut`; `GetOnlineClient` and
`DeleteOnlineClient`. A node may crash and restart; the lease of a record ends
when its node is dead. etcd may lose a PUT, a read, a delete or the keepalive of a
record, as the code discards all these errors, and a login with the right token may
be refused because the record of its client cannot be read. `Logins(i)` is two on any
tunnel of a client that a node has created: its `OnNewClient` handler logs in on the
tunnel that is the default one when it gets there. `last`, `replacedBy`, `overtaken`,
`staleDelete`, `leftover` and `unkept` are history: they guard no step and name what
has happened.

**ClientConn** (`client.go`, `cli/client.go`, `json.go`). One process. `keeper` is the
goroutine of `ConnectTo` and of the keepalive loop, `beat` that of the heartbeat,
`lateErrors` counts the writeErrorHandler goroutines, `newClient[t]` the handler
of `Client_New`, `dialing` those of `TargetOut`. `connected`, `default`,
`terminal`, `token` and `saved` are the shared fields and the settings file.
`OnNewClient` writes the identity in two steps, because others read between them,
and a save is two steps too: `os.Create` empties the file (`LoginDone`), the flush
writes what the fields are by then (`SaveJsonSetting`). `Restart` ends the process at
any moment and starts it with what is in the file.
The nodes are what the process sees of them: ids, answers, a Kick when a record
was replaced. A node refuses a login whose client record it cannot read (`unread`), and
the process ends. It may also have read a login when the tunnel ends, and put the record
later, over that of a newer tunnel (`pending`, `LateLogin`, `late`). A call whose
answer met a cancelled invoker keeps that invoker's lock (`Orphaned`), and every other
call on it hangs too (`Hang`).

**LeasedMap.** What a map with leases promises: an entry goes when its owner asked for it, or
when a lease of its key has ended, which is as long as `SetExpire` has last made it. The
lease of an item that is no longer in the map goes on, and takes its successor with it.

**TimedCache** (`utils/cache.go`). `SetNew`, `SetAgain` and `SetExpire` are the
methods under the lock. A timer (`timers`) either lapses, because its version is
old, or starts a `Delete` (`deletes`). A `Delete` is two steps: the deleteHandler
looks the key up and closes what it has, and then the lock is taken and the entry
goes, whichever it is by then (`deleting`). Time is counted in ticks.

**HttpTransport** (`node.go` 42-178, 476-520, `transport.go`). The requests of one
browser to one host: they share a cache key. `req[r]` goes through `getTransport`
(look up; or ask the target, store, lease, wait up to 10 s, decide) and
`OnHttpRoot` (round trip, answer or failure). `go[t]` is the data tunnel that the
target dials. Its handler is two steps, between which the cache is not locked:
`onInvokerTransferGo` finds the transport, `TakeTunnel` gives it the tunnel. The cache is that of TimedCache with one entry, its timer, timers
left over from earlier entries (`stray`), and the two steps of a `Delete`.

**Allocation** (`etcd.go` 200-357, `node.go` 204-226, 334-394, 415-447). A request for
a listen logs in at one node (`httpHandler_Login`) and is verified at another
(`verifyToken`), each with the key that `GetJwtSignKey` gives. A call of
`GenerateNewClient` or of `httpHandler_ListenAdd` for HTTP then locks a name, puts its
records, and is done. A lock ends when its lease does; a PUT may be lost, because
its error is discarded; a call ends anywhere by a crash. `loose` is history: the
names whose lock ended under a call that had the name, or whose PUT was lost.
`GetTarget`, the second read of the target's tunnel, may fail (`unread`): the listen is
then stored without a target client.

**ListenDelivery** (`node.go` 392-412, `client.go` 41-60, 160-215). The node puts a
listen and then tells the client; the client logs in, asks for its list once in a
process, and adds its handlers when the first `ConnectTo` has returned. etcd may lose the
PUT of the listen (`unstored`), the online record of a client that is up, or its login
(`unrecorded`), and fail to read the list, which the node answers as an empty one. What
the client can no longer hear of before it is restarted is history: `missed` when all
accesses to etcd went well, `dropped` when one of those failed.

**TunnelRelay** (`client.go` 48-90, 248-311, `node.go` 457-494, `invoke.go`
120-170, `closer.go`, `server.go` 168-176). `built[x]` is how far the relay of connection
x is built, `end[x]` its four ends, `copying[x]` which of the six directions of its three
Copys run. A direction stops on its own (`ReadEnds`, `WriteFails`) and calls `Close` of
both its ends. That closes a connection at once; of an invoker it cancels the context, and
`onClose`, which closes the session and takes it out of the route, runs later in a
goroutine of its own (`hooks` and `NodeOnClose` in the node, `goodbyes` and
`ClientOnClose` in the clients). A refused dial ends the process of the
target by a nil connection, so it touches all relays that go there. Its specification is
`RelaySpec`, its next-state relation `RelayNext`, and so on, so that one module can have
the proofs about this module and ListenDelivery.

**Channel.** What one direction of a tunnel promises: `Write` puts a message at the end,
`Take` gives the reader the next one. Nothing is taken twice, out of order or in part.

**Framing** (`invoke.go` 135-275, 327-348, 400-419, `io.go` 53-65). A tunnel as two
sequences of bytes. `dialer` and `acceptor` go through the handshake: the first byte,
which the acceptor reads through a buffer that takes any number of bytes with it;
then `SetId` as a frame. `BeginWrite` takes `writerLock` and `writeInvokeData` writes
a frame byte by byte; `ReadInvoke` reads one. On a data tunnel one request is written
and `CopyIn`, `CopyOut` follow. `IntToBytes` and `BytesToInt` are the conversions of
the code, for a base and a width. The module implements three channels: `Requested`, whose
messages are the requests (written is what a goroutine has begun to write under the
lock, taken is what `readInvokeStr` returned), and `RawUp` and `RawDown`, whose messages
are the raw bytes of a `Copy`. Invoker, which has whole messages on its streams,
takes them for such channels.

## 3. The runs

All runs have `CHECK_DEADLOCK FALSE`: the system may really stop (all calls made,
the tunnel closed, the process ended), and what must not stop for ever is said by
a liveness property instead. The instances are finite by their sets (calls,
tunnels, requests...), which bound how often something new is begun, never what
then happens to it.

| run | bounds | what it shows |
|---|---|---|
| `invoker` | 2 calls | Two calls are enough for every crossing: answers in either order, one call that holds the lock and one that waits for it. `OwnResponse`, `OrphanOnlyByCancel`; `KeepsPromise` (Invoker implements BidiCall); `HandledCallReturns`, `CancelReleasesCalls`. |
| `online` | 2 nodes, 1 client, 2 tunnels, 1 trace of a failure of etcd or refused login at a time (`FewFaults`) | One old and one new tunnel of a client, at the same node or at two, with a first tunnel that logs in twice. `RecordIsAuthentic`, `GhostIsLeftover`, `LatestRecordedUnlessStale`, `KeepsRegistry` (OnlineClients implements SessionRegistry); `ReplacedGoes`, `EndedGoesOffline`. The records of two clients share nothing; that any number of clients and any number of failures change nothing is part of the proofs. |
| `online_kick` | 2 nodes, 1 client, 2 tunnels | *Violation*, section 6. |
| `client` | 2 tunnels, 1 restart, 1 waiting write error (`FewErrors`), one of: a TargetOut, another process, a late login, refusals (`OneFromOutside`) | One tunnel and the one after it, with goroutines of the first that act during the second, in one process or in the one started after it. `IdentityKept`, `ListedIsSaved`, `MuteOnlyByCut`, `PanicOnlyBeforeList`, `KickedOnlyByRelogin`. |
| `client_live` | 2 tunnels, 1 TargetOut, no restart, 1 waiting write error (`FewErrors`), while the process lives | `Reconnects`. |
| `cache` | 1 key, 2 items, leases of 2 ticks up to time 4, 2 touches per item | An item and its successor under the same key; a renewal at every moment of a lease, one timer that is due while another runs. Keys share no state. `KeepsLeases` (TimedCache implements LeasedMap), `LeaseHasOneTimer`, `RemovedWasHandled`, `LeaseEnds`. |
| `http` | 2 requests, both at once | Two requests that overlap or follow each other, with the tunnels, leases and deletes of both. `AloneIsSafe`, `HandlerHasTaker`, `OpenIsTracked`. |
| `http_live` | 2 requests, one after the other | `RequestEnds`. |
| `names` | 2 new clients, 2 listens, 2 tunnel ids, 1 domain, 1 own host, 2 signing keys | Two calls want the one domain there is, or the same tunnel id, while two nodes offer a key. `NameResolves`, `AimedAsChecked`, `TokenIsAccepted`; `KeepsNames` (Allocation implements NameBook). |
| `framing` | 3 requests of 5, 2 and 1 bytes, 3 raw bytes each way, bytes of 4 values, lengths of 2 bytes | Every cut of a frame, three writers that meet, lengths that take one byte and two, a first byte (1) that can be taken for a length. `RawIsIntact`, `KeepsChannels` (Framing implements three channels), `SentArrives`. |
| `listen` | 3 requests, 2 of them told to the client, 2 addresses | Two listens at one address and one at another; a request that names no client or comes to another node. Restarts, reconnects, lost PUTs, lost records and failed reads without a bound. `ListenIsOpen`, `AddedIsOpened`. |
| `relay` | 2 connections, the second one quiet (`SecondIsQuiet`) | One relay with every order of building, stopping and closing, and another one that shares the process of its target. `GoFindsListener`, `JoinedIsRouted`, `RouteDrains`, `CloseSpreads`, `AcceptedIsServed`. |

Every module also has its type invariant `TypeOK`, which carries what the types
depend on (that a key in etcd has the empty value of a lock exactly as long as it
has a lease; that only an invoker of the route has an `onClose` to run). It is a conjunct
of the module's inductive invariant (section 5), which no run lists: the invariants hold
on the instances of the runs too, and are proved.

Liveness is checked without TLC's symmetry reduction, which is not sound for it.
Where the instance would be too large, an action constraint `NamedInOrder` fixes
the order in which values of a set are used first: it drops behaviours that are
renamings of others. `StaysAlive` in `MCClientConn` leaves out the steps by which the
process ends, after which `Reconnects` asks nothing more, and with them the Kicks,
the refusals, the late logins and the other process, which serve no other end.

Five bounds limit what goes wrong, not what is tried. `FewFaults`: one failure of
etcd whose trace is still there; the safety of `online` is proved for any number,
so it only limits what liveness sees, and a trace that is gone makes room for the
next. It has at most one tunnel with a second login at a time, which meets no other
failure but that it outlives the tunnel. `OneFromOutside`: in one history of `client`
either a TargetOut comes, or another process logs in, or one login of this one is late,
or logins are refused; what each does is in the run, and the proofs have all of them together.
`SecondIsQuiet`: of the second relay no end goes by itself and no write fails; nothing
stops its building but the process it shares. It is there for what the first relay's
refused dial does to it, and the other way round; the proofs have any number of equal
relays, and the liveness of a relay looks at nothing of another but that.
`FewErrors`: a second handler of a failed write finds `connected` unset by the
first, as one handler finds it that comes late. `MaxRestarts`: a restart forgets all
but `client.json`, so that a second one starts from a state that the first one could
start from, too.

Many properties have an exception: "unless", "only by". These are deliberate. An
exception names, by a history variable or a state, the one way in which the code
fails to do what one would want, and the run shows that there is no second way:

| property | the exception |
|---|---|
| `OrphanOnlyByCancel`, `CancelReleasesCalls` | a sender whose caller took the cancelled context |
| `GhostIsLeftover`, `EndedGoesOffline` | `leftover`: a login handler that outlived its tunnel, a read or delete that etcd lost |
| `LatestRecordedUnlessStale` | `staleDelete`: a record read before and deleted after a login; `unkept`: a PUT or keepalive that etcd lost |
| `ReplacedGoes` | a Kick that came before its handler was added |
| `IdentityKept` | `lost`: a handshake that was cut; `torn`: a process that ended without its client in the file, before its first save or between the truncation and the flush of one; a login is refused only for a record that a node could not read (`unread`) |
| `ListedIsSaved` | `lost`, and the moment between truncation and flush itself |
| `MuteOnlyByCut` | it names the exception: the tunnel ended before its `Client_New` was read |
| `KickedOnlyByRelogin` | `alarm`: dialed while the old tunnel was up; `twice`: two logins on one tunnel; `late`: a node that records a login after its tunnel has ended, over the record of the next one; another process (`other`) |
| `PanicOnlyBeforeList` | the first list of listens has not arrived |
| `Reconnects` | the Keeper waits for ever in a call (the orphan of Invoker) |
| `RemovedWasHandled` | `overlapped`: set while a Delete of the key was running |
| `AloneIsSafe`, `HandlerHasTaker`, `OpenIsTracked` | `met`, `timedOut`, `crossed`: requests overlapped, a wait timed out, a Delete crossed a Set, or the handler of a Transfer_Go between its two steps |
| `RequestEnds` | an open tunnel whose transport has left the cache, and a target that does not answer |
| `NameResolves`, `AimedAsChecked`, `KeepsNames` | `loose`: a lock that ended early, a PUT that was lost; a check that read a lock (`seen` is `None`); for `AimedAsChecked` also `unread`: a second read that failed, which leaves the listen without a target client |
| `ListenIsOpen`, `AddedIsOpened` | `missed`: the notice had no handler or no tunnel, and the list was asked for before; `dropped`: the same by a failed access to etcd, a list that could not be read or a client whose record is lost |
| `JoinedIsRouted` | between the stop of a `Copy` and the `onClose` of its ends the route still has them |
| `RouteDrains` | a relay that stopped before the node's two Copys |
| `AcceptedIsServed` | the listener could not dial (`unserved`), the target did not get the TargetOut or could not dial (`noTarget`), the target's tunnel was lost before the node had read its Transfer_Go (`targetLost`): the local connection then stays open and unserved |
| `SentArrives` | the session ends |

## 4. Fairness

Weak fairness stands for the Go scheduler: a goroutine that can take its next
step takes it some time. It is assumed of each goroutine on its own, so that one
cannot starve another. Clocks go on (`Tick`, the ends of leases). Nothing is
assumed of users, of the network (a session need not end, and need not stay), of
crashes, of a target that answers, or of new calls. In particular:

- Invoker: the goroutines of calls, receivers, handlers and dispatch loops; not
  `Close`, `ConnectionLost` or a new call.
- OnlineClients: handlers, watchers, hooks, and the lease of a dead node's record;
  not the heartbeat's expiry, which only a silent client causes.
- ClientConn: the Keeper, the heartbeat and the reads. The one strong fairness
  condition, on `DialOpened`, says that a process that keeps dialing reaches a node
  some time; a keepalive loop cannot promise more than that. Answers are not fair.
- TimedCache: the clock and the goroutines of timers and deletes.
- HttpTransport: the steps of requests that have begun, the lease, each `Delete` on
  its own, a failing round trip on a closed tunnel; not `Answered`.
- ListenDelivery: everything but new requests, restarts and lost connections;
  `AddedIsOpened` assumes that those end.
- Framing: every goroutine goes on; a session need not end, and `SentArrives` is about
  one that does not.
- TunnelRelay: the processes go on with what they have begun, a `net.Dial` ends
  one way or the other, a direction of a `Copy` whose source has ended returns, an
  `onClose` runs. A failed write is not fair: a direction may never have anything to
  write. One condition per relay stands for that of each of its steps: none can be taken
  twice, so that a relay has done all it could when none of them is enabled any more.

Allocation has no liveness property. A name is not used up by a crash because a
lock always has a lease (`TypeOK`), and `LeaseEnds` is enabled as long as it has.

## 5. What is proved

TLAPS checks the theorems below for every value of the constants; `AXIOM` and
`OMITTED` are not used. The assumptions are the `ASSUME`s of the modules, which TLC
evaluates in the runs: that the special values (`NoCall`, `NoTunnel`, `Nobody`,
`Locked`, `None`, `Owner`, ...) are none of the ordinary ones, that names of different
kinds differ, and that a lease is a positive number of ticks. Each of the eight
modules `...Proofs` has one inductive invariant (Allocation has a second small one,
`TokenInv`, for the signing key), which is the type invariant, the
properties that are inductive as they stand, and the strengthening of the others. It
stands at the end of the module it is about, so that TLC can check it, and every
theorem of the form `Spec => []P` follows from it. Two modules are different:
ListenProofs has two invariants, one for ListenDelivery and one for TunnelRelay, and the
invariant of Framing stands in FramingProofs, because it asks for sequences (what the
writers still owe the stream) among infinitely many.

**InvokerProofs.** `TunnelInvariant` (`Spec => []TunnelInv`), and from it
`TypeCorrect`, `ResponsesAreOwn`, `SendersHaveCalls` (which no run lists: a
receiver that sends has its call still waiting or gone), `OrphansOnlyByCancel`, and
`TunnelKeepsPromise` (`Spec => Promise!Spec`). `OwnResponse` is not inductive: that
a call never gets another's answer needs that a request is in at most one place
on its way. `TunnelInv` says so: `RequestInv` and `ResponseInv` place a request in
the request stream, the handler, the response stream or the receiver, without
duplicates; `LockInv` ties the lock to the one receiver that is sending; `MapInv`
ties the map of channels to the program counters; `ResultInv` ties the result to
both. For the streams, two lemmas say what `Append` and `Tail` do to a sequence
without duplicates. The refinement maps `call` and `result` to `status` and the
handler's state to `execution`; each step of Invoker is one of BidiCall or changes
neither.

**OnlineProofs.** `OnlineInvariant` (`Spec => []OnlineInv`), and from it
`TypeCorrect`, `RecordsAreAuthentic`, `GhostsAreLeftover`, `LatestStaysRecorded`,
`KicksOnlyReplaced` (no run lists it: `KeepsRegistry` says more), and `RegistryIsKept`
(`Spec => KeepsRegistry`, the refinement of SessionRegistry). The strengthening: a tunnel that is `deleting` and was not
overtaken finds its own record or none (`DeleteInv`), a handler before its PUT has
verified the token (`LoginInv`), nothing happens on a tunnel that is not yet
accepted (`BirthInv`, `LastInv`), and each event a node has to handle was caused by
a replacement (`WatchInv`). With the failures of etcd in the model, the history
`leftover` and `unkept` says what each of them leaves behind; the proofs hold for any
number of them and of logins, where the run has one at a time. In the refinement a PUT is a `Login` of a
session that was verified, because of `LoginInv`, or a `Lose`; a Kick hits a replaced
session because of `WatchInv`; every other end, a crash of a node included, is an `End` of
the tunnels it concerns.

**AllocationProofs.** `AllocationInvariant` (`Spec => []AllocationInv`), and from it
`TypeCorrect`, `NamesResolve`, `ListensAimAsChecked`, `TokensAreAccepted`, and
`NamesAreKept` (`Spec => KeepsNames`, the refinement of NameBook). That a token of
one node is good at every other needs `TokenInv`: the signing key in etcd, once
there, stays, and every node that has signed or verified has that one. The core is
`HolderInv`: who holds a name that is not `loose` has its lock. The lock keeps all
others out until the PUT, which is for good: no step writes a key with a record in
it, because `lock` creates keys only and a PUT needs the holder. `SeenInv` says that
a tunnel that was read stays what it was, and `AimedInv` that the second read of it
finds the same or fails.

The refinement needs the same: a PUT under a name that is not loose finds a lock there,
and so the book gives a name that led to nobody.

**CacheProofs.** `CacheInvariant`, and from it `TypeCorrect`, `ExpiriesAreDue`,
`LeasesHaveOneTimer`, `RemovedAreHandled`, and `LeasesAreKept` (`Spec => KeepsLeases`, the
refinement of LeasedMap). A timer, and the Delete that comes from it, carries a version
that its item has had; the one with the last version is due a lease after `SetExpire` made
that version (`TimerInv`), so that there is but one, and what it does when it expires is the
`Expire` of a lease that nothing has extended. What a Delete is
about to take out of the map was handled, or set after its deleteHandler
(`DeletingInv`). Keys, items, the length of a lease and the number of touches are
arbitrary, where the run has one key, two items and four ticks.

**ClientProofs.** `ClientInvariant`, and from it `TypeCorrect`, `IdentitiesAreKept`,
`ListedAreSaved`, `MutesAreCut`, `PanicsBeforeList`, `KickedByRelogin`. `IdentityInv`:
as long as no handshake was cut, the token, the file, the tunnels and every goroutine
that is still on its way have the same client, or one that comes from the tunnel
being dialed; a call has that identity unless a node has refused it for a record that
could not be read. `OneUpInv`: without an alarm one tunnel is up at a time, the one being
dialed or the default one, so that a login in time replaces the record of its own
tunnel only; the one that replaces another's is `late` (`KickInv`). `MuteInv` and `SavedInv` say who will still set the token and
who will still write the file. `CallInv` and `LinkInv` tie the goroutines to the tunnels
they act on. The proof is for any number of tunnels, restarts and TargetOuts.

**HttpProofs.** `HttpInvariant`, and from it `TypeCorrect`, `AloneAreSafe`,
`HandlersHaveTaker`, `OpenAreTracked`. Requests that are in progress together are in `met`
(`MetInv`); a transport in the cache is finished or its maker is at it (`EntryInv`), so
that a request which met nobody finds a finished one (`UseInv`). Without overlap and
timeout a tunnel is always taken by the request that asked for it (`SoloInv`), and
between its two halves a Delete has nothing left to close, if nothing crossed it
(`DeletingInv`). `FoundInv` is about the handler between its two steps: the transport
that it has found is still the one in the cache, unless a Delete has crossed it.

**ListenProofs.** `ListenInvariant`, and from it `TypeCorrect`, `ListensAreOpen`. Once the
client has asked for its list, a listen whose request has ended is open, or in a notice,
or its address is in the answer or among those being opened, or it was missed or dropped
(`DeliveredInv`).

The second half is about TunnelRelay: `RelayInvariant`, and from it `RelayTypeCorrect`,
`GoesFindListener`, `JoinedAreRouted`. `EndInv` says which ends a relay has at each step of
its building; `RouteInv` that the node copies for joined relays alone, that an `onClose` of
the node belongs to one that is joined or cut, and that a tunnel is in the route from its
dial until the relay is joined.

**FramingProofs.** `FramingInvariant`, and from it `TypeCorrect`, `RequestsStayWhole` (which
no run lists: what a reader has got is the beginning of what the writers wrote, request
by request), `RawStaysIntact`, and `TunnelKeepsChannels` (`Spec => KeepsChannels`, the
refinement of Channel, three times). The proofs are for any requests and raw bytes, any
base of two or more and any width in which the lengths fit. The argument:

- *A length survives.* `ConversionInverts`: `BytesToInt` of `IntToBytes` of n is n for every
  n below half of the range. The sign bit is why it is half: the code reads into an `int64`.
  `ReadFrame` adds the body: a stream that begins with a frame has the body after it, and
  goes on with what was behind the frame.
- *One writes at a time.* `WriterInv`: two requests that are being written are the same; on a
  data tunnel there is one request in all, and raw bytes follow it (`CopyInv`).
- *The stream goes on where the reader is.* `Layout(w)` splits all that the dialer has to
  write into frames, the last of which is followed by the raw bytes. `UpInv` says that what
  was copied, what is in the stream and what a goroutine still has to write (`Owed`) are
  together the rest of that from the first request that was not got. `DownInv` says the same
  of the other direction, where one frame, the ids, comes first. A session that ends
  forgets the end of a stream: `Owed` demands nothing any more, and what was lost is
  the new t.
- *The handshake keeps them apart.* `StageInv`: the acceptor reads the first byte through a
  buffer that takes with it whatever has arrived. Nothing else can have: the dialer waits
  for the ids before it writes.

A step of Framing is a `Write` of the first channel when a goroutine gets the lock, a `Take`
when the reader has a whole frame, a `Write` or a `Take` of the second or third when a byte
of a `Copy` goes in or out, and a stutter otherwise.

The conversion and the frames are about sequences of any length and need induction. The
library's theorems for it take an operator as a parameter, which the provers cannot
instantiate. `NatSetInduction` is induction for a *set* of numbers, from the well-foundedness
of `<`; `RecursionExists` and `RecursionStays` give from it that a function defined by
recursion up to a number has the values its equations say.

The proofs have one step per action in the main theorem, and a lemma for a step that
touches much. Only model-checked: liveness everywhere, which is out of the prover's
reach. Every invariant and every refinement that a run checks is proved.

## 6. Where the code departs from its own documents

One run states what the repository says, and TLC finds the counterexample:

- `online_kick`, `KickOnlyOtherConnections`. `node.go:276`: a client with the same id is
  kicked if its ConnectionId differs. The record that is read there is not used, and
  the watcher kicks the invoker of the previous record without comparing. A second
  login over one tunnel, which a new client does when `OnNewClient` and `OnConnected`
  both find the token, kicks that very tunnel: the client ends itself.

The others have the form of an exception in a property that holds (section 3):
take the exception away and TLC prints the behaviour. Those that a maintainer will
want to know of:

- `receiveResponse` (`invoke.go:277`) sends with the lock in hand. A caller that left by
  the cancelled context cannot take the lock to remove its channel: both wait for
  ever, and with them every other call of this invoker.
- `OnCloseClient` (`node.go:181`) deletes a record in a call after the one that compared
  it, and so the record of a login in between.
- A login handler (`node.go:289`) records a tunnel that has closed meanwhile; nobody
  removes that record, whose lease the node keeps alive.
- A Kick or a `ListenAdd` that arrives before `InitClient` has added the handlers
  (`client.go:211`) is dropped: two tunnels of a client stay, or a listen is not opened.
- The keepalive loop (`cli/client.go:160`) dials as soon as `connected` is unset, also when
  the old session is up; the login over the new one gets the process kicked.
- A handshake that is cut (`invoke.go:412`) leaves an empty `TerminalId`, and the next
  connection registers a new client; from then on `login` may save the id of one
  client with the token of another (`client.go:239`).
- A new client whose tunnel ends between `SetId` and `Client_New` has an id and never
  gets a token (`client.go:168`); `MuteOnlyByCut` shows that there is no other way.
- `SaveJsonSetting` truncates `client.json` before it writes it (`json.go`). A process that
  a Kick or a crash ends in between starts again as a new client; its names and
  listens stay with the old one.
- A login handler that is late in another way: the tunnel ended, the client has logged in
  over a new one, and then the PUT comes. Its watcher event kicks the new tunnel, and the
  process ends (`node.go:279-307`, `client.go:242`; `late` in ClientConn).
- A read of the client's record that fails (`node.go:243`), or a record whose PUT was lost
  (`etcd.go:268`), makes the node refuse a client with the right token, which then exits
  (`client.go:229`).
- A failed read of the listens (`etcd.go:143`, `node.go:449`) is answered as an empty list,
  and the client does not ask again.
- A data tunnel that takes its transport just while the cache deletes it
  (`node.go:481-484`) stays open, and no timer knows it (`crossed`).
- A target tunnel that is lost before the node has read its Transfer_Go leaves the
  accepted connection open at the listening client: nobody tells it (`node.go:139`,
  `client.go:73`).
- The keepalive of a record's lease is not watched (`etcd.go:93`). When etcd drops it the
  client is up and not recorded, and its next login finds no previous record, so that
  the older tunnel is not kicked.
- A delete that etcd loses (`node.go:183`) leaves the record of an ended tunnel, under a
  lease that the node keeps alive.
- A data tunnel whose session ends before the node has joined it to the other
  (`node.go:139`) stays in the route until the other `Copy` stops, and for good if the
  relay is never joined (`RouteDrains`).
- `GetTunnel` (`etcd.go:282`) reads the empty value of a lock as a tunnel with empty fields
  and an empty AuthCode, and the listen is stored without a target client.
- `AddListen` at an address that is open keeps the first listener, though the second
  has replaced its record (`client.go:54`); `ListenIsOpen` is about the address only.

One divergence has no run. `README.md:5` promises an address that is unique in the
network. A host outside the node's domain becomes the address of a listen without
a lock or a lookup, and the later of two listens overwrites the record of the
earlier (`node.go:377`). Allocation models both kinds of host; its properties are about
the names that a node gives.

## 7. Abstractions, and what is not modelled

- *Payloads.* A request is its id, a name its model value, a token the client it
  belongs to. The bytes of a relay are left out: `Copy` is when it stops.
- *Frames.* In all modules but Framing a tunnel carries whole messages in order, or
  ends. That the frames of `utils/io.go` over a reliable stream give that is what
  `KeepsChannels` and `SentArrives` show. Framing's bytes have `Base` values (256) and its
  lengths `Width` of them (8): large enough for a length with more than one byte.
- *Closing.* In OnlineClients and Invoker a close is the cancelled context and, a
  step later, `onClose`; so it is in TunnelRelay, where the step of `onClose` closes the
  session and leaves the route. In HttpTransport closing a tunnel, its session included,
  is one step, and what `OnCloseClient` does for it a later one. In ClientConn the invoker
  of an ended session is cancelled when its reader finds that out (`ReadError`).
- *The settings file* can be created and written: `os.Create` does not fail. A `SetId` of a
  data tunnel does not fail either, but by an end of the tunnel.
- *Panics.* ClientConn has the two of `OnConnected` and the heartbeat, TunnelRelay that of a
  refused dial, HttpTransport that of an unfinished transport.
- *etcd* is one consistent store; each call to it is atomic. In Allocation a PUT may
  be lost and the outcome of a transaction unknown; in OnlineClients a PUT, a read, a
  delete or the keepalive of a record may be lost. A `PutClient` that is lost changes
  nothing that Allocation's properties are about.
- *Repeated listens.* In Allocation each request is of another client; a client that
  adds an address again is in ListenDelivery.
- *UDP and SOCKS5* listens differ from TCP in how the local connection is made; the
  tunnels under them are the same. A port that another program has is left out.
- *Bounds.* `Touches`, `Horizon` (TimedCache), `MaxTargets`, `MaxRestarts`, `FewErrors`,
  `OneFromOutside` (ClientConn), `FewFaults` (OnlineClients), `SecondIsQuiet` (TunnelRelay),
  `AtOnce` (HttpTransport), `Base`, `Width` (Framing), `Logins` (OnlineClients: two on a
  tunnel of a client that a node has created, one on any other; no proof uses it), and the
  sizes of the sets.

Not modelled: the HTTP API's decoding and the JWT library (no state of their own;
the handlers that change state, and `verifyToken`, are in Allocation and
ListenDelivery), `httpHandler_DomainList`, which only reads, and
`httpHandler_ListenDel`, whose body is empty; `rpc/models.go` and the constants (types);
`log.go`, `pem.go`, `http.go`, `strs.go`, `map.go`, `response.go`, `ver.go` (formatting and
files); the listeners and certificates of the server (I/O); the two programs (they
start one object). The context of the command tunnel that `server.go:138` fetches is
not used by the code after it: data tunnels are bound to the server alone, and are so
in the modules. Methods without a caller (`RemoveUniHandler`, `RemoveRpcHandler`,
`SetValue`, `UdpListen`) and records nobody reads (`RegisterNode`) are left out too.

## 8. Plan

The order followed is that of importance: the tunnel that everything goes over
(Invoker, BidiCall), the registry (OnlineClients), the client (ClientConn), the
cache (TimedCache), the proxy on top of it (HttpTransport), names (Allocation,
NameBook), listens (ListenDelivery), relays (TunnelRelay), and the bytes under all of it
(Framing). What is left:

1. *More of the system.* Command tunnels in TunnelRelay: the data tunnels are bound to the
   server's context and outlive the client's tunnel (`server.go` 138-141). The other ways
   in which `client.json` can fail.
2. *Abstract specifications.* What a client process promises its nodes, and a relay the two
   who talk over it, implemented by ClientConn and TunnelRelay; LeasedMap as the map that
   HttpTransport uses.
3. *Proofs.* Those of the abstract specifications of point 2, from the invariants that are
   proved already.
