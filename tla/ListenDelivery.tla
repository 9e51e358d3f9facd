--------------------------- MODULE ListenDelivery ---------------------------
(***************************************************************************)
(* How a TCP listen reaches the client that has to open it.  The node puts *)
(* the listen into etcd and then tells the client, if it is online here    *)
(* (httpHandler_ListenAdd); the client records itself as online and then   *)
(* asks for the list of its listens, once in a process (OnConnected).      *)
(* Every access to etcd may fail, which nobody notices.  There is one      *)
(* client; the tunnels under it are those of ClientConn.                   *)
(***************************************************************************)
EXTENDS Naturals

CONSTANTS Adds,   \* the requests for a listen of the client
          Told,   \* those that name the client, and arrive at its node
          Addrs,  \* the addresses they may ask for
          None

ASSUME DeliveryAssumption == Told \subseteq Adds /\ None \notin Adds \cup Addrs

VARIABLES
  add,       \* add[a]: the point request a has reached
  addr,      \* addr[a]: the address it asks for
  record,    \* record[d]: the listen that etcd has for address d
  reachable, \* the online record of the client names its command tunnel
  notices,   \* the ListenAdd requests on that tunnel
  at,        \* the point the client's ConnectTo has reached
  main,      \* the main thread: its first ConnectTo, and the handlers after it
  known,     \* the client has an identity, which it keeps
  started,   \* listenStarted
  answer,    \* the answer of TransferList on its way
  opening,   \* the AddListen calls under way
  opened,    \* opened[d]: the listen the client has opened d for
  unrecorded, \* history: etcd has lost that record, though the tunnel is there
  unstored,  \* history: the listens whose PUT was lost
  missed,    \* history: the listens the client has lost the chance to hear of
  dropped    \* history: those that a failed read or a lost record kept from it

nodeVars == <<add, addr, record, unstored>>
linkVars == <<reachable, unrecorded, notices>>
procVars == <<main, started, answer, opening, opened>>
lossVars == <<missed, dropped>>
vars == <<nodeVars, linkVars, procVars, at, known, lossVars>>

TypeOK ==
  /\ add \in [Adds -> {"idle", "put", "ended"}]
  /\ addr \in [Adds -> Addrs \cup {None}]
  /\ record \in [Addrs -> Adds \cup {None}]
  /\ reachable \in BOOLEAN /\ unrecorded \in BOOLEAN
  /\ notices \subseteq Adds /\ (notices # {} => at \notin {"away", "dialed"})
  /\ at \in {"away", "dialed", "online", "asked", "up"}
  /\ main \in {"connecting", "returned", "ready"}
  /\ known \in BOOLEAN /\ started \in BOOLEAN
  /\ answer \subseteq Adds /\ opening \subseteq Adds
  /\ opened \in [Addrs -> Adds \cup {None}]
  /\ unstored \subseteq Adds /\ missed \subseteq Adds /\ dropped \subseteq Adds

Init ==
  /\ add = [a \in Adds |-> "idle"] /\ addr = [a \in Adds |-> None]
  /\ record = [d \in Addrs |-> None]
  /\ reachable = FALSE /\ unrecorded = FALSE /\ notices = {}
  /\ at = "away" /\ main = "connecting" /\ known \in BOOLEAN
  /\ started = FALSE /\ answer = {} /\ opening = {}
  /\ opened = [d \in Addrs |-> None]
  /\ unstored = {} /\ missed = {} /\ dropped = {}

Got == answer \cup opening \cup {opened[d] : d \in Addrs}

\* The listens of L, which do not arrive, that the client has not got otherwise nor
\* will get by its list: it has that already, or they are not in it.
Lost(L, listed) == {a \in L : listed \/ a \in unstored} \ Got

Miss(L, listed) == missed' = missed \cup Lost(L, listed) /\ UNCHANGED dropped
Drop(L, listed) == dropped' = dropped \cup Lost(L, listed) /\ UNCHANGED missed

-----------------------------------------------------------------------------
(* The node.                                                               *)

\* AddListenWithTunnel puts the listen under its client and address, or the PUT is
\* lost.
PutListen(a) ==
  /\ known /\ add[a] = "idle"
  /\ add' = [add EXCEPT ![a] = "put"]
  /\ \E d \in Addrs :
       /\ addr' = [addr EXCEPT ![a] = d]
       /\ \/ record' = [record EXCEPT ![d] = a] /\ UNCHANGED unstored
          \/ unstored' = unstored \cup {a} /\ UNCHANGED record
  /\ UNCHANGED <<linkVars, procVars, at, known, lossVars>>

\* Then the client is told, if it is named and GetInvoker finds its tunnel in this
\* node: by the online record, which may be lost, or not be read.
Tell(a) ==
  /\ add[a] = "put"
  /\ add' = [add EXCEPT ![a] = "ended"]
  /\ \/ a \in Told /\ reachable /\ notices' = notices \cup {a} /\ UNCHANGED lossVars
     \/ a \in Told /\ ~reachable /\ ~unrecorded /\ Miss({a}, started) /\ UNCHANGED notices
     \/ a \in Told /\ Drop({a}, started \/ at = "asked") /\ UNCHANGED notices
     \/ a \notin Told /\ Miss({a}, started \/ at = "asked") /\ UNCHANGED notices
  /\ UNCHANGED <<addr, record, unstored, reachable, unrecorded, procVars, at, known>>

\* The record goes while the tunnel is up: its keepalive is lost, or OnCloseClient of
\* an older tunnel deletes it, or a late login of that one replaces it.
RecordLost ==
  /\ reachable
  /\ reachable' = FALSE /\ unrecorded' = TRUE
  /\ UNCHANGED <<nodeVars, notices, procVars, at, known, lossVars>>

-----------------------------------------------------------------------------
(* The client.                                                             *)

Connect ==
  /\ at = "away"
  /\ at' = "dialed"
  /\ UNCHANGED <<nodeVars, linkVars, procVars, known, lossVars>>

ConnectFails ==
  /\ at = "away" /\ main = "connecting"
  /\ main' = "returned"
  /\ UNCHANGED <<nodeVars, linkVars, started, answer, opening, opened, at, known, lossVars>>

\* ConnectTo returns, and in the main thread InitClient goes on.
Returned == main' = IF main = "connecting" THEN "returned" ELSE main

\* A slip: only the login of OnNewClient records the client.
Recorded_New == ~known

Recorded == TRUE

\* The login of a client records it as online, or its PUT is lost.  A client that is
\* new has its identity by then, but not the call that would ask for the list.
Login ==
  /\ at = "dialed"
  /\ \/ reachable' = Recorded /\ unrecorded' = FALSE
     \/ reachable' = FALSE /\ unrecorded' = TRUE
  /\ IF known THEN at' = "online" /\ UNCHANGED <<main, known>>
              ELSE at' = "up" /\ Returned /\ known' = TRUE
  /\ UNCHANGED <<nodeVars, notices, started, answer, opening, opened, lossVars>>

\* The listens that etcd has under the client.
GetTransferList == {record[d] : d \in Addrs} \ {None}

\* A read of them that fails is answered as a success, with none.
TransferList ==
  /\ at = "online" /\ ~started
  /\ at' = "asked"
  /\ \/ answer' = GetTransferList /\ UNCHANGED lossVars
     \/ answer' = {} /\ Drop({a \in Adds : add[a] = "ended"} \ notices, TRUE)
  /\ UNCHANGED <<nodeVars, linkVars, main, started, opening, opened, known>>

Listed ==
  /\ at = "asked"
  /\ at' = "up"
  /\ Returned
  /\ started' = TRUE
  /\ opening' = opening \cup answer
  /\ answer' = {}
  /\ UNCHANGED <<nodeVars, linkVars, opened, known, lossVars>>

\* A client that has had its list does not ask again.
SkipList ==
  /\ at = "online" /\ started
  /\ at' = "up"
  /\ Returned
  /\ UNCHANGED <<nodeVars, linkVars, started, answer, opening, opened, known, lossVars>>

\* InitClient adds the handlers when its ConnectTo has returned.
AddUniHandler ==
  /\ main = "returned"
  /\ main' = "ready"
  /\ UNCHANGED <<nodeVars, linkVars, started, answer, opening, opened, at, known, lossVars>>

\* Without a handler the notice is dropped.
onInvoker_ListenAdd(a) ==
  /\ a \in notices
  /\ notices' = notices \ {a}
  /\ IF main = "ready" THEN opening' = opening \cup {a} /\ UNCHANGED lossVars
                       ELSE Miss({a}, started \/ at = "asked") /\ UNCHANGED opening
  /\ UNCHANGED <<nodeVars, reachable, unrecorded, main, started, answer, opened, at, known>>

\* A slip: the client opens no second port.
PortIsFree_One(d) == \A e \in Addrs : opened[e] = None

\* The port of an address can be opened once.
PortIsFree(d) == opened[d] = None

AddListen(a) ==
  /\ a \in opening
  /\ opening' = opening \ {a}
  /\ opened' = IF PortIsFree(addr[a]) THEN [opened EXCEPT ![addr[a]] = a] ELSE opened
  /\ UNCHANGED <<nodeVars, linkVars, main, started, answer, at, known, lossVars>>

\* The process ends, by the panic on an answer that did not come or otherwise, and
\* is started again; it has its identity from client.json, and will ask for its list.
Restart ==
  /\ at' = "away" /\ main' = "connecting"
  /\ started' = FALSE /\ answer' = {} /\ opening' = {}
  /\ opened' = [d \in Addrs |-> None]
  /\ reachable' = FALSE /\ unrecorded' = FALSE /\ notices' = {}
  /\ missed' = {a \in unstored : add[a] = "ended"} /\ dropped' = {}
  /\ UNCHANGED <<nodeVars, known>>

\* Without its list a client that loses the tunnel in OnConnected does not go on:
\* that is a Restart.
ConnectionLost ==
  /\ at \in {"dialed", "online", "up"}
  /\ at \in {"dialed", "online"} => started
  /\ at' = "away"
  /\ reachable' = FALSE /\ unrecorded' = FALSE /\ notices' = {}
  /\ Miss(notices, started)
  /\ UNCHANGED <<nodeVars, procVars, known>>

Next ==
  \/ \E a \in Adds : PutListen(a) \/ Tell(a) \/ onInvoker_ListenAdd(a) \/ AddListen(a)
  \/ Connect \/ ConnectFails \/ Login \/ TransferList \/ Listed \/ SkipList
  \/ AddUniHandler \/ Restart \/ ConnectionLost \/ RecordLost

Spec == Init /\ [][Next]_vars

\* The node ends its requests, the client connects, takes its notices and opens
\* its ports: each of them is a thread that only waits for its turn.
Fairness ==
  /\ \A a \in Adds : WF_vars(Tell(a)) /\ WF_vars(onInvoker_ListenAdd(a)) /\ WF_vars(AddListen(a))
  /\ WF_vars(Connect) /\ WF_vars(Login) /\ WF_vars(TransferList) /\ WF_vars(Listed)
  /\ WF_vars(SkipList) /\ WF_vars(AddUniHandler)

FairSpec == Spec /\ Fairness

-----------------------------------------------------------------------------
(* Properties.                                                             *)

IsOpen(a) == \E d \in Addrs : addr[a] = d /\ opened[d] # None

Settled == at = "up" /\ started /\ opening = {} /\ notices = {}

\* A client that has had its list and has nothing more to open listens at every
\* address that a finished request has put, but for what it missed and for what a
\* failed access to etcd kept from it: while it is asking, either the list has the
\* listen or the notice comes (node.go:392-412, client.go:167-182).
ListenIsOpen ==
  Settled => \A a \in Adds :
    add[a] = "ended" /\ a \notin missed \cup dropped => IsOpen(a)

\* Once the client's tunnel and process stay up, every listen that was put is
\* opened, or was missed or dropped, or waits for a new client to connect once more
\* and ask for its list (client.go:167-182, cli/client.go:139-184).
AddedIsOpened ==
  <>[][~Restart /\ ~ConnectionLost]_vars =>
    \A a \in Adds : (add[a] = "ended") ~> (IsOpen(a) \/ a \in missed \cup dropped \/ ~started)

-----------------------------------------------------------------------------
(* The inductive invariant (ListenProofs).                                 *)

\* A request that has put its listen has an address, under which etcd has its
\* listen or another one, unless the PUT was lost; only such listens are anywhere.
RecordInv ==
  /\ \A a \in Adds : add[a] # "idle" =>
       addr[a] \in Addrs /\ (record[addr[a]] # None \/ a \in unstored)
  /\ \A d \in Addrs : record[d] # None => add[record[d]] # "idle" /\ addr[record[d]] = d
  /\ \A a \in notices \cup answer \cup opening : add[a] # "idle"
  /\ \A d \in Addrs : opened[d] # None => add[opened[d]] # "idle" /\ addr[opened[d]] = d

ProcInv ==
  /\ at \in {"online", "asked"} => reachable \/ unrecorded
  /\ reachable => at \notin {"away", "dialed"}
  /\ at = "asked" => ~started
  /\ answer # {} => at = "asked"

\* Listen a is open, or on its way.
IsCovered(a) ==
  IsOpen(a) \/ a \in notices \/ \E b \in answer \cup opening : addr[b] = addr[a]

DeliveredInv ==
  \A a \in Adds :
    add[a] = "ended" /\ (started \/ at = "asked" \/ a \in unstored) =>
      a \in missed \cup dropped \/ IsCovered(a)

ListenInv == TypeOK /\ RecordInv /\ ProcInv /\ DeliveredInv
=============================================================================
