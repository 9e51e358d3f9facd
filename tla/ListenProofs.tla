---------------------------- MODULE ListenProofs ----------------------------
(***************************************************************************)
(* Proofs about the listens of TCP.  ListenDelivery, for any number of     *)
(* requests and addresses: ListenInv is inductive, and a settled client    *)
(* has opened its listens.  TunnelRelay, for any number of connections:    *)
(* RelayInv is inductive, and what the node's route keeps follows from it. *)
(***************************************************************************)
EXTENDS ListenDelivery, TunnelRelay, TLAPS

LEMMA InitListenInv == Init => ListenInv
  <1> SUFFICES ASSUME Init PROVE ListenInv
    OBVIOUS
  <1> USE DeliveryAssumption DEF Init
  <1>1. TypeOK
    BY DEF TypeOK
  <1>2. RecordInv /\ ProcInv /\ DeliveredInv
    BY DEF RecordInv, ProcInv, DeliveredInv
  <1> QED
    BY <1>1, <1>2 DEF ListenInv

\* What counts as missed was not on its way in the answer or an AddListen, nor
\* opened; what was is covered.
LEMMA Present ==
  ASSUME TypeOK, RecordInv, NEW a \in Adds,
         a \in Got
  PROVE  IsOpen(a) \/ a \in answer \cup opening
  <1> USE DeliveryAssumption DEF TypeOK, RecordInv, IsOpen, Got
  <1>1. CASE a \in answer \cup opening
    BY <1>1
  <1>2. CASE \E d \in Addrs : a = opened[d]
    BY <1>2
  <1> QED
    BY <1>1, <1>2

LEMMA NextListenInv == ListenInv /\ [Next]_vars => ListenInv'
  <1> SUFFICES ASSUME ListenInv, [Next]_vars PROVE ListenInv'
    OBVIOUS
  <1> USE DeliveryAssumption DEF ListenInv
  <1>1. ASSUME NEW a \in Adds, PutListen(a) PROVE ListenInv'
    <2> USE <1>1 DEF PutListen, linkVars, procVars
    <2>0. PICK d \in Addrs :
            /\ addr' = [addr EXCEPT ![a] = d]
            /\ \/ record' = [record EXCEPT ![d] = a] /\ UNCHANGED unstored
               \/ unstored' = unstored \cup {a} /\ UNCHANGED record
      OBVIOUS
    <2>1. TypeOK' /\ ProcInv'
      BY <2>0 DEF TypeOK, ProcInv, lossVars
    <2>2. RecordInv'
      BY <2>0 DEF RecordInv, TypeOK
    <2>3. DeliveredInv'
      <3> SUFFICES ASSUME NEW b \in Adds, add[b] = "ended", b # a,
                          started \/ at = "asked" \/ b \in unstored
                   PROVE  b \in missed \cup dropped \/ IsCovered(b)'
        BY <2>0 DEF DeliveredInv, TypeOK, lossVars
      <3>1. addr'[b] = addr[b] /\ \A c \in answer \cup opening : addr'[c] = addr[c]
        BY <2>0 DEF TypeOK, RecordInv
      <3> QED
        BY <3>1 DEF DeliveredInv, IsCovered, IsOpen
    <2> QED
      BY <2>1, <2>2, <2>3
  <1>2. ASSUME NEW a \in Adds, Tell(a) PROVE ListenInv'
    <2> USE <1>2 DEF Tell, procVars
    <2>0. missed \subseteq missed' /\ dropped \subseteq dropped'
      BY DEF Miss, Drop, lossVars
    <2>1. TypeOK' /\ ProcInv'
      <3>1. /\ missed' \subseteq missed \cup {a} /\ dropped' \subseteq dropped \cup {a}
            /\ notices' = notices \/ (reachable /\ notices' = notices \cup {a})
        BY DEF Miss, Drop, Lost, lossVars
      <3>2. reachable => at \notin {"away", "dialed"}
        BY DEF ProcInv
      <3> QED
        BY <3>1, <3>2 DEF TypeOK, ProcInv
    <2>2. RecordInv'
      BY DEF RecordInv, TypeOK
    <2>3. ASSUME started \/ at = "asked" \/ a \in unstored
          PROVE  a \in missed' \cup dropped' \/ IsCovered(a)'
      <3>1. CASE a \in notices'
        BY <3>1 DEF IsCovered
      <3>2. CASE a \in missed' \cup dropped'
        BY <3>2
      <3>3. CASE a \in Got
        BY <3>3, Present DEF IsCovered, IsOpen
      <3> QED
        BY <2>3, <3>1, <3>2, <3>3 DEF Miss, Drop, Lost, ProcInv
    <2>4. DeliveredInv'
      BY <2>0, <2>3 DEF DeliveredInv, IsCovered, IsOpen, TypeOK
    <2> QED
      BY <2>1, <2>2, <2>4
  <1>3. ASSUME NEW a \in Adds, onInvoker_ListenAdd(a) PROVE ListenInv'
    <2> USE <1>3 DEF onInvoker_ListenAdd, nodeVars
    <2>0. missed \subseteq missed' /\ dropped \subseteq dropped'
      BY DEF Miss, Drop, lossVars
    <2>1. TypeOK' /\ ProcInv'
      BY <2>0 DEF TypeOK, ProcInv, Miss, Drop, Lost, lossVars
    <2>2. RecordInv'
      BY DEF RecordInv, TypeOK
    <2>3. ASSUME started \/ at = "asked" \/ a \in unstored
          PROVE  a \in missed' \cup dropped' \/ IsCovered(a)'
      <3>1. CASE a \in opening'
        BY <3>1 DEF IsCovered
      <3>2. CASE a \in missed' \cup dropped'
        BY <3>2
      <3>3. CASE a \in Got
        BY <3>3, Present DEF IsCovered, IsOpen
      <3> QED
        BY <2>3, <3>1, <3>2, <3>3 DEF Miss, Lost
    <2>4. DeliveredInv'
      BY <2>0, <2>3 DEF DeliveredInv, IsCovered, IsOpen
    <2> QED
      BY <2>1, <2>2, <2>4
  <1>4. ASSUME NEW a \in Adds, AddListen(a) PROVE ListenInv'
    <2> USE <1>4 DEF AddListen, nodeVars, linkVars
    <2>0. addr[a] \in Addrs /\ opened'[addr[a]] # None /\ opened' \in [Addrs -> Adds \cup {None}]
          /\ \A d \in Addrs : opened[d] # None => opened'[d] = opened[d]
      BY DEF RecordInv, TypeOK, PortIsFree
    <2>1. TypeOK' /\ ProcInv'
      BY <2>0 DEF TypeOK, ProcInv, lossVars
    <2>2. RecordInv'
      BY <2>0 DEF RecordInv, TypeOK, PortIsFree
    <2>3. DeliveredInv'
      <3> SUFFICES ASSUME NEW b \in Adds, add[b] = "ended", b \notin missed \cup dropped,
                          started \/ at = "asked" \/ b \in unstored
                   PROVE  IsCovered(b)'
        BY DEF DeliveredInv, lossVars
      <3>1. IsCovered(b)
        BY DEF DeliveredInv
      <3>2. CASE addr[b] = addr[a]
        BY <2>0, <3>2 DEF IsCovered, IsOpen
      <3>3. CASE addr[b] # addr[a]
        BY <2>0, <3>1, <3>3 DEF IsCovered, IsOpen
      <3> QED
        BY <3>2, <3>3
    <2> QED
      BY <2>1, <2>2, <2>3
  <1>5. CASE TransferList
    <2> USE <1>5 DEF TransferList, GetTransferList, nodeVars, linkVars
    <2>0. /\ answer = {} /\ missed \subseteq missed' /\ dropped \subseteq dropped'
          /\ answer' \subseteq {record[d] : d \in Addrs} \ {None}
      BY DEF Drop, lossVars, ProcInv
    <2>1. TypeOK' /\ ProcInv'
      BY <2>0 DEF TypeOK, ProcInv, Drop, Lost, lossVars
    <2>2. RecordInv'
      BY <2>0 DEF RecordInv, TypeOK
    <2>3. DeliveredInv'
      <3> SUFFICES ASSUME NEW a \in Adds, add[a] = "ended"
                   PROVE  a \in missed' \cup dropped' \/ IsCovered(a)'
        BY DEF DeliveredInv
      <3>1. CASE a \in unstored
        BY <2>0, <3>1 DEF DeliveredInv, IsCovered, IsOpen
      <3>2. CASE a \notin unstored /\ answer' = GetTransferList
        <4>1. addr[a] \in Addrs /\ record[addr[a]] \in answer'
          BY <3>2 DEF RecordInv
        <4>2. addr[record[addr[a]]] = addr[a]
          BY <4>1 DEF RecordInv
        <4> QED
          BY <4>1, <4>2 DEF IsCovered
      <3>3. CASE a \notin unstored /\ Drop({b \in Adds : add[b] = "ended"} \ notices, TRUE)
        <4>1. a \in dropped' \/ a \in notices \/ a \in Got
          BY <3>3 DEF Drop, Lost
        <4>2. CASE a \in Got
          BY <4>2, <2>0, Present DEF IsCovered, IsOpen
        <4> QED
          BY <4>1, <4>2 DEF IsCovered
      <3> QED
        BY <3>1, <3>2, <3>3
    <2> QED
      BY <2>1, <2>2, <2>3
  <1>6. CASE Listed
    <2> USE <1>6 DEF Listed, nodeVars, linkVars, lossVars, Returned
    <2>1. TypeOK' /\ ProcInv'
      BY DEF TypeOK, ProcInv
    <2>2. RecordInv' /\ DeliveredInv'
      BY DEF RecordInv, DeliveredInv, IsCovered, IsOpen
    <2> QED
      BY <2>1, <2>2
  <1>7. CASE Restart
    BY <1>7 DEF Restart, nodeVars, TypeOK, ProcInv, RecordInv, DeliveredInv
  <1>8. CASE ConnectionLost
    <2> USE <1>8 DEF ConnectionLost, nodeVars, procVars
    <2>0. missed \subseteq missed' /\ dropped \subseteq dropped'
      BY DEF Miss, Drop, lossVars
    <2>1. TypeOK' /\ ProcInv'
      BY <2>0 DEF TypeOK, ProcInv, Miss, Drop, Lost, lossVars
    <2>2. RecordInv'
      BY DEF RecordInv
    <2>3. ASSUME NEW a \in notices, started \/ a \in unstored PROVE a \in missed' \/ IsCovered(a)'
      <3>1. a \in Adds
        BY DEF TypeOK
      <3>2. CASE a \in Got
        BY <3>1, <3>2, Present DEF IsCovered, IsOpen
      <3> QED
        BY <2>3, <3>2 DEF Miss, Lost
    <2>4. DeliveredInv'
      BY <2>0, <2>3 DEF DeliveredInv, IsCovered, IsOpen
    <2> QED
      BY <2>1, <2>2, <2>4
  <1>9. CASE Login
    BY <1>9 DEF Login, Recorded, Returned, nodeVars, lossVars, TypeOK, ProcInv, RecordInv, DeliveredInv,
       IsCovered, IsOpen
  <1>10. CASE Connect \/ ConnectFails \/ SkipList \/ AddUniHandler \/ RecordLost \/ UNCHANGED vars
    <2>1. /\ UNCHANGED <<nodeVars, notices, answer, opening, opened, known, lossVars, started>>
          /\ at' = "asked" <=> at = "asked"
      BY <1>10 DEF Connect, ConnectFails, SkipList, AddUniHandler, RecordLost, vars, linkVars, procVars
    <2>2. TypeOK'
      BY <1>10 DEF Connect, ConnectFails, SkipList, AddUniHandler, RecordLost, vars, Returned,
         nodeVars, linkVars, procVars, lossVars, TypeOK
    <2>3. RecordInv' /\ ProcInv'
      <3>1. /\ reachable' => at' \notin {"away", "dialed"}
            /\ at' \in {"online", "asked"} => reachable' \/ unrecorded'
        BY <1>10 DEF Connect, ConnectFails, SkipList, AddUniHandler, RecordLost, vars, linkVars, ProcInv
      <3> QED
        BY <2>1, <3>1 DEF nodeVars, RecordInv, ProcInv
    <2>4. DeliveredInv'
      BY <2>1 DEF nodeVars, lossVars, DeliveredInv, IsCovered, IsOpen
    <2> QED
      BY <2>2, <2>3, <2>4
  <1> QED
    BY <1>1, <1>2, <1>3, <1>4, <1>5, <1>6, <1>7, <1>8, <1>9, <1>10 DEF Next

-----------------------------------------------------------------------------
\* Spec keeps ListenInv: the strengthening the theorems below rest on.
THEOREM ListenInvariant == Spec => []ListenInv
  BY InitListenInv, NextListenInv, PTL DEF Spec

\* The variables keep their types: a tunnel that is gone carries no notices
\* (node.go:392-412).
THEOREM TypeCorrect == Spec => []TypeOK
  <1>1. ListenInv => TypeOK
    BY DEF ListenInv
  <1> QED
    BY <1>1, ListenInvariant, PTL

\* A settled client listens at every address that a finished request has put, but
\* for what it missed and what a failed access to etcd kept from it
\* (node.go:392-412, client.go:167-182).
THEOREM ListensAreOpen == Spec => []ListenIsOpen
  <1>1. ListenInv => ListenIsOpen
    BY DEF ListenInv, DeliveredInv, ProcInv, ListenIsOpen, Settled, IsCovered
  <1> QED
    BY <1>1, ListenInvariant, PTL

-----------------------------------------------------------------------------
(* The relays of the connections that a listen accepts.                    *)

EndType == [Conns -> [Ends -> {"none", "open", "closed"}]]
EndsOpened == \A y \in Conns, e \in Ends : end[y][e] # "none" => end'[y][e] # "none"
EndsClosed == \A y \in Conns, e \in Tunnels :
                end[y][e] = "closed" /\ built[y] = "paired" => end'[y][e] = "closed"
EndsStay == end' \in EndType /\ EndsOpened /\ EndsClosed

LEMMA ClosedEnds ==
  ASSUME end \in EndType, NEW x \in Conns, NEW E, end' = Closed(x, E)
  PROVE  /\ EndsStay
         /\ \A e \in Ends : e \in E /\ end[x][e] # "none" => end'[x][e] = "closed"
  <1>1. /\ end' \in EndType
        /\ \A e \in Ends : e \in E /\ end[x][e] # "none" => end'[x][e] = "closed"
    BY DEF EndType, Closed
  <1>2. \A y \in Conns, e \in Ends : /\ end[y][e] # "none" => end'[y][e] # "none"
                                     /\ end[y][e] = "closed" => end'[y][e] = "closed"
    BY DEF EndType, Closed
  <1>3. EndsOpened
    BY <1>2 DEF EndsOpened
  <1>4. EndsClosed
    BY <1>2 DEF EndsClosed, Ends
  <1> QED
    BY <1>1, <1>3, <1>4 DEF EndsStay

LEMMA OpenedEnds ==
  ASSUME end \in EndType, NEW x \in Conns, NEW e \in Ends, end' = Opened(x, e),
         built[x] # "paired" \/ e = "remote"
  PROVE  EndsStay /\ end'[x][e] = "open"
  <1>1. end' \in EndType
    BY DEF EndType, Opened
  <1>2. /\ end'[x][e] = "open"
        /\ \A y \in Conns, f \in Ends : y # x \/ f # e => end'[y][f] = end[y][f]
    BY DEF EndType, Opened
  <1>3. EndsOpened
    BY <1>2 DEF EndsOpened
  <1>4. EndsClosed
    BY <1>2 DEF EndsClosed, Ends, Tunnels
  <1> QED
    BY <1>1, <1>2, <1>3, <1>4 DEF EndsStay

LEMMA SameEnds ==
  ASSUME end \in EndType, end' = end
  PROVE  EndsStay
  BY DEF EndsStay, EndsOpened, EndsClosed

LEMMA InitRelayInv == RelayInit => RelayInv
  BY DEF RelayInit, RelayInv, RelayTypeOK, EndInv, RouteInv, JoinedIsRouted

\* A step leaves the tunnels of the relay y as they are in the node.
Untouched(y) ==
  /\ built'[y] = built[y]
  /\ copying'[y] \cap NodeCopy = copying[y] \cap NodeCopy
  /\ \A e \in Tunnels : /\ <<y, e>> \in route' <=> <<y, e>> \in route
                        /\ <<y, e>> \in hooks' <=> <<y, e>> \in hooks

\* What RelayInv says of one relay.
EndsOf(x) ==
  /\ built[x] # "idle" => end[x]["local"] # "none"
  /\ built[x] \notin {"idle", "accepted", "unserved"} => end[x]["listen"] # "none"
  /\ built[x] \in {"dialedOut", "going", "paired"} => end[x]["target"] # "none"

RouteOf(x) ==
  /\ copying[x] \cap NodeCopy # {} => built[x] = "paired"
  /\ \A e \in Tunnels : <<x, e>> \in hooks => built[x] \in {"paired", "cut"}
  /\ built[x] \in {"dialed", "listenIn", "targetOut", "dialedOut", "going"} =>
       <<x, "listen">> \in route
  /\ built[x] \in {"dialedOut", "going"} => <<x, "target">> \in route

JoinOf(x) ==
  \A e \in Tunnels : built[x] = "paired" =>
    IF NodeCopy \subseteq copying[x]
      THEN <<x, e>> \in route \ hooks
      ELSE <<x, e>> \in hooks \/ (<<x, e>> \notin route /\ end[x][e] = "closed")

LEMMA UntouchedStays ==
  ASSUME RelayInv, EndsStay, NEW y \in Conns, Untouched(y)
  PROVE  EndsOf(y)' /\ RouteOf(y)' /\ JoinOf(y)'
  <1>1. EndsOf(y)'
    BY DEF RelayInv, EndInv, EndsStay, EndsOpened, Untouched, EndsOf, Ends, Tunnels
  <1>2. RouteOf(y)'
    BY DEF RelayInv, RouteInv, Untouched, RouteOf, Tunnels
  <1>3. NodeCopy \subseteq copying'[y] <=> NodeCopy \subseteq copying[y]
    BY DEF Untouched
  <1>4. JoinOf(y)'
    BY <1>3 DEF RelayInv, JoinedIsRouted, EndsStay, EndsClosed, Untouched, JoinOf
  <1> QED
    BY <1>1, <1>2, <1>4

\* A step of one relay.
LEMMA OneRelay ==
  ASSUME RelayInv, RelayTypeOK', EndsStay, NEW x \in Conns,
         \A y \in Conns \ {x} : Untouched(y),
         EndsOf(x)', RouteOf(x)', JoinOf(x)'
  PROVE  RelayInv'
  <1>1. \A y \in Conns : EndsOf(y)' /\ RouteOf(y)' /\ JoinOf(y)'
    BY UntouchedStays
  <1>2. EndInv'
    BY <1>1 DEF EndInv, EndsOf
  <1>3. RouteInv'
    BY <1>1 DEF RouteInv, RouteOf
  <1>4. JoinedIsRouted'
    BY <1>1 DEF JoinedIsRouted, JoinOf
  <1> QED
    BY <1>2, <1>3, <1>4 DEF RelayInv

\* A step that changes no relay at the node.
LEMMA NoRelay ==
  ASSUME RelayInv, RelayTypeOK', EndsStay, \A y \in Conns : Untouched(y)
  PROVE  RelayInv'
  <1>1. \A y \in Conns : EndsOf(y)' /\ RouteOf(y)' /\ JoinOf(y)'
    BY UntouchedStays
  <1>2. EndInv'
    BY <1>1 DEF EndInv, EndsOf
  <1>3. RouteInv'
    BY <1>1 DEF RouteInv, RouteOf
  <1>4. JoinedIsRouted'
    BY <1>1 DEF JoinedIsRouted, JoinOf
  <1> QED
    BY <1>2, <1>3, <1>4 DEF RelayInv

\* A step of the building of one relay, that neither joins it nor finds it joined.
BuildStep(x) ==
  /\ built[x] # "paired" /\ built'[x] # "paired"
  /\ copying'[x] \cap NodeCopy = copying[x] \cap NodeCopy
  /\ \A y \in Conns \ {x} : Untouched(y)

LEMMA Built ==
  ASSUME RelayInv, RelayTypeOK', EndsStay, NEW x \in Conns, BuildStep(x), EndsOf(x)',
         \A e \in Tunnels : <<x, e>> \in hooks' => built'[x] \in {"paired", "cut"},
         built'[x] \in {"dialed", "listenIn", "targetOut", "dialedOut", "going"} =>
           <<x, "listen">> \in route',
         built'[x] \in {"dialedOut", "going"} => <<x, "target">> \in route'
  PROVE  RelayInv'
  <1>1. RouteOf(x)'
    BY DEF RouteOf, BuildStep, RelayInv, RouteInv
  <1>2. JoinOf(x)'
    BY DEF JoinOf, BuildStep
  <1> QED
    BY <1>1, <1>2, OneRelay DEF BuildStep

\* The Copy of a client is none of the node.
LEMMA CopiesApart ==
  /\ ListenCopy \subseteq Directions /\ NodeCopy \subseteq Directions /\ TargetCopy \subseteq Directions
  /\ ListenCopy \cap NodeCopy = {} /\ TargetCopy \cap NodeCopy = {}
  BY DEF Directions, ListenCopy, NodeCopy, TargetCopy, Copy

LEMMA NextRelayInv == RelayInv /\ [RelayNext]_relayVars => RelayInv'
  <1> SUFFICES ASSUME RelayInv, [RelayNext]_relayVars PROVE RelayInv'
    OBVIOUS
  <1>0. end \in EndType
    BY DEF RelayInv, RelayTypeOK, EndType
  <1>1. ASSUME NEW x \in Conns, Accept(x) PROVE RelayInv'
    <2> USE <1>1 DEF Accept, Go, closeVars
    <2>1. EndsStay /\ end'[x]["local"] # "none"
      BY <1>0, OpenedEnds DEF Ends
    <2>2. RelayTypeOK'
      BY <2>1 DEF EndsStay, EndType, RelayInv, RelayTypeOK
    <2>3. BuildStep(x)
      BY DEF BuildStep, Untouched, RelayInv, RelayTypeOK
    <2>4. EndsOf(x)'
      BY <2>1 DEF EndsOf, RelayInv, RelayTypeOK
    <2> QED
      BY <2>1, <2>2, <2>3, <2>4, Built DEF RelayInv, RelayTypeOK, RouteInv
  <1>2. ASSUME NEW x \in Conns, DialListen(x) PROVE RelayInv'
    <2> USE <1>2 DEF DialListen, Go
    <2>1. /\ EndsStay
          /\ built'[x] = "dialed" => end'[x]["listen"] # "none"
      <3>1. CASE end' = Opened(x, "listen")
        BY <1>0, <3>1, OpenedEnds DEF Ends, Tunnels
      <3>2. CASE end' = end /\ built'[x] = "unserved"
        BY <1>0, <3>2, SameEnds
      <3> QED
        BY <3>1, <3>2 DEF RelayInv, RelayTypeOK
    <2>2. RelayTypeOK'
      <3>1. built' \in [Conns -> {"idle", "accepted", "dialed", "listenIn", "targetOut", "dialedOut",
               "going", "paired", "unserved", "cut", "noTarget", "targetLost", "orphan"}]
        BY DEF RelayInv, RelayTypeOK
      <3>2. <<x, "listen">> \in Conns \X Tunnels
        BY DEF Tunnels
      <3>3. route \subseteq route' /\ route' \subseteq Conns \X Tunnels
        BY <3>2 DEF RelayInv, RelayTypeOK
      <3> QED
        BY <2>1, <3>1, <3>3 DEF EndsStay, EndType, RelayInv, RelayTypeOK
    <2>3. BuildStep(x)
      BY DEF BuildStep, Untouched, RelayInv, RelayTypeOK
    <2>4. EndsOf(x)'
      BY <2>1 DEF EndsOf, EndsStay, EndsOpened, RelayInv, RelayTypeOK, EndInv, Ends, Tunnels
    <2> QED
      BY <2>1, <2>2, <2>3, <2>4, Built DEF RelayInv, RelayTypeOK, RouteInv
  <1>3. ASSUME NEW x \in Conns, WriteListenIn(x) PROVE RelayInv'
    <2> USE <1>3 DEF WriteListenIn, Go, ClientCloses
    <2>1. EndsStay
      BY <1>0, SameEnds
    <2>2. RelayTypeOK'
      BY <2>1, CopiesApart DEF EndsStay, EndType, RelayInv, RelayTypeOK, Tunnels
    <2>3. BuildStep(x)
      BY CopiesApart DEF BuildStep, Untouched, RelayInv, RelayTypeOK
    <2>4. EndsOf(x)'
      BY <2>1 DEF EndsOf, EndsStay, EndsOpened, RelayInv, RelayTypeOK, EndInv, Ends, Tunnels
    <2> QED
      BY <2>1, <2>2, <2>3, <2>4, Built DEF RelayInv, RelayTypeOK, RouteInv
  <1>4. ASSUME NEW x \in Conns, onInvokerListenIn(x) PROVE RelayInv'
    <2> USE <1>4 DEF onInvokerListenIn, Go, ListenWithoutTarget, NodeCloses
    <2>1. EndsStay
      BY <1>0, SameEnds
    <2>2. RelayTypeOK'
      BY <2>1, CopiesApart DEF EndsStay, EndType, RelayInv, RelayTypeOK, Tunnels
    <2>3. BuildStep(x)
      BY CopiesApart DEF BuildStep, Untouched, RelayInv, RelayTypeOK
    <2>4. EndsOf(x)'
      BY <2>1 DEF EndsOf, EndsStay, EndsOpened, RelayInv, RelayTypeOK, EndInv, Ends, Tunnels
    <2> QED
      BY <2>1, <2>2, <2>3, <2>4, Built DEF RelayInv, RelayTypeOK, RouteInv
  <1>5. ASSUME NEW x \in Conns, TargetFails(x) PROVE RelayInv'
    <2> USE <1>5 DEF TargetFails, Go, closeVars
    <2>1. EndsStay
      BY <1>0, SameEnds
    <2>2. RelayTypeOK'
      BY <2>1, CopiesApart DEF EndsStay, EndType, RelayInv, RelayTypeOK, Tunnels
    <2>3. BuildStep(x)
      BY CopiesApart DEF BuildStep, Untouched, RelayInv, RelayTypeOK
    <2>4. EndsOf(x)'
      BY <2>1 DEF EndsOf, EndsStay, EndsOpened, RelayInv, RelayTypeOK, EndInv, Ends, Tunnels
    <2> QED
      BY <2>1, <2>2, <2>3, <2>4, Built DEF RelayInv, RelayTypeOK, RouteInv
  <1>6. ASSUME NEW x \in Conns, onInvoker_DialOut(x) PROVE RelayInv'
    <2> USE <1>6 DEF onInvoker_DialOut, Go
    <2>1. EndsStay /\ end'[x]["target"] # "none"
      BY <1>0, OpenedEnds DEF Ends, Tunnels, RelayInv, RelayTypeOK
    <2>2. RelayTypeOK'
      BY <2>1, CopiesApart DEF EndsStay, EndType, RelayInv, RelayTypeOK, Tunnels
    <2>3. BuildStep(x)
      BY CopiesApart DEF BuildStep, Untouched, RelayInv, RelayTypeOK
    <2>4. EndsOf(x)'
      BY <2>1 DEF EndsOf, EndsStay, EndsOpened, RelayInv, RelayTypeOK, EndInv, Ends, Tunnels
    <2> QED
      BY <2>1, <2>2, <2>3, <2>4, Built DEF RelayInv, RelayTypeOK, RouteInv
  <1>7. ASSUME NEW x \in Conns, WriteTransferGo(x) PROVE RelayInv'
    <2> USE <1>7 DEF WriteTransferGo, Go, ClientCloses
    <2>1. EndsStay
      BY <1>0, SameEnds
    <2>2. RelayTypeOK'
      <3>1. built' \in [Conns -> {"idle", "accepted", "dialed", "listenIn", "targetOut", "dialedOut",
               "going", "paired", "unserved", "cut", "noTarget", "targetLost", "orphan"}]
        BY DEF RelayInv, RelayTypeOK
      <3>2. dial' \in [Conns -> {"none", "dialing", "done", "refused"}]
        BY DEF RelayInv, RelayTypeOK
      <3>3. goodbyes' \subseteq Conns \X Tunnels
        BY DEF RelayInv, RelayTypeOK, Tunnels
      <3> QED
        BY <2>1, <3>1, <3>2, <3>3 DEF EndsStay, EndType, RelayInv, RelayTypeOK
    <2>3. BuildStep(x)
      BY CopiesApart DEF BuildStep, Untouched, RelayInv, RelayTypeOK
    <2>4. EndsOf(x)'
      BY <2>1 DEF EndsOf, EndsStay, EndsOpened, RelayInv, RelayTypeOK, EndInv, Ends, Tunnels
    <2> QED
      BY <2>1, <2>2, <2>3, <2>4, Built DEF RelayInv, RelayTypeOK, RouteInv
  <1>8. ASSUME NEW x \in Conns, onInvokerTransferGo(x) PROVE RelayInv'
    <2> USE <1>8 DEF onInvokerTransferGo, Go, closeVars
    <2>1. EndsStay
      BY <1>0, SameEnds
    <2>2. RelayTypeOK'
      <3>1. built' \in [Conns -> {"idle", "accepted", "dialed", "listenIn", "targetOut", "dialedOut",
               "going", "paired", "unserved", "cut", "noTarget", "targetLost", "orphan"}]
        BY DEF RelayInv, RelayTypeOK
      <3>2. copying' \in [Conns -> SUBSET Directions]
        BY CopiesApart DEF RelayInv, RelayTypeOK
      <3> QED
        BY <3>1, <3>2 DEF RelayInv, RelayTypeOK
    <2>3. \A y \in Conns \ {x} : Untouched(y)
      BY DEF Untouched, RelayInv, RelayTypeOK
    <2>4. EndsOf(x)'
      BY DEF EndsOf, RelayInv, RelayTypeOK, EndInv
    <2>5. RouteOf(x)'
      BY DEF RouteOf, RelayInv, RelayTypeOK, RouteInv
    <2>6. JoinOf(x)'
      <3> SUFFICES ASSUME NEW e \in Tunnels, built'[x] = "paired"
                   PROVE  NodeCopy \subseteq copying'[x] /\ <<x, e>> \in route' \ hooks'
        BY DEF JoinOf
      <3>1. built[x] = "going" /\ copying' = [copying EXCEPT ![x] = @ \cup NodeCopy]
        BY DEF RelayInv, RelayTypeOK
      <3>2. <<x, e>> \in route \ hooks
        BY <3>1 DEF RelayInv, RouteInv, Tunnels
      <3> QED
        BY <3>1, <3>2 DEF RelayInv, RelayTypeOK
    <2> QED
      BY <2>1, <2>2, <2>3, <2>4, <2>5, <2>6, OneRelay
  <1>9. ASSUME NEW x \in Conns, DialRemote(x) PROVE RelayInv'
    <2> USE <1>9 DEF DialRemote, closeVars
    <2>1. EndsStay
      BY <1>0, OpenedEnds DEF Ends
    <2>2. RelayTypeOK'
      BY <2>1, CopiesApart DEF EndsStay, EndType, RelayInv, RelayTypeOK
    <2>3. \A y \in Conns : Untouched(y)
      BY CopiesApart DEF Untouched, RelayInv, RelayTypeOK
    <2> QED
      BY <2>1, <2>2, <2>3, NoRelay
  <1>10. ASSUME NEW x \in Conns, DialRefused(x) PROVE RelayInv'
    <2> USE <1>10 DEF DialRefused
    <2>1. EndsStay
      <3>1. ASSUME NEW y \in Conns
            PROVE  /\ end'[y] \in [Ends -> {"none", "open", "closed"}]
                   /\ \A e \in Ends : /\ end[y][e] # "none" => end'[y][e] # "none"
                                      /\ end[y][e] = "closed" => end'[y][e] = "closed"
        <4>1. end'[y] = Closed(y, {"target", "remote"})[y]
          BY DEF EndType
        <4> QED
          BY <1>0, <4>1 DEF EndType, Closed
      <3>2. end' \in EndType
        BY <3>1 DEF EndType
      <3> QED
        BY <3>1, <3>2 DEF EndsStay, EndsOpened, EndsClosed, Ends
    <2>2. \A y \in Conns : \/ built'[y] = built[y]
                           \/ built[y] = "targetOut" /\ built'[y] = "noTarget"
                           \/ built[y] = "dialedOut" /\ built'[y] = "targetLost"
      OBVIOUS
    <2>3. \A y \in Conns : /\ copying'[y] \subseteq copying[y]
                           /\ copying'[y] \cap NodeCopy = copying[y] \cap NodeCopy
      BY CopiesApart
    <2>4. RelayTypeOK'
      <3>1. built' \in [Conns -> {"idle", "accepted", "dialed", "listenIn", "targetOut", "dialedOut",
                               "going", "paired", "unserved", "cut", "noTarget", "targetLost", "orphan"}]
        BY DEF RelayInv, RelayTypeOK
      <3>2. copying' \in [Conns -> SUBSET Directions]
        BY DEF RelayInv, RelayTypeOK
      <3>3. dial' \in [Conns -> {"none", "dialing", "done", "refused"}]
        BY DEF RelayInv, RelayTypeOK
      <3> QED
        BY <2>1, <3>1, <3>2, <3>3 DEF EndsStay, EndType, RelayInv, RelayTypeOK
    <2>5. ASSUME NEW y \in Conns PROVE EndsOf(y)' /\ RouteOf(y)' /\ JoinOf(y)'
      <3>1. CASE built'[y] = built[y]
        BY <2>1, <2>3, <3>1, UntouchedStays DEF Untouched
      <3>2. CASE built[y] = "targetOut" /\ built'[y] = "noTarget"
        BY <2>1, <2>3, <3>2 DEF EndsOf, RouteOf, JoinOf, EndsStay, EndsOpened, RelayInv, EndInv,
                                RouteInv, Ends, Tunnels
      <3>3. CASE built[y] = "dialedOut" /\ built'[y] = "targetLost"
        BY <2>1, <2>3, <3>3 DEF EndsOf, RouteOf, JoinOf, EndsStay, EndsOpened, RelayInv, EndInv,
                                RouteInv, Ends, Tunnels
      <3> QED
        BY <2>2, <3>1, <3>2, <3>3
    <2>6. EndInv' /\ RouteInv' /\ JoinedIsRouted'
      BY <2>5 DEF EndInv, RouteInv, JoinedIsRouted, EndsOf, RouteOf, JoinOf
    <2> QED
      BY <2>4, <2>6 DEF RelayInv
  <1>11. ASSUME NEW x \in Conns, NEW d \in Directions, Stop(x, d) PROVE RelayInv'
    <2> USE <1>11 DEF Stop, Closes
    <2>1. EndsStay
      BY <1>0, ClosedEnds
    <2>2. \A y \in Conns : copying'[y] \subseteq copying[y] /\ copying'[y] \in SUBSET Directions
      BY DEF RelayInv, RelayTypeOK
    <2>3. CASE d \notin NodeCopy
      <3>1. /\ hooks' = hooks /\ route' = route /\ built' = built /\ dial' = dial
            /\ goodbyes' \subseteq Conns \X Tunnels
        BY <2>3 DEF ClientCloses, RelayInv, RelayTypeOK
      <3>2. RelayTypeOK'
        BY <2>1, <2>2, <3>1 DEF EndsStay, EndType, RelayInv, RelayTypeOK
      <3>3. \A y \in Conns : Untouched(y)
        BY <2>3, <3>1 DEF Untouched, RelayInv, RelayTypeOK
      <3> QED
        BY <2>1, <3>2, <3>3, NoRelay
    <2>4. CASE d \in NodeCopy
      <3>1. {d[1], d[2]} = Tunnels
        BY <2>4 DEF NodeCopy, Copy, Tunnels
      <3>2. /\ hooks' = hooks \cup (route \cap ({x} \X Tunnels))
            /\ goodbyes' = goodbyes /\ route' = route /\ built' = built /\ dial' = dial
        BY <2>4, <3>1 DEF NodeCloses
      <3>3. RelayTypeOK'
        BY <2>1, <2>2, <3>2 DEF EndsStay, EndType, RelayInv, RelayTypeOK
      <3>4. \A y \in Conns \ {x} : Untouched(y)
        BY <3>2 DEF Untouched, RelayInv, RelayTypeOK
      <3>5. built[x] = "paired"
        BY <2>4 DEF RelayInv, RouteInv
      <3>6. EndsOf(x)'
        BY <2>1, <3>2 DEF EndsOf, EndsStay, EndsOpened, RelayInv, EndInv, Ends, Tunnels
      <3>7. RouteOf(x)'
        BY <3>2, <3>5 DEF RouteOf
      <3>8. JoinOf(x)'
        <4> SUFFICES ASSUME NEW e \in Tunnels
                     PROVE  <<x, e>> \in hooks' \/ (<<x, e>> \notin route' /\ end'[x][e] = "closed")
          <5>1. ~(NodeCopy \subseteq copying'[x])
            BY <2>4 DEF RelayInv, RelayTypeOK
          <5> QED
            BY <5>1 DEF JoinOf
        <4>1. CASE <<x, e>> \in route
          BY <3>2, <4>1
        <4>2. CASE <<x, e>> \notin route
          <5>1. end[x][e] = "closed"
            BY <3>5, <4>2 DEF RelayInv, RelayTypeOK, JoinedIsRouted
          <5> QED
            BY <2>1, <3>2, <3>5, <4>2, <5>1 DEF EndsStay, EndsClosed
        <4> QED
          BY <4>1, <4>2
      <3> QED
        BY <2>1, <3>3, <3>4, <3>6, <3>7, <3>8, OneRelay
    <2> QED
      BY <2>3, <2>4
  <1>12. ASSUME NEW x \in Conns, NEW e \in Tunnels, NodeOnClose(x, e) PROVE RelayInv'
    <2> USE <1>12 DEF NodeOnClose, RemoveInvoker
    <2>1. EndsStay /\ (end[x][e] # "none" => end'[x][e] = "closed")
      BY <1>0, ClosedEnds DEF Ends
    <2>2. RelayTypeOK'
      BY <2>1 DEF EndsStay, EndType, RelayInv, RelayTypeOK
    <2>3. \A y \in Conns \ {x} : Untouched(y)
      BY DEF Untouched
    <2>4. built[x] \in {"paired", "cut"}
      BY DEF RelayInv, RouteInv
    <2>5. EndsOf(x)'
      BY <2>1 DEF EndsOf, EndsStay, EndsOpened, RelayInv, EndInv, Ends, Tunnels
    <2>6. RouteOf(x)'
      BY <2>4 DEF RouteOf, RelayInv, RouteInv
    <2>7. JoinOf(x)'
      <3> SUFFICES ASSUME NEW f \in Tunnels, built[x] = "paired"
                   PROVE  IF NodeCopy \subseteq copying[x]
                            THEN <<x, f>> \in route' \ hooks'
                            ELSE <<x, f>> \in hooks' \/ (<<x, f>> \notin route' /\ end'[x][f] = "closed")
        BY DEF JoinOf
      <3>1. ~(NodeCopy \subseteq copying[x])
        BY DEF RelayInv, JoinedIsRouted
      <3>2. CASE f = e
        <4>1. end[x][e] # "none"
          BY DEF RelayInv, EndInv, Tunnels
        <4> QED
          BY <2>1, <3>1, <3>2, <4>1
      <3>3. CASE f # e
        BY <2>1, <3>1, <3>3 DEF RelayInv, JoinedIsRouted, EndsStay, EndsClosed
      <3> QED
        BY <3>2, <3>3
    <2> QED
      BY <2>1, <2>2, <2>3, <2>5, <2>6, <2>7, OneRelay
  <1>13. ASSUME NEW x \in Conns,
                \/ \E e \in Tunnels : ClientOnClose(x, e)
                \/ Hangup(x) \/ TunnelLost(x)
         PROVE  RelayInv'
    <2>1. /\ UNCHANGED <<built, copying, route, hooks, dial>>
          /\ goodbyes' \subseteq goodbyes
          /\ \E e : end' = Closed(x, {e})
      BY <1>13 DEF ClientOnClose, Hangup, TunnelLost, RouteWithout, closeVars
    <2>2. EndsStay
      BY <1>0, <2>1, ClosedEnds
    <2>3. RelayTypeOK'
      BY <2>1, <2>2 DEF EndsStay, EndType, RelayInv, RelayTypeOK
    <2> QED
      BY <2>1, <2>2, <2>3, NoRelay DEF Untouched
  <1>14. CASE UNCHANGED relayVars
    BY <1>14 DEF relayVars, closeVars, RelayInv, RelayTypeOK, EndInv, RouteInv, JoinedIsRouted
  <1> QED
    BY <1>1, <1>2, <1>3, <1>4, <1>5, <1>6, <1>7, <1>8, <1>9, <1>10, <1>11, <1>12, <1>13, <1>14
       DEF RelayNext, Build, ReadEnds, WriteFails

-----------------------------------------------------------------------------
\* RelaySpec keeps RelayInv: the strengthening the theorems below rest on.
THEOREM RelayInvariant == RelaySpec => []RelayInv
  BY InitRelayInv, NextRelayInv, PTL DEF RelaySpec

\* The variables keep their types: every onClose that the node has to run is that of
\* an invoker of its route (server.go:168-176).
THEOREM RelayTypeCorrect == RelaySpec => []RelayTypeOK
  <1>1. RelayInv => RelayTypeOK
    BY DEF RelayInv
  <1> QED
    BY <1>1, RelayInvariant, PTL

\* A Transfer_Go finds its listen tunnel in the route of the node (node.go:476-494).
THEOREM GoesFindListener == RelaySpec => []GoFindsListener
  <1>1. RelayInv => GoFindsListener
    BY DEF RelayInv, RouteInv, GoFindsListener
  <1> QED
    BY <1>1, RelayInvariant, PTL

\* A joined relay has its tunnels in the route, not closed, for as long as the node
\* copies in both directions; after that each has its onClose to come, or is closed
\* and gone (invoke.go:143-164, closer.go:49-62, server.go:168-176).
THEOREM JoinedAreRouted == RelaySpec => []JoinedIsRouted
  <1>1. RelayInv => JoinedIsRouted
    BY DEF RelayInv
  <1> QED
    BY <1>1, RelayInvariant, PTL
=============================================================================
