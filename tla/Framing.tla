-------------------------------- MODULE Framing -------------------------------
(***************************************************************************)
(* One tunnel as a pair of byte streams.  The dialer writes one byte, for a *)
(* stream is accepted when something arrives on it (AddDialInvoker), and   *)
(* the acceptor answers with the ids (AddAcceptInvoker, SetId).  From then *)
(* on a request is a frame: its length in a fixed number of bytes, and its *)
(* JSON.  A command tunnel carries the frames of many goroutines; a data   *)
(* tunnel carries one, and then the bytes that Copy reads and writes.      *)
(* Streams are reliable and in order, until the session ends.              *)
(***************************************************************************)
EXTENDS Integers, SequencesExt

CONSTANTS Requests,  \* the requests that goroutines of the dialer write
          Body,      \* Body[r]: the JSON of request r, as bytes
          Ids,       \* the JSON of SetId
          Raw,       \* Raw[d]: the bytes that Copy has to carry in direction d
          Push,      \* the first byte (88)
          Base,      \* the values of a byte (256)
          Width,     \* the bytes of a length (8)
          None       \* no ids

Directions == {"up", "down"}   \* from the dialer, to the dialer
Bytes == 0..(Base - 1)
Pow[k \in 0..Width] == IF k = 0 THEN 1 ELSE Base * Pow[k - 1]
Half == Pow[Width] \div 2

ASSUME FramingAssumption ==
  /\ Base \in Nat \ {0, 1} /\ Width \in Nat \ {0}
  /\ Push \in Bytes /\ None # Ids
  /\ Body \in [Requests -> Seq(Bytes)] /\ Ids \in Seq(Bytes) /\ Raw \in [Directions -> Seq(Bytes)]
  /\ Len(Ids) < Half /\ \A r \in Requests : Len(Body[r]) < Half

VARIABLES
  kind,      \* what the tunnel is dialed for
  up,        \* the session is up
  stream,    \* stream[d]: the bytes written in direction d and not yet read
  dialer,    \* the point that Dial has reached
  acceptor,  \* the point that upgradeWebTransport and its reader have reached
  writer,    \* writer[r]: the goroutine that writes r
  rest,      \* rest[r]: what it has still to write
  ids,       \* the ids that the dialer has read
  got,       \* what ReadInvoke has returned to the acceptor
  sent,      \* sent[d]: how many bytes of Raw[d] are written
  copied,    \* copied[d]: the raw bytes that have reached the other Copy
  order      \* history: the requests in the order of their locks

writerVars == <<writer, rest, order>>
copyVars == <<sent, copied>>
vars == <<kind, up, stream, dialer, acceptor, writerVars, ids, got, copyVars>>

TypeOK ==
  /\ kind \in {"command", "data"}
  /\ up \in BOOLEAN
  /\ stream \in [Directions -> Seq(Bytes)]
  /\ dialer \in {"push", "ids", "ready"}
  /\ acceptor \in {"accept", "ids", "ready", "copy", "ended"}
  /\ writer \in [Requests -> {"idle", "writing", "written", "failed"}]
  /\ rest \in [Requests -> Seq(Bytes)]
  /\ ids \in Seq(Bytes) \cup {None}
  /\ got \in Seq(Seq(Bytes))
  /\ sent \in [Directions -> Nat] /\ copied \in [Directions -> Seq(Bytes)]
  /\ order \in Seq(Requests)

Init ==
  /\ kind \in {"command", "data"}
  /\ up = TRUE
  /\ stream = [d \in Directions |-> <<>>]
  /\ dialer = "push" /\ acceptor = "accept"
  /\ writer = [r \in Requests |-> "idle"] /\ rest = [r \in Requests |-> <<>>]
  /\ ids = None /\ got = <<>>
  /\ sent = [d \in Directions |-> 0] /\ copied = [d \in Directions |-> <<>>]
  /\ order = <<>>

-----------------------------------------------------------------------------
(* Frames.                                                                 *)

\* Shifted(n)[k]: n, shifted to the right by k bytes.
Shifted(n) ==
  LET shift[k \in 0..Width] == IF k = 0 THEN n ELSE shift[k - 1] \div Base
  IN  shift

\* A slip: the reader and the writer disagree about the order of the bytes.
IntToBytes_Little(n) == [i \in 1..Width |-> Shifted(n)[i - 1] % Base]

\* Big endian, in two's complement.
IntToBytes(n) == [i \in 1..Width |-> Shifted(n)[Width - i] % Base]

BytesToInt(bys) ==
  LET data[i \in 0..Width] == IF i = 0 THEN 0 ELSE Base * data[i - 1] + bys[i]
  IN  IF data[Width] < Half THEN data[Width] ELSE data[Width] - Pow[Width]

Frame(body) == IntToBytes(Len(body)) \o body

\* io.ReadFull returns once it has all it wants: the length, then so many bytes;
\* at the end of the stream it keeps what there was.
HasFrame(s) ==
  /\ Len(s) >= Width
  /\ BytesToInt(SubSeq(s, 1, Width)) \in 0..(Len(s) - Width)

FrameEnd(s) == Width + BytesToInt(SubSeq(s, 1, Width))

Write(d, bytes) == up /\ stream' = [stream EXCEPT ![d] = @ \o bytes]

Rest(s, n) == SubSeq(s, n + 1, Len(s))

Drop(d, n) == stream' = [stream EXCEPT ![d] = Rest(@, n)]

-----------------------------------------------------------------------------
(* The handshake.                                                          *)

WritePush ==
  /\ dialer = "push"
  /\ dialer' = "ids"
  /\ IF up THEN Write("up", <<Push>>) ELSE UNCHANGED stream
  /\ UNCHANGED <<kind, up, acceptor, writerVars, ids, got, copyVars>>

\* The byte is read through a buffer that is dropped with all it has read.
AddAcceptInvoker ==
  /\ acceptor = "accept"
  /\ acceptor' = "ids"
  /\ \/ \E n \in 1..Len(stream["up"]) : Drop("up", n)
     \/ ~up /\ stream["up"] = <<>> /\ UNCHANGED stream
  /\ UNCHANGED <<kind, up, dialer, writerVars, ids, got, copyVars>>

WriteIds ==
  /\ acceptor = "ids"
  /\ \/ Write("down", Frame(Ids)) /\ acceptor' = "ready"
     \/ ~up /\ UNCHANGED stream /\ acceptor' = "ended"
  /\ UNCHANGED <<kind, up, dialer, writerVars, ids, got, copyVars>>

\* A stream that ends before the ids are complete leaves them empty, and Dial
\* goes on.
AddDialInvoker ==
  /\ dialer = "ids"
  /\ dialer' = "ready"
  /\ LET s == stream["down"] IN
       \/ /\ HasFrame(s)
          /\ ids' = SubSeq(s, Width + 1, FrameEnd(s))
          /\ Drop("down", FrameEnd(s))
       \/ ~up /\ ~HasFrame(s) /\ Drop("down", Len(s)) /\ UNCHANGED ids
  /\ UNCHANGED <<kind, up, acceptor, writerVars, got, copyVars>>

-----------------------------------------------------------------------------
(* The requests.                                                           *)

\* A slip: requests are written while the handshake waits for the ids.
Dialed_Early == dialer # "push"

Dialed == dialer = "ready"

\* A slip: nobody keeps the writerLock.
writerLock_Free == TRUE

writerLock == \A r \in Requests : writer[r] # "writing"

\* On a data tunnel the connected handler writes the only request.
BeginWrite(r) ==
  /\ Dialed /\ writerLock
  /\ writer[r] = "idle"
  /\ kind = "data" => order = <<>>
  /\ writer' = [writer EXCEPT ![r] = "writing"]
  /\ rest' = [rest EXCEPT ![r] = Frame(Body[r])]
  /\ order' = Append(order, r)
  /\ UNCHANGED <<kind, up, stream, dialer, acceptor, ids, got, copyVars>>

\* The bytes leave one after the other, until the session ends.
writeInvokeData(r) ==
  /\ writer[r] = "writing"
  /\ \/ /\ rest[r] # <<>>
        /\ Write("up", <<Head(rest[r])>>)
        /\ rest' = [rest EXCEPT ![r] = Tail(@)]
        /\ UNCHANGED writer
     \/ /\ rest[r] = <<>>
        /\ writer' = [writer EXCEPT ![r] = "written"]
        /\ UNCHANGED <<rest, stream>>
     \/ /\ rest[r] # <<>> /\ ~up
        /\ writer' = [writer EXCEPT ![r] = "failed"]
        /\ rest' = [rest EXCEPT ![r] = <<>>]
        /\ UNCHANGED stream
  /\ UNCHANGED <<kind, up, dialer, acceptor, order, ids, got, copyVars>>

\* DispatchInvoke reads on a command tunnel for good, ConnectionIn once.
ReadInvoke ==
  /\ acceptor = "ready"
  /\ LET s == stream["up"] IN
       \/ /\ HasFrame(s)
          /\ got' = Append(got, SubSeq(s, Width + 1, FrameEnd(s)))
          /\ Drop("up", FrameEnd(s))
          /\ acceptor' = IF kind = "data" THEN "copy" ELSE "ready"
       \/ /\ ~up /\ ~HasFrame(s)
          /\ acceptor' = "ended"
          /\ Drop("up", Len(s)) /\ UNCHANGED got
  /\ UNCHANGED <<kind, up, dialer, writerVars, ids, copyVars>>

-----------------------------------------------------------------------------
(* Copy at both ends of a data tunnel.                                     *)

\* The dialer copies when its request is written, the acceptor when it has it.
Copies(d) ==
  kind = "data" /\ CASE d = "up" -> \E r \in Requests : writer[r] \in {"written", "failed"}
                     [] d = "down" -> acceptor = "copy"

CopyIn(d) ==
  /\ Copies(d) /\ sent[d] < Len(Raw[d])
  /\ Write(d, <<Raw[d][sent[d] + 1]>>)
  /\ sent' = [sent EXCEPT ![d] = @ + 1]
  /\ UNCHANGED <<kind, up, dialer, acceptor, writerVars, ids, got, copied>>

CopyOut(d) ==
  /\ Copies(CHOOSE e \in Directions : e # d) /\ stream[d] # <<>>
  /\ copied' = [copied EXCEPT ![d] = Append(@, Head(stream[d]))]
  /\ Drop(d, 1)
  /\ UNCHANGED <<kind, up, dialer, acceptor, writerVars, ids, got, sent>>

-----------------------------------------------------------------------------
\* The session ends at any byte; what has not arrived does not any more.
SessionEnds ==
  /\ up
  /\ up' = FALSE
  /\ \E m \in 0..Len(stream["up"]), n \in 0..Len(stream["down"]) :
       stream' = [d \in Directions |-> SubSeq(stream[d], 1, IF d = "up" THEN m ELSE n)]
  /\ UNCHANGED <<kind, dialer, acceptor, writerVars, ids, got, copyVars>>

Next ==
  \/ WritePush \/ AddAcceptInvoker \/ WriteIds \/ AddDialInvoker
  \/ \E r \in Requests : BeginWrite(r) \/ writeInvokeData(r)
  \/ ReadInvoke
  \/ \E d \in Directions : CopyIn(d) \/ CopyOut(d)
  \/ SessionEnds

Spec == Init /\ [][Next]_vars

\* Every goroutine goes on; a session need not end.
Fairness ==
  /\ WF_vars(WritePush) /\ WF_vars(AddAcceptInvoker) /\ WF_vars(WriteIds)
  /\ WF_vars(AddDialInvoker) /\ WF_vars(ReadInvoke)
  /\ \A r \in Requests : WF_vars(writeInvokeData(r))
  /\ \A d \in Directions : WF_vars(CopyIn(d)) /\ WF_vars(CopyOut(d))

FairSpec == Spec /\ Fairness

-----------------------------------------------------------------------------
(* Properties.                                                             *)

\* What is written: the requests, and the bytes that Copy has to carry.
requestsWritten == [i \in 1..Len(order) |-> Body[order[i]]]
rawWritten == [d \in Directions |-> SubSeq(Raw[d], 1, sent[d])]

Requested == INSTANCE Channel WITH Messages <- {Body[r] : r \in Requests},
                                   written <- requestsWritten, taken <- got
RawUp == INSTANCE Channel WITH Messages <- Bytes, written <- rawWritten["up"],
                               taken <- copied["up"]
RawDown == INSTANCE Channel WITH Messages <- Bytes, written <- rawWritten["down"],
                                 taken <- copied["down"]

\* The two streams implement three channels, one of requests and one of raw bytes in
\* each direction: every request is taken whole, once and in the order of the
\* writers' locks, wherever the session ends and whatever the buffer of the
\* handshake drops, and no reader gets a byte that is not for it
\* (invoke.go:143-164, 216-275, 327-348, 400-419).
KeepsChannels == Requested!Spec /\ RawUp!Spec /\ RawDown!Spec

\* The users' bytes get through as they were sent: none is taken for a part of
\* a frame or lost in a buffer, and no byte of a frame is taken for one of them
\* (invoke.go:143-164, 400-419; node.go:136-143).
RawIsIntact ==
  /\ ids \in {None, Ids}
  /\ \A d \in Directions : IsPrefix(copied[d], SubSeq(Raw[d], 1, sent[d]))

\* On a session that stays up the handshake ends, and every request and every byte
\* arrives (invoke.go:216-231, 400-419).
SentArrives ==
  []up => /\ \A r \in Requests : (writer[r] = "writing") ~> \E i \in 1..Len(got) : order[i] = r
          /\ \A d \in Directions : \A n \in 1..Len(Raw[d]) :
               (sent[d] = n) ~> Len(copied[d]) >= n
          /\ <>(ids = Ids)
=============================================================================
