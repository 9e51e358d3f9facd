------------------------------ MODULE Invoker -------------------------------
(***************************************************************************)
(* One established command tunnel of rpc/invoke.go: the client's Invoker,  *)
(* on which the client calls Invoke (/client/login, /client/transfer/list),*)
(* and the node's Invoker, whose DispatchInvoke loop runs a bidi handler   *)
(* in a goroutine for every request it reads.  The state of a goroutine is *)
(* the point it has reached; a critical section that cannot block inside   *)
(* is one step, and the one that can block, receiveResponse sending on an  *)
(* unbuffered channel, keeps invokeMapLock in lockHolder while it waits.   *)
(* The payloads are left out: a message is its RequestId.                  *)
(***************************************************************************)
EXTENDS Naturals, Sequences

CONSTANTS Calls,   \* the RequestIds (a fresh uuid per request)
          NoCall   \* invokeMapLock is not kept by a receiveResponse

Errors == {"none", "writeError", "contextDone"}

ASSUME CallsAssumption == NoCall \notin Calls /\ Calls \cap Errors = {}

VARIABLES
  call,        \* call[r]: the point Invoke(r) has reached
  result,      \* result[r]: what Invoke(r) returns: a response id or an error
  invokeMap,   \* client: the RequestIds that have a response channel
  lockHolder,  \* client: the receiveResponse that keeps invokeMapLock
  receiver,    \* receiver[r]: the goroutine receiveResponse of response r
  requests,    \* the stream client -> node
  responses,   \* the stream node -> client
  registered,  \* node: the bidi handlers are in the route's table
  handler,     \* handler[r]: the node's goroutine that runs r's handler
  linked,      \* the session is up
  done,        \* done[e]: the context of the invoker at end e is cancelled
  closed,      \* closed[e]: that invoker's onClose has run
  routed,      \* routed[e]: that invoker is in its InvokeRoute
  loop         \* loop[e]: the point DispatchInvoke has reached

callVars == <<call, result, invokeMap>>
recvVars == <<lockHolder, receiver>>
wireVars == <<requests, responses, linked>>
nodeVars == <<registered, handler>>
endVars  == <<done, closed, routed, loop>>
vars     == <<callVars, recvVars, wireVars, nodeVars, endVars>>

Ends == {"client", "node"}

InFlight(stream) == {stream[i] : i \in 1..Len(stream)}

Distinct(stream) ==
  \A i, j \in 1..Len(stream) : stream[i] = stream[j] => i = j

TypeOK ==
  /\ call \in [Calls -> {"idle", "write", "select", "remove", "returned"}]
  /\ result \in [Calls -> Calls \cup Errors]
  /\ invokeMap \subseteq Calls
  /\ lockHolder \in Calls \cup {NoCall}
  /\ receiver \in [Calls -> {"none", "spawned", "sending", "finished"}]
  /\ requests \in Seq(Calls)
  /\ responses \in Seq(Calls)
  /\ registered \in BOOLEAN
  /\ handler \in [Calls -> {"none", "running", "removing", "finished"}]
  /\ linked \in BOOLEAN
  /\ done \in [Ends -> BOOLEAN]
  /\ closed \in [Ends -> BOOLEAN]
  /\ routed \in [Ends -> BOOLEAN]
  /\ loop \in [Ends -> {"check", "read", "stopped"}]

Init ==
  /\ call = [r \in Calls |-> "idle"]
  /\ result = [r \in Calls |-> "none"]
  /\ invokeMap = {}
  /\ lockHolder = NoCall
  /\ receiver = [r \in Calls |-> "none"]
  /\ requests = <<>>
  /\ responses = <<>>
  /\ registered = FALSE
  /\ handler = [r \in Calls |-> "none"]
  /\ linked = TRUE
  /\ done = [e \in Ends |-> FALSE]
  /\ closed = [e \in Ends |-> FALSE]
  /\ routed = [e \in Ends |-> TRUE]
  /\ loop = [e \in Ends |-> "check"]

-----------------------------------------------------------------------------
(* The goroutine of Invoke(r).                                             *)

getResponseChan(r) ==
  /\ call[r] = "idle"
  /\ lockHolder = NoCall
  /\ call' = [call EXCEPT ![r] = "write"]
  /\ invokeMap' = invokeMap \cup {r}
  /\ UNCHANGED <<result, recvVars, wireVars, nodeVars, endVars>>

\* writeInvokeData hands one frame to the stream under writerLock.  When the
\* session is gone the frame is either refused or, as long as this end has
\* not closed its own stream, buffered and lost.
WriteRequest(r) ==
  /\ call[r] = "write"
  /\ \/ /\ linked
        /\ requests' = Append(requests, r)
        /\ call' = [call EXCEPT ![r] = "select"]
        /\ UNCHANGED result
     \/ /\ ~linked
        /\ ~closed["client"]
        /\ call' = [call EXCEPT ![r] = "select"]
        /\ UNCHANGED <<result, requests>>
     \/ /\ ~linked
        /\ call' = [call EXCEPT ![r] = "remove"]
        /\ result' = [result EXCEPT ![r] = "writeError"]
        /\ UNCHANGED requests
  /\ UNCHANGED <<invokeMap, recvVars, responses, linked, nodeVars, endVars>>

\* A slip: the channel is not looked up by RequestId, so the response goes to
\* whichever call happens to wait.
AwaitResponse_AnyCall(r) ==
  \E c \in Calls :
    /\ call[c] = "select"
    /\ receiver[r] = "sending"
    /\ result' = [result EXCEPT ![c] = r]
    /\ call' = [call EXCEPT ![c] = "remove"]
    /\ receiver' = [receiver EXCEPT ![r] = "finished"]
    /\ lockHolder' = NoCall
    /\ UNCHANGED <<invokeMap, wireVars, nodeVars, endVars>>

\* A slip: the deferred Unlock of receiveResponse is lost.
Unlock_None == UNCHANGED lockHolder

Unlock == lockHolder' = NoCall

\* select takes the response: the rendezvous ends receiveResponse(r), whose
\* deferred Unlock frees invokeMapLock.
AwaitResponse(r) ==
  /\ call[r] = "select"
  /\ receiver[r] = "sending"
  /\ result' = [result EXCEPT ![r] = r]
  /\ call' = [call EXCEPT ![r] = "remove"]
  /\ receiver' = [receiver EXCEPT ![r] = "finished"]
  /\ Unlock
  /\ UNCHANGED <<invokeMap, wireVars, nodeVars, endVars>>

\* A slip: Invoke gives up on its own (a timeout) without its context.
CtxDone_Timer == TRUE

\* A slip: Invoke waits for its response channel only.
CtxDone_Never == FALSE

CtxDone == done["client"]

\* select takes the cancelled context, also when a response is being sent.
AwaitContext(r) ==
  /\ call[r] = "select"
  /\ CtxDone
  /\ result' = [result EXCEPT ![r] = "contextDone"]
  /\ call' = [call EXCEPT ![r] = "remove"]
  /\ UNCHANGED <<invokeMap, recvVars, wireVars, nodeVars, endVars>>

RemoveResponseChan(r) ==
  /\ call[r] = "remove"
  /\ lockHolder = NoCall
  /\ invokeMap' = invokeMap \ {r}
  /\ call' = [call EXCEPT ![r] = "returned"]
  /\ UNCHANGED <<result, recvVars, wireVars, nodeVars, endVars>>

Invoke(r) ==
  \/ getResponseChan(r)
  \/ WriteRequest(r)
  \/ AwaitResponse(r)
  \/ AwaitContext(r)
  \/ RemoveResponseChan(r)

-----------------------------------------------------------------------------
(* The goroutine of receiveResponse(r): it takes the lock and, when the    *)
(* call still has a channel, waits on it with the lock in hand.            *)

receiveResponse(r) ==
  /\ receiver[r] = "spawned"
  /\ lockHolder = NoCall
  /\ IF r \in invokeMap
       THEN /\ receiver' = [receiver EXCEPT ![r] = "sending"]
            /\ lockHolder' = r
       ELSE /\ receiver' = [receiver EXCEPT ![r] = "finished"]
            /\ UNCHANGED lockHolder
  /\ UNCHANGED <<callVars, wireVars, nodeVars, endVars>>

-----------------------------------------------------------------------------
(* DispatchInvoke at either end.  Its two tests come before a read that    *)
(* blocks, so a message can still be read after the context is cancelled.  *)

DispatchCheck(e) ==
  /\ loop[e] = "check"
  /\ IF routed[e] /\ ~done[e]
       THEN loop' = [loop EXCEPT ![e] = "read"] /\ UNCHANGED routed
       ELSE /\ loop' = [loop EXCEPT ![e] = "stopped"]
            /\ routed' = [routed EXCEPT ![e] = FALSE]
  /\ UNCHANGED <<callVars, recvVars, wireVars, nodeVars, done, closed>>

\* ReadInvoke fails: Close cancels the context, RemoveInvoker forgets it.
ReadError(e) ==
  /\ loop[e] = "read"
  /\ ~linked
  /\ done' = [done EXCEPT ![e] = TRUE]
  /\ routed' = [routed EXCEPT ![e] = FALSE]
  /\ loop' = [loop EXCEPT ![e] = "stopped"]
  /\ UNCHANGED <<callVars, recvVars, wireVars, nodeVars, closed>>

ReadResponse ==
  /\ loop["client"] = "read"
  /\ responses # <<>>
  /\ ~closed["client"]
  /\ receiver' = [receiver EXCEPT ![Head(responses)] = "spawned"]
  /\ responses' = Tail(responses)
  /\ loop' = [loop EXCEPT !["client"] = "check"]
  /\ UNCHANGED <<callVars, lockHolder, requests, linked, nodeVars,
                 done, closed, routed>>

\* A slip: the frame is not consumed, so the next read finds it again.
AfterRead_Again(stream) == stream

AfterRead(stream) == Tail(stream)

\* A request whose path has no handler yet is logged and dropped.
ReadRequest ==
  /\ loop["node"] = "read"
  /\ requests # <<>>
  /\ ~closed["node"]
  /\ IF registered
       THEN handler' = [handler EXCEPT ![Head(requests)] = "running"]
       ELSE UNCHANGED handler
  /\ requests' = AfterRead(requests)
  /\ loop' = [loop EXCEPT !["node"] = "check"]
  /\ UNCHANGED <<callVars, recvVars, responses, linked, registered,
                 done, closed, routed>>

-----------------------------------------------------------------------------
(* The node's handlers.                                                    *)

\* Node.init fills the handler table after srv.NewServer began to listen.
AddRpcHandler ==
  /\ ~registered
  /\ registered' = TRUE
  /\ UNCHANGED <<callVars, recvVars, wireVars, handler, endVars>>

\* The handler has run and its goroutine writes the response: a refused
\* write cancels the node's context and leaves RemoveInvoker to a goroutine.
WriteResponse(r) ==
  /\ handler[r] = "running"
  /\ \/ /\ linked
        /\ responses' = Append(responses, r)
        /\ handler' = [handler EXCEPT ![r] = "finished"]
        /\ UNCHANGED done
     \/ /\ ~linked
        /\ ~closed["node"]
        /\ handler' = [handler EXCEPT ![r] = "finished"]
        /\ UNCHANGED <<responses, done>>
     \/ /\ ~linked
        /\ done' = [done EXCEPT !["node"] = TRUE]
        /\ handler' = [handler EXCEPT ![r] = "removing"]
        /\ UNCHANGED responses
  /\ UNCHANGED <<callVars, recvVars, requests, linked, registered,
                 closed, routed, loop>>

RemoveInvoker(r) ==
  /\ handler[r] = "removing"
  /\ routed' = [routed EXCEPT !["node"] = FALSE]
  /\ handler' = [handler EXCEPT ![r] = "finished"]
  /\ UNCHANGED <<callVars, recvVars, wireVars, registered, done, closed, loop>>

-----------------------------------------------------------------------------
(* Closing.  Close only cancels the context; the goroutine of SetCtx then  *)
(* runs the onClose hook, which ends the session and leaves the route.     *)

\* Any caller of Close: a kick or the end of the process at the client, the
\* lease of the heartbeat, a refused login or a write error at the node.
Close(e) ==
  /\ ~done[e]
  /\ done' = [done EXCEPT ![e] = TRUE]
  /\ UNCHANGED <<callVars, recvVars, wireVars, nodeVars, closed, routed, loop>>

onClose(e) ==
  /\ done[e]
  /\ ~closed[e]
  /\ closed' = [closed EXCEPT ![e] = TRUE]
  /\ linked' = FALSE
  /\ routed' = [routed EXCEPT ![e] = FALSE]
  /\ UNCHANGED <<callVars, recvVars, requests, responses, nodeVars, done, loop>>

\* The network (or the idle timeout of QUIC) ends the session.
ConnectionLost ==
  /\ linked
  /\ linked' = FALSE
  /\ UNCHANGED <<callVars, recvVars, requests, responses, nodeVars, endVars>>

Next ==
  \/ \E r \in Calls : \/ Invoke(r)
                      \/ receiveResponse(r)
                      \/ WriteResponse(r)
                      \/ RemoveInvoker(r)
  \/ \E e \in Ends : DispatchCheck(e) \/ ReadError(e) \/ Close(e) \/ onClose(e)
  \/ ReadResponse
  \/ ReadRequest
  \/ AddRpcHandler
  \/ ConnectionLost

Spec == Init /\ [][Next]_vars

\* A goroutine that can run does run.  Nothing is assumed of new calls, of
\* those who close a tunnel, of the network or of Node.init.
Fairness ==
  /\ \A r \in Calls : /\ WF_vars(WriteRequest(r))
                      /\ WF_vars(AwaitResponse(r))
                      /\ WF_vars(AwaitContext(r))
                      /\ WF_vars(RemoveResponseChan(r))
                      /\ WF_vars(receiveResponse(r))
                      /\ WF_vars(WriteResponse(r))
                      /\ WF_vars(RemoveInvoker(r))
  /\ \A e \in Ends : /\ WF_vars(DispatchCheck(e))
                     /\ WF_vars(ReadError(e))
                     /\ WF_vars(onClose(e))
  /\ WF_vars(ReadResponse)
  /\ WF_vars(ReadRequest)

FairSpec == Spec /\ Fairness

-----------------------------------------------------------------------------
(* Properties.                                                             *)

\* Concurrent calls share one tunnel and responses come back in any order:
\* a call that returns a response returns its own, and the node has run the
\* handler of that very request (invoke.go, Invoke and receiveResponse).
OwnResponse ==
  \A r \in Calls : result[r] \in Calls => /\ result[r] = r
                                          /\ handler[r] = "finished"

\* The goroutine that keeps invokeMapLock sends on the channel of a call
\* that is past its write and has not returned: a channel is never sent on
\* after RemoveResponseChan, because both need the lock.
SenderHasCall ==
  lockHolder # NoCall => /\ call[lockHolder] \in {"select", "remove"}
                         /\ lockHolder \in invokeMap

\* The sender loses its partner in one way only: the context of the client's
\* invoker was cancelled and select preferred it to the response.
OrphanOnlyByCancel ==
  \A r \in Calls : (lockHolder = r /\ call[r] = "remove") =>
                      (result[r] = "contextDone" /\ done["client"])

\* One r is at one place of its path at a time: write, requests, handler,
\* responses, receiver; and what its caller holds agrees with that place.
\* TunnelInv is inductive and implies the invariants above (InvokerProofs).
LockInv ==
  /\ \A r \in Calls : receiver[r] = "sending" <=> lockHolder = r
  /\ lockHolder # NoCall => lockHolder \in invokeMap

MapInv ==
  \A r \in Calls : r \in invokeMap <=> call[r] \in {"write", "select", "remove"}

ResultInv ==
  \A r \in Calls :
    /\ result[r] = "none" <=> call[r] \in {"idle", "write", "select"}
    /\ result[r] \in Calls => result[r] = r /\ receiver[r] = "finished"
    /\ result[r] = "contextDone" => done["client"]

RequestInv ==
  /\ Distinct(requests)
  /\ \A r \in Calls :
       (call[r] \in {"idle", "write"} \/ result[r] = "writeError") =>
          r \notin InFlight(requests) /\ handler[r] = "none"
  /\ \A r \in Calls : r \in InFlight(requests) => handler[r] = "none"

ResponseInv ==
  /\ Distinct(responses)
  /\ \A r \in Calls : r \in InFlight(responses) =>
                          handler[r] = "finished" /\ receiver[r] = "none"
  /\ \A r \in Calls : receiver[r] # "none" => handler[r] = "finished"

TunnelInv ==
  TypeOK /\ LockInv /\ MapInv /\ ResultInv /\ RequestInv /\ ResponseInv

\* As long as the session stays up, a call the node has begun to execute
\* returns to its caller, however many calls share the lock.
HandledCallReturns ==
  ([]linked) =>
    \A r \in Calls : (handler[r] = "running") ~> (call[r] = "returned")

\* Once the client's context is cancelled every call in progress returns,
\* unless a sender was orphaned: no other wait outlives the tunnel.
CancelReleasesCalls ==
  \A r \in Calls :
    (done["client"] /\ call[r] # "idle") ~>
       (call[r] = "returned" \/ \E c \in Calls : lockHolder = c /\ call[c] = "remove")

-----------------------------------------------------------------------------
(* Refinement: the tunnel implements BidiCall.                             *)

callStatus ==
  [r \in Calls |-> CASE call[r] = "idle" -> "idle"
                     [] call[r] \in {"write", "select"} -> "open"
                     [] OTHER -> IF result[r] \in Calls THEN "answered"
                                                        ELSE "failed"]

execution ==
  [r \in Calls |-> CASE handler[r] = "none" -> "none"
                     [] handler[r] = "running" -> "running"
                     [] OTHER -> "complete"]

Promise == INSTANCE BidiCall WITH status <- callStatus

\* The tunnel executes a call at most once, answers it only with its own
\* execution and never changes an outcome.
KeepsPromise == Promise!Spec
=============================================================================
