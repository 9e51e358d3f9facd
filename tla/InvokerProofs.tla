--------------------------- MODULE InvokerProofs ----------------------------
(***************************************************************************)
(* Proofs about Invoker for any set of calls: TunnelInv is inductive, the  *)
(* safety invariants follow from it, and the tunnel implements BidiCall.   *)
(***************************************************************************)
EXTENDS Invoker, TLAPS

\* What a write and a read do to the calls that are on a stream.
LEMMA AppendInFlight ==
  ASSUME NEW s \in Seq(Calls), NEW r \in Calls
  PROVE  /\ Append(s, r) \in Seq(Calls)
         /\ InFlight(Append(s, r)) = InFlight(s) \cup {r}
         /\ (Distinct(s) /\ r \notin InFlight(s)) => Distinct(Append(s, r))
  BY DEF InFlight, Distinct

LEMMA TailInFlight ==
  ASSUME NEW s \in Seq(Calls), s # <<>>
  PROVE  /\ Head(s) \in Calls
         /\ Head(s) \in InFlight(s)
         /\ Tail(s) \in Seq(Calls)
         /\ InFlight(Tail(s)) \subseteq InFlight(s)
         /\ Distinct(s) => Distinct(Tail(s)) /\ Head(s) \notin InFlight(Tail(s))
  <1>1. /\ Head(s) \in Calls
        /\ Head(s) = s[1] /\ 1 \in 1..Len(s)
        /\ Tail(s) \in Seq(Calls)
        /\ Len(Tail(s)) = Len(s) - 1
        /\ \A i \in 1..Len(Tail(s)) : Tail(s)[i] = s[i + 1] /\ i + 1 \in 1..Len(s)
    OBVIOUS
  <1>2. Head(s) \in InFlight(s) /\ InFlight(Tail(s)) \subseteq InFlight(s)
    BY <1>1 DEF InFlight
  <1>3. ASSUME Distinct(s)
        PROVE  Distinct(Tail(s)) /\ Head(s) \notin InFlight(Tail(s))
    BY <1>1, <1>3 DEF InFlight, Distinct
  <1> QED  BY <1>1, <1>2, <1>3

-----------------------------------------------------------------------------
(* TunnelInv is inductive.                                                 *)

LEMMA InitTunnelInv == Init => TunnelInv
  <1> SUFFICES ASSUME Init PROVE TunnelInv
    OBVIOUS
  <1> USE CallsAssumption DEF Init
  <1>1. requests \in Seq(Calls) /\ responses \in Seq(Calls)
    OBVIOUS
  <1>5. TypeOK
    BY <1>1 DEF TypeOK, Errors, Ends
  <1>2. LockInv /\ MapInv /\ ResultInv
    BY DEF LockInv, MapInv, ResultInv, Errors
  <1>3. /\ Distinct(requests) /\ InFlight(requests) = {}
        /\ Distinct(responses) /\ InFlight(responses) = {}
    BY DEF Distinct, InFlight
  <1>4. RequestInv /\ ResponseInv
    BY <1>3 DEF RequestInv, ResponseInv
  <1> QED
    BY <1>2, <1>4, <1>5 DEF TunnelInv

LEMMA NextTunnelInv == TunnelInv /\ [Next]_vars => TunnelInv'
  <1> SUFFICES ASSUME TunnelInv, [Next]_vars PROVE TunnelInv'
    OBVIOUS
  <1> USE CallsAssumption
      DEF TunnelInv, Errors, callVars, recvVars, wireVars, nodeVars, endVars
  <1>1. ASSUME NEW r \in Calls, getResponseChan(r) PROVE TunnelInv'
    <2> USE <1>1 DEF getResponseChan
    <2>1. TypeOK'
      BY DEF TypeOK
    <2>2. LockInv' /\ MapInv'
      BY DEF TypeOK, LockInv, MapInv
    <2>3. ResultInv'
      BY DEF TypeOK, ResultInv
    <2>4. RequestInv' /\ ResponseInv'
      BY DEF TypeOK, RequestInv, ResponseInv
    <2> QED
      BY <2>1, <2>2, <2>3, <2>4
  <1>2. ASSUME NEW r \in Calls, WriteRequest(r) PROVE TunnelInv'
    <2> USE <1>2 DEF WriteRequest
    <2>1. /\ call[r] = "write" /\ result[r] = "none"
          /\ handler[r] = "none" /\ r \notin InFlight(requests)
      BY DEF ResultInv, RequestInv
    <2>2. /\ requests' \in Seq(Calls) /\ Distinct(requests')
          /\ \/ InFlight(requests') = InFlight(requests) \cup {r} /\ result' = result
             \/ InFlight(requests') = InFlight(requests)
      <3>1. requests \in Seq(Calls) /\ Distinct(requests)
        BY DEF TypeOK, RequestInv
      <3>2. CASE requests' = Append(requests, r) /\ result' = result
        BY <2>1, <3>1, <3>2, AppendInFlight
      <3>3. CASE requests' = requests
        BY <3>1, <3>3
      <3> QED
        BY <3>2, <3>3
    <2>3. \/ call' = [call EXCEPT ![r] = "select"] /\ result' = result
          \/ /\ call' = [call EXCEPT ![r] = "remove"]
             /\ result' = [result EXCEPT ![r] = "writeError"]
             /\ requests' = requests
      OBVIOUS
    <2>4. TypeOK'
      BY <2>2, <2>3 DEF TypeOK
    <2>5. LockInv' /\ MapInv'
      BY <2>1, <2>3 DEF TypeOK, LockInv, MapInv
    <2>6. ResultInv'
      BY <2>1, <2>3 DEF TypeOK, ResultInv
    <2>7. RequestInv'
      BY <2>1, <2>2, <2>3 DEF TypeOK, RequestInv
    <2>8. ResponseInv'
      BY DEF TypeOK, ResponseInv
    <2> QED
      BY <2>4, <2>5, <2>6, <2>7, <2>8
  <1>3. ASSUME NEW r \in Calls, AwaitResponse(r) PROVE TunnelInv'
    <2> USE <1>3 DEF AwaitResponse, Unlock
    <2>1. TypeOK'
      BY DEF TypeOK
    <2>2. LockInv' /\ MapInv'
      BY DEF TypeOK, LockInv, MapInv
    <2>3. ResultInv'
      BY DEF TypeOK, ResultInv
    <2>4. RequestInv' /\ ResponseInv'
      BY DEF TypeOK, RequestInv, ResponseInv
    <2> QED
      BY <2>1, <2>2, <2>3, <2>4
  <1>4. ASSUME NEW r \in Calls, AwaitContext(r) PROVE TunnelInv'
    <2> USE <1>4 DEF AwaitContext, CtxDone
    <2>1. TypeOK'
      BY DEF TypeOK
    <2>2. LockInv' /\ MapInv'
      BY DEF TypeOK, LockInv, MapInv
    <2>3. ResultInv'
      BY DEF TypeOK, ResultInv
    <2>4. RequestInv' /\ ResponseInv'
      BY DEF TypeOK, RequestInv, ResponseInv
    <2> QED
      BY <2>1, <2>2, <2>3, <2>4
  <1>5. ASSUME NEW r \in Calls, RemoveResponseChan(r) PROVE TunnelInv'
    <2> USE <1>5 DEF RemoveResponseChan
    <2>1. TypeOK'
      BY DEF TypeOK
    <2>2. LockInv' /\ MapInv'
      BY DEF TypeOK, LockInv, MapInv
    <2>3. ResultInv'
      BY DEF TypeOK, ResultInv, Ends
    <2>4. RequestInv' /\ ResponseInv'
      BY DEF TypeOK, RequestInv, ResponseInv
    <2> QED
      BY <2>1, <2>2, <2>3, <2>4
  <1>6. ASSUME NEW r \in Calls, receiveResponse(r) PROVE TunnelInv'
    <2> USE <1>6 DEF receiveResponse
    <2>1. \/ /\ r \in invokeMap /\ lockHolder' = r
             /\ receiver' = [receiver EXCEPT ![r] = "sending"]
          \/ /\ lockHolder' = lockHolder
             /\ receiver' = [receiver EXCEPT ![r] = "finished"]
      OBVIOUS
    <2>2. receiver[r] = "spawned" /\ handler[r] = "finished" /\ r \notin InFlight(responses)
      BY DEF ResponseInv
    <2>3. TypeOK'
      BY <2>1 DEF TypeOK
    <2>4. LockInv' /\ MapInv'
      BY <2>1, <2>2 DEF TypeOK, LockInv, MapInv
    <2>5. ResultInv'
      BY <2>1, <2>2 DEF TypeOK, ResultInv
    <2>6. RequestInv'
      BY DEF TypeOK, RequestInv
    <2>7. ResponseInv'
      BY <2>1, <2>2 DEF TypeOK, ResponseInv
    <2> QED
      BY <2>3, <2>4, <2>5, <2>6, <2>7
  <1>7. ASSUME NEW r \in Calls, WriteResponse(r) PROVE TunnelInv'
    <2> USE <1>7 DEF WriteResponse
    <2>1. /\ handler[r] = "running" /\ receiver[r] = "none"
          /\ r \notin InFlight(requests) /\ r \notin InFlight(responses)
      BY DEF TypeOK, RequestInv, ResponseInv
    <2>2. /\ responses' \in Seq(Calls) /\ Distinct(responses')
          /\ \/ /\ InFlight(responses') = InFlight(responses) \cup {r}
                /\ handler' = [handler EXCEPT ![r] = "finished"]
             \/ InFlight(responses') = InFlight(responses)
      <3>1. responses \in Seq(Calls) /\ Distinct(responses)
        BY DEF TypeOK, ResponseInv
      <3>2. CASE /\ responses' = Append(responses, r)
                 /\ handler' = [handler EXCEPT ![r] = "finished"]
        BY <2>1, <3>1, <3>2, AppendInFlight
      <3>3. CASE responses' = responses
        BY <3>1, <3>3
      <3> QED
        BY <3>2, <3>3
    <2>3. /\ \/ handler' = [handler EXCEPT ![r] = "finished"]
             \/ handler' = [handler EXCEPT ![r] = "removing"]
          /\ done' = done \/ done' = [done EXCEPT !["node"] = TRUE]
      OBVIOUS
    <2>4. TypeOK'
      BY <2>2, <2>3 DEF TypeOK
    <2>5. LockInv' /\ MapInv'
      BY DEF TypeOK, LockInv, MapInv
    <2>6. ResultInv'
      BY <2>3 DEF TypeOK, ResultInv, Ends
    <2>7. RequestInv'
      BY <2>1, <2>3 DEF TypeOK, RequestInv
    <2>8. ResponseInv'
      BY <2>1, <2>2, <2>3 DEF TypeOK, ResponseInv
    <2> QED
      BY <2>4, <2>5, <2>6, <2>7, <2>8
  <1>8. ASSUME NEW r \in Calls, RemoveInvoker(r) PROVE TunnelInv'
    <2> USE <1>8 DEF RemoveInvoker
    <2>1. TypeOK'
      BY DEF TypeOK
    <2>2. LockInv' /\ MapInv'
      BY DEF TypeOK, LockInv, MapInv
    <2>3. ResultInv'
      BY DEF TypeOK, ResultInv
    <2>4. RequestInv' /\ ResponseInv'
      BY DEF TypeOK, RequestInv, ResponseInv
    <2> QED
      BY <2>1, <2>2, <2>3, <2>4
  <1>9. ASSUME NEW e \in Ends, DispatchCheck(e) \/ ReadError(e) \/ Close(e) \/ onClose(e)
        PROVE  TunnelInv'
    <2>1. UNCHANGED <<callVars, recvVars, requests, responses, nodeVars>>
      BY <1>9 DEF DispatchCheck, ReadError, Close, onClose
    <2>2. done' = done \/ done' = [done EXCEPT ![e] = TRUE]
      BY <1>9 DEF DispatchCheck, ReadError, Close, onClose
    <2>3. /\ linked' \in BOOLEAN /\ loop' \in [Ends -> {"check", "read", "stopped"}]
          /\ closed' \in [Ends -> BOOLEAN] /\ routed' \in [Ends -> BOOLEAN]
      <3>1. CASE DispatchCheck(e)
        BY <3>1 DEF DispatchCheck, TypeOK
      <3>2. CASE ReadError(e)
        BY <3>2 DEF ReadError, TypeOK
      <3>3. CASE Close(e) \/ onClose(e)
        BY <3>3 DEF Close, onClose, TypeOK
      <3> QED
        BY <1>9, <3>1, <3>2, <3>3
    <2>4. TypeOK'
      BY <2>1, <2>2, <2>3 DEF TypeOK
    <2>5. LockInv' /\ MapInv' /\ ResultInv'
      BY <2>1, <2>2 DEF TypeOK, LockInv, MapInv, ResultInv, Ends
    <2>6. RequestInv' /\ ResponseInv'
      BY <2>1 DEF RequestInv, ResponseInv
    <2> QED
      BY <2>4, <2>5, <2>6
  <1>10. ASSUME ReadResponse PROVE TunnelInv'
    <2> USE <1>10 DEF ReadResponse
    <2> DEFINE r == Head(responses)
    <2>1. /\ r \in Calls /\ r \in InFlight(responses) /\ responses' \in Seq(Calls)
          /\ InFlight(responses') \subseteq InFlight(responses)
          /\ Distinct(responses') /\ r \notin InFlight(responses')
      BY TailInFlight DEF TypeOK, ResponseInv
    <2>2. handler[r] = "finished" /\ receiver[r] = "none"
      BY <2>1 DEF ResponseInv
    <2>3. receiver' = [receiver EXCEPT ![r] = "spawned"]
      OBVIOUS
    <2> HIDE DEF r
    <2>4. TypeOK'
      BY <2>1, <2>3 DEF TypeOK
    <2>5. LockInv' /\ MapInv'
      BY <2>1, <2>2, <2>3 DEF TypeOK, LockInv, MapInv
    <2>6. ResultInv'
      BY <2>1, <2>2, <2>3 DEF TypeOK, ResultInv
    <2>7. RequestInv'
      BY DEF RequestInv
    <2>8. ResponseInv'
      BY <2>1, <2>2, <2>3 DEF TypeOK, ResponseInv
    <2> QED
      BY <2>4, <2>5, <2>6, <2>7, <2>8
  <1>11. ASSUME ReadRequest PROVE TunnelInv'
    <2> USE <1>11 DEF ReadRequest, AfterRead
    <2> DEFINE r == Head(requests)
    <2>1. /\ r \in Calls /\ r \in InFlight(requests) /\ requests' \in Seq(Calls)
          /\ InFlight(requests') \subseteq InFlight(requests)
          /\ Distinct(requests') /\ r \notin InFlight(requests')
      BY TailInFlight DEF TypeOK, RequestInv
    <2>2. /\ handler[r] = "none" /\ call[r] \notin {"idle", "write"}
          /\ result[r] # "writeError"
      BY <2>1 DEF RequestInv
    <2>3. receiver[r] = "none" /\ r \notin InFlight(responses)
      BY <2>1, <2>2 DEF TypeOK, ResponseInv
    <2>4. handler' = handler \/ handler' = [handler EXCEPT ![r] = "running"]
      OBVIOUS
    <2> HIDE DEF r
    <2>5. TypeOK'
      BY <2>1, <2>4 DEF TypeOK
    <2>6. LockInv' /\ MapInv' /\ ResultInv'
      BY DEF LockInv, MapInv, ResultInv
    <2>7. RequestInv'
      BY <2>1, <2>2, <2>4 DEF TypeOK, RequestInv
    <2>8. ResponseInv'
      BY <2>1, <2>3, <2>4 DEF TypeOK, ResponseInv
    <2> QED
      BY <2>5, <2>6, <2>7, <2>8
  <1>12. ASSUME AddRpcHandler \/ ConnectionLost \/ UNCHANGED vars PROVE TunnelInv'
    <2>1. UNCHANGED <<callVars, recvVars, requests, responses, handler, endVars>>
      BY <1>12 DEF AddRpcHandler, ConnectionLost, vars
    <2>2. registered' \in BOOLEAN /\ linked' \in BOOLEAN
      BY <1>12 DEF AddRpcHandler, ConnectionLost, vars, TypeOK
    <2>3. TypeOK'
      BY <2>1, <2>2 DEF TypeOK
    <2>4. LockInv' /\ MapInv' /\ ResultInv'
      BY <2>1 DEF LockInv, MapInv, ResultInv
    <2>5. RequestInv' /\ ResponseInv'
      BY <2>1 DEF RequestInv, ResponseInv
    <2> QED
      BY <2>3, <2>4, <2>5
  <1> QED
    BY <1>1, <1>2, <1>3, <1>4, <1>5, <1>6, <1>7, <1>8, <1>9, <1>10, <1>11, <1>12
       DEF Next, Invoke

-----------------------------------------------------------------------------
(* The safety properties follow.                                           *)

\* Spec keeps TunnelInv: the strengthening the theorems below rest on.
THEOREM TunnelInvariant == Spec => []TunnelInv
  BY InitTunnelInv, NextTunnelInv, PTL DEF Spec

\* The variables keep their types: no call returns anything but a response
\* or one of the two errors of Invoke (invoke.go:303-325).
THEOREM TypeCorrect == Spec => []TypeOK
  <1>1. TunnelInv => TypeOK
    BY DEF TunnelInv
  <1> QED
    BY <1>1, TunnelInvariant, PTL

\* Invoke returns its own response, however many calls share the tunnel.
THEOREM ResponsesAreOwn == Spec => []OwnResponse
  <1>1. TunnelInv => OwnResponse
    BY DEF TunnelInv, ResultInv, ResponseInv, OwnResponse
  <1> QED
    BY <1>1, TunnelInvariant, PTL

\* receiveResponse never sends on the channel of a call that has returned.
THEOREM SendersHaveCalls == Spec => []SenderHasCall
  <1>1. ASSUME TunnelInv, lockHolder # NoCall
        PROVE  /\ call[lockHolder] \in {"select", "remove"}
               /\ lockHolder \in invokeMap
    <2> USE <1>1 DEF TunnelInv
    <2>1. lockHolder \in Calls /\ lockHolder \in invokeMap
      BY DEF TypeOK, LockInv
    <2>2. receiver[lockHolder] = "sending"
      BY <2>1 DEF LockInv
    <2>3. handler[lockHolder] = "finished"
      BY <2>1, <2>2 DEF ResponseInv
    <2>4. call[lockHolder] # "write"
      BY <2>1, <2>3 DEF RequestInv
    <2> QED
      BY <2>1, <2>4 DEF MapInv
  <1>2. TunnelInv => SenderHasCall
    BY <1>1 DEF SenderHasCall
  <1> QED
    BY <1>2, TunnelInvariant, PTL

\* A sender loses its partner only by a cancelled context.
THEOREM OrphansOnlyByCancel == Spec => []OrphanOnlyByCancel
  <1>1. ASSUME TunnelInv, NEW r \in Calls, lockHolder = r, call[r] = "remove"
        PROVE  result[r] = "contextDone" /\ done["client"]
    <2> USE <1>1 DEF TunnelInv
    <2>1. receiver[r] = "sending" /\ handler[r] = "finished"
      BY DEF LockInv, ResponseInv
    <2>2. result[r] \notin Calls /\ result[r] # "none"
      BY <2>1 DEF ResultInv
    <2>3. result[r] # "writeError"
      BY <2>1 DEF RequestInv
    <2>4. result[r] = "contextDone"
      BY <2>2, <2>3 DEF TypeOK, Errors
    <2> QED
      BY <2>4 DEF ResultInv
  <1>2. TunnelInv => OrphanOnlyByCancel
    BY <1>1 DEF OrphanOnlyByCancel
  <1> QED
    BY <1>2, TunnelInvariant, PTL

-----------------------------------------------------------------------------
(* The tunnel implements BidiCall.                                         *)

LEMMA InitRefines == Init => Promise!Init
  BY DEF Init, Promise!Init, callStatus, execution

LEMMA NextRefines == TunnelInv /\ [Next]_vars => [Promise!Next]_(Promise!vars)
  <1> SUFFICES ASSUME TunnelInv, [Next]_vars
               PROVE  Promise!Next \/ UNCHANGED <<callStatus, execution>>
    BY DEF Promise!vars
  <1> USE CallsAssumption
      DEF TunnelInv, Errors, callVars, recvVars, wireVars, nodeVars, endVars
  <1>1. ASSUME UNCHANGED <<call, result>> PROVE UNCHANGED callStatus
    BY <1>1 DEF callStatus
  <1>2. ASSUME UNCHANGED handler PROVE UNCHANGED execution
    BY <1>2 DEF execution
  <1>3. ASSUME NEW r \in Calls, getResponseChan(r) PROVE Promise!Issue(r)
    BY <1>3, <1>2 DEF getResponseChan, Promise!Issue, callStatus, TypeOK
  <1>4. ASSUME NEW r \in Calls, WriteRequest(r)
        PROVE  Promise!Fail(r) \/ UNCHANGED <<callStatus, execution>>
    <2>1. UNCHANGED execution
      BY <1>4, <1>2 DEF WriteRequest
    <2>2. CASE call' = [call EXCEPT ![r] = "select"] /\ result' = result
      BY <1>4, <2>1, <2>2 DEF WriteRequest, callStatus, TypeOK
    <2>3. CASE /\ call' = [call EXCEPT ![r] = "remove"]
               /\ result' = [result EXCEPT ![r] = "writeError"]
      BY <1>4, <2>1, <2>3 DEF WriteRequest, Promise!Fail, callStatus, TypeOK
    <2> QED
      BY <1>4, <2>2, <2>3 DEF WriteRequest
  <1>5. ASSUME NEW r \in Calls, AwaitResponse(r) PROVE Promise!Answer(r)
    <2>1. handler[r] = "finished"
      BY <1>5 DEF AwaitResponse, Unlock, ResponseInv
    <2>2. UNCHANGED execution /\ execution[r] = "complete"
      BY <1>5, <1>2, <2>1 DEF AwaitResponse, Unlock, execution
    <2> QED
      BY <1>5, <2>2 DEF AwaitResponse, Unlock, Promise!Answer, callStatus, TypeOK
  <1>6. ASSUME NEW r \in Calls, AwaitContext(r) PROVE Promise!Fail(r)
    BY <1>6, <1>2 DEF AwaitContext, CtxDone, Promise!Fail, callStatus, TypeOK
  <1>7. ASSUME NEW r \in Calls, RemoveResponseChan(r)
        PROVE  UNCHANGED <<callStatus, execution>>
    BY <1>7, <1>2 DEF RemoveResponseChan, callStatus, TypeOK
  <1>8. ASSUME NEW r \in Calls, WriteResponse(r) PROVE Promise!Complete(r)
    <2>1. UNCHANGED callStatus
      BY <1>8, <1>1 DEF WriteResponse
    <2>2. \/ handler' = [handler EXCEPT ![r] = "finished"]
          \/ handler' = [handler EXCEPT ![r] = "removing"]
      BY <1>8 DEF WriteResponse
    <2>3. execution[r] = "running"
      BY <1>8 DEF WriteResponse, execution
    <2>4. execution' = [execution EXCEPT ![r] = "complete"]
      BY <2>2 DEF execution, TypeOK
    <2> QED
      BY <2>1, <2>3, <2>4 DEF Promise!Complete
  <1>9. ASSUME NEW r \in Calls, RemoveInvoker(r)
        PROVE  UNCHANGED <<callStatus, execution>>
    BY <1>9, <1>1 DEF RemoveInvoker, execution, TypeOK
  <1>10. ASSUME ReadRequest
         PROVE  \/ \E r \in Calls : Promise!Execute(r)
                \/ UNCHANGED <<callStatus, execution>>
    <2>1. UNCHANGED callStatus
      BY <1>10, <1>1 DEF ReadRequest, AfterRead
    <2>2. CASE UNCHANGED handler
      BY <2>1, <2>2, <1>2
    <2>3. CASE handler' = [handler EXCEPT ![Head(requests)] = "running"]
      <3> DEFINE r == Head(requests)
      <3>1. r \in Calls /\ r \in InFlight(requests)
        BY <1>10, TailInFlight DEF ReadRequest, AfterRead, TypeOK
      <3>2. handler[r] = "none" /\ call[r] # "idle"
        BY <3>1 DEF RequestInv
      <3> HIDE DEF r
      <3>3. callStatus[r] # "idle"
        BY <3>1, <3>2 DEF callStatus
      <3>4. /\ execution[r] = "none"
            /\ execution' = [execution EXCEPT ![r] = "running"]
        BY <2>3, <3>1, <3>2 DEF execution, TypeOK, r
      <3>5. Promise!Execute(r)
        BY <2>1, <3>3, <3>4 DEF Promise!Execute
      <3> QED
        BY <3>1, <3>5
    <2> QED
      BY <1>10, <2>2, <2>3 DEF ReadRequest, AfterRead
  <1>11. ASSUME \/ \E r \in Calls : receiveResponse(r)
                \/ \E e \in Ends : \/ DispatchCheck(e) \/ ReadError(e)
                                   \/ Close(e) \/ onClose(e)
                \/ ReadResponse \/ AddRpcHandler \/ ConnectionLost
                \/ UNCHANGED vars
         PROVE  UNCHANGED <<callStatus, execution>>
    <2>1. UNCHANGED <<call, result, handler>>
      BY <1>11 DEF receiveResponse, DispatchCheck, ReadError, Close, onClose,
         ReadResponse, AddRpcHandler, ConnectionLost, vars
    <2> QED
      BY <2>1, <1>1, <1>2
  <1> QED
    BY <1>3, <1>4, <1>5, <1>6, <1>7, <1>8, <1>9, <1>10, <1>11
       DEF Next, Invoke, Promise!Next

\* A tunnel executes a call at most once, answers it only after its own
\* execution and never changes an outcome.
THEOREM TunnelKeepsPromise == Spec => KeepsPromise
  BY InitRefines, NextRefines, TunnelInvariant, PTL
     DEF Spec, KeepsPromise, Promise!Spec
=============================================================================
