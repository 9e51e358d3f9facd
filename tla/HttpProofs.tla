----------------------------- MODULE HttpProofs -----------------------------
(***************************************************************************)
(* Proofs about HttpTransport for any number of requests: HttpInv is       *)
(* inductive, and what requests that do not overlap can rely on follows.   *)
(***************************************************************************)
EXTENDS HttpTransport, TLAPS

\* Closing tunnels keeps the types of open and hooks, and opens nothing.
LEMMA CloseTunnelsStep ==
  ASSUME TypeOK, NEW T, CloseTunnels(T)
  PROVE  open' \subseteq open \ T /\ hooks' \subseteq Requests \ open'
  BY DEF TypeOK, CloseTunnels

LEMMA InitHttpInv == Init => HttpInv
  <1> SUFFICES ASSUME Init PROVE HttpInv
    OBVIOUS
  <1> USE TransportAssumption DEF Init, InProgress, Ended
  <1>1. TypeOK
    BY DEF TypeOK
  <1>2. MetInv /\ EntryInv /\ UseInv /\ GoInv /\ SoloInv /\ DeletingInv /\ FoundInv /\ AloneIsSafe /\ OpenIsTracked
    BY DEF MetInv, EntryInv, UseInv, GoInv, SoloInv, DeletingInv, FoundInv, Taken, AloneIsSafe, OpenIsTracked
  <1> QED
    BY <1>1, <1>2 DEF HttpInv

LEMMA NextHttpInv == HttpInv /\ [Next]_vars => HttpInv'
  <1> SUFFICES ASSUME HttpInv, [Next]_vars PROVE HttpInv'
    OBVIOUS
  <1> USE TransportAssumption DEF HttpInv, reqVars, leaseVars, cacheVars, transVars, goVars, deleteVars,
          historyVars
  <1>1. ASSUME NEW r \in Requests, Lookup(r)
        PROVE  HttpInv'
    <2> USE <1>1 DEF Lookup, Step
    <2>1. TypeOK'
      <3>1. met' \subseteq Requests
        BY DEF TypeOK, InProgress
      <3>2. (IF entry = None THEN "ask" ELSE "found") \in {"ask", "found"}
        OBVIOUS
      <3>3. req' \in [Requests -> {"ask", "found"} \cup {req[q] : q \in Requests}]
        BY <3>2 DEF TypeOK
      <3> QED
        BY <3>1, <3>3 DEF TypeOK
    <2>2. UseInv'
      BY DEF TypeOK, UseInv, EntryInv, InProgress, Ended
    <2>3. MetInv' /\ EntryInv' /\ GoInv' /\ SoloInv' /\ DeletingInv' /\ AloneIsSafe' /\ FoundInv' /\ OpenIsTracked'
      BY DEF MetInv, InProgress, EntryInv, GoInv, SoloInv, DeletingInv, AloneIsSafe, FoundInv, Taken, OpenIsTracked
    <2> QED
      BY <2>1, <2>2, <2>3
  <1>2. ASSUME NEW r \in Requests, Renew(r)
        PROVE  HttpInv'
    <2> USE <1>2 DEF Renew, Step
    <2>1. TypeOK'
      BY DEF TypeOK, Deleters
    <2>2. UseInv'
      BY DEF TypeOK, UseInv
    <2>3. MetInv' /\ EntryInv' /\ GoInv' /\ SoloInv' /\ DeletingInv' /\ AloneIsSafe' /\ FoundInv' /\ OpenIsTracked'
      BY DEF MetInv, InProgress, Ended, EntryInv, GoInv, SoloInv, DeletingInv, AloneIsSafe,
         FoundInv, Taken, OpenIsTracked
    <2> QED
      BY <2>1, <2>2, <2>3
  <1>3. ASSUME NEW r \in Requests, TargetOffline(r)
        PROVE  HttpInv'
    <2> USE <1>3 DEF TargetOffline, Step
    <2>1. TypeOK'
      BY DEF TypeOK, Ended, Deleters
    <2>2. UseInv'
      BY DEF TypeOK, UseInv, InProgress
    <2>3. MetInv' /\ EntryInv' /\ GoInv' /\ SoloInv' /\ DeletingInv' /\ AloneIsSafe' /\ FoundInv' /\ OpenIsTracked'
      BY DEF MetInv, InProgress, Ended, EntryInv, GoInv, SoloInv, DeletingInv, AloneIsSafe,
         FoundInv, Taken, OpenIsTracked
    <2> QED
      BY <2>1, <2>2, <2>3
  <1>4. ASSUME NEW r \in Requests, WriteTargetOut(r)
        PROVE  HttpInv'
    <2> USE <1>4 DEF WriteTargetOut, Step
    <2>1. TypeOK'
      BY DEF TypeOK, Deleters
    <2>2. UseInv'
      BY DEF TypeOK, UseInv
    <2>3. GoInv'
      BY DEF TypeOK, GoInv, Taken
    <2>4. SoloInv'
      BY DEF TypeOK, SoloInv
    <2>5. MetInv' /\ EntryInv' /\ DeletingInv' /\ AloneIsSafe' /\ FoundInv' /\ OpenIsTracked'
      BY DEF MetInv, InProgress, Ended, EntryInv, DeletingInv, AloneIsSafe, FoundInv, Taken, OpenIsTracked
    <2> QED
      BY <2>1, <2>2, <2>3, <2>4, <2>5
  <1>5. ASSUME NEW r \in Requests, SetTransport(r)
        PROVE  HttpInv'
    <2> USE <1>5 DEF SetTransport, Step
    <2>1. TypeOK'
      BY DEF TypeOK, Deleters
    <2>2. MetInv'
      BY DEF MetInv, InProgress, Ended
    <2>3. EntryInv'
      BY DEF TypeOK, EntryInv
    <2>4. UseInv'
      BY DEF TypeOK, UseInv
    <2>5. GoInv'
      BY DEF GoInv, Taken
    <2>6. SoloInv'
      BY DEF TypeOK, SoloInv, MetInv, InProgress, Ended
    <2>7. DeletingInv'
      BY DEF DeletingInv
    <2>8. AloneIsSafe'
      BY DEF AloneIsSafe
    <2>9. FoundInv' /\ OpenIsTracked'
      BY DEF TypeOK, FoundInv, Taken, OpenIsTracked, SoloInv, GoInv
    <2> QED
      BY <2>1, <2>2, <2>3, <2>4, <2>5, <2>6, <2>7, <2>8, <2>9
  <1>6. ASSUME NEW r \in Requests, SetExpire(r)
        PROVE  HttpInv'
    <2> USE <1>6 DEF SetExpire, Step, Awaits
    <2>1. TypeOK'
      BY DEF TypeOK, Deleters
    <2>2. UseInv'
      BY DEF TypeOK, UseInv
    <2>3. MetInv' /\ EntryInv' /\ GoInv' /\ SoloInv' /\ DeletingInv' /\ AloneIsSafe' /\ FoundInv' /\ OpenIsTracked'
      BY DEF MetInv, InProgress, Ended, EntryInv, GoInv, SoloInv, DeletingInv, AloneIsSafe,
         FoundInv, Taken, OpenIsTracked
    <2> QED
      BY <2>1, <2>2, <2>3
  <1>7. ASSUME NEW r \in Requests, Timeout(r)
        PROVE  HttpInv'
    <2> USE <1>7 DEF Timeout, Step
    <2>1. TypeOK'
      BY DEF TypeOK, Deleters
    <2>2. UseInv'
      BY DEF TypeOK, UseInv
    <2>3. MetInv' /\ EntryInv' /\ GoInv' /\ SoloInv' /\ DeletingInv' /\ AloneIsSafe' /\ FoundInv' /\ OpenIsTracked'
      BY DEF MetInv, InProgress, Ended, EntryInv, GoInv, SoloInv, DeletingInv, AloneIsSafe,
         FoundInv, Taken, OpenIsTracked
    <2> QED
      BY <2>1, <2>2, <2>3
  <1>8. ASSUME NEW r \in Requests, Decide(r)
        PROVE  HttpInv'
    <2> USE <1>8 DEF Decide, Step, HasTunnel
    <2>1. TypeOK'
      BY DEF TypeOK, Deleters
    <2>2. MetInv'
      BY DEF TypeOK, MetInv, InProgress, Ended
    <2>3. EntryInv'
      BY DEF TypeOK, EntryInv
    <2>4. UseInv'
      <3>1. CASE ~HasTunnel(r)
        <4>1. /\ req' = [req EXCEPT ![r] = "delete"] /\ toDelete' = toDelete \cup {<<r, "request">>}
              /\ UNCHANGED <<uses, conn, deleting, met>>
          BY <3>1
        <4>2. <<r, "request">> \notin toDelete \cup deleting
          BY DEF UseInv
        <4> HIDE <1>8 DEF Decide, Step
        <4> QED
          BY <4>1, <4>2 DEF UseInv, TypeOK
      <3>2. CASE HasTunnel(r)
        <4>1. /\ req' = [req EXCEPT ![r] = "trip"] /\ uses' = [uses EXCEPT ![r] = r]
              /\ conn' = [conn EXCEPT ![r] = invoker[r]] /\ invoker[r] # None
              /\ UNCHANGED <<toDelete, deleting, met>>
          BY <3>2
        <4>2. <<r, "request">> \notin toDelete \cup deleting
          BY DEF UseInv
        <4>3. /\ \A q \in Requests : conn[q] # None => conn'[q] # None
              /\ \A q \in Requests \ {r} : req'[q] = req[q] /\ uses'[q] = uses[q]
              /\ req'[r] = "trip" /\ uses'[r] = r /\ r # None /\ conn'[r] # None
          BY <4>1 DEF TypeOK
        <4>4. \A q \in Requests : req[q] \in {"found", "trip", "tripping"} => uses[q] \in Requests
          BY DEF UseInv, TypeOK
        <4>5. UNCHANGED <<toDelete, deleting, met>>
          BY <4>1
        <4> HIDE <1>8 DEF Decide, Step, HasTunnel
        <4> QED
          BY <4>2, <4>3, <4>4, <4>5 DEF UseInv
      <3> QED
        BY <3>1, <3>2
    <2>5. GoInv'
      BY DEF TypeOK, GoInv, Taken
    <2>6. SoloInv'
      BY DEF TypeOK, SoloInv
    <2>7. AloneIsSafe'
      BY DEF TypeOK, AloneIsSafe
    <2>8. DeletingInv' /\ FoundInv' /\ OpenIsTracked'
      BY DEF DeletingInv, FoundInv, Taken, OpenIsTracked
    <2> QED
      BY <2>1, <2>2, <2>3, <2>4, <2>5, <2>6, <2>7, <2>8
  <1>9. ASSUME NEW r \in Requests, NEW t \in Requests, Receive(r, t)
        PROVE  HttpInv'
    <2> USE <1>9 DEF Receive, Step
    <2>1. TypeOK'
      BY DEF TypeOK, Deleters
    <2>2. UseInv'
      BY DEF TypeOK, UseInv
    <2>3. SoloInv'
      BY DEF TypeOK, SoloInv
    <2>4. MetInv' /\ EntryInv' /\ GoInv' /\ DeletingInv' /\ AloneIsSafe' /\ FoundInv' /\ OpenIsTracked'
      BY DEF MetInv, InProgress, Ended, EntryInv, GoInv, DeletingInv, AloneIsSafe, FoundInv, Taken, OpenIsTracked
    <2> QED
      BY <2>1, <2>2, <2>3, <2>4
  <1>10. ASSUME NEW r \in Requests, RoundTrip(r)
        PROVE  HttpInv'
    <2> USE <1>10 DEF RoundTrip, Step
    <2>1. TypeOK'
      BY DEF TypeOK, Ended, Deleters
    <2>2. MetInv'
      BY DEF TypeOK, MetInv, InProgress, Ended
    <2>3. EntryInv'
      BY DEF TypeOK, EntryInv
    <2>4. UseInv'
      <3>1. req[r] = "trip" /\ req' = [req EXCEPT ![r] = req'[r]] /\ req'[r] \in {"tripping", "panicked"}
        BY DEF TypeOK
      <3>2. UNCHANGED <<uses, conn, toDelete, deleting, met>>
        OBVIOUS
      <3> HIDE <1>10 DEF RoundTrip, Step
      <3> QED
        BY <3>1, <3>2 DEF UseInv, TypeOK
    <2>5. GoInv'
      BY DEF TypeOK, GoInv, Taken
    <2>6. SoloInv'
      BY DEF TypeOK, SoloInv
    <2>7. AloneIsSafe'
      <3>1. req[r] = "trip" /\ (req'[r] = "panicked" => conn[uses[r]] = None) /\ req'[r] # "mixed"
        BY DEF TypeOK
      <3>2. \A q \in Requests \ {r} : req'[q] = req[q]
        BY DEF TypeOK
      <3>3. met' = met /\ (r \notin met => conn[uses[r]] # None)
        BY <3>1 DEF UseInv
      <3> HIDE <1>10 DEF RoundTrip, Step
      <3> QED
        BY <3>1, <3>2, <3>3 DEF AloneIsSafe
    <2>8. DeletingInv' /\ FoundInv' /\ OpenIsTracked'
      BY DEF DeletingInv, FoundInv, Taken, OpenIsTracked
    <2> QED
      BY <2>1, <2>2, <2>3, <2>4, <2>5, <2>6, <2>7, <2>8
  <1>11. ASSUME NEW r \in Requests, Answered(r)
        PROVE  HttpInv'
    <2> USE <1>11 DEF Answered, Step, Sharing
    <2>1. TypeOK'
      BY DEF TypeOK, Ended, Deleters
    <2>2. MetInv'
      BY DEF TypeOK, MetInv, InProgress, Ended
    <2>3. EntryInv'
      BY DEF TypeOK, EntryInv
    <2>4. UseInv'
      <3>1. req[r] = "tripping" /\ req' = [req EXCEPT ![r] = req'[r]] /\ req'[r] \in {"served", "mixed"}
        BY DEF TypeOK
      <3>2. UNCHANGED <<uses, conn, toDelete, deleting, met>>
        OBVIOUS
      <3> HIDE <1>11 DEF Answered, Step
      <3> QED
        BY <3>1, <3>2 DEF UseInv, TypeOK
    <2>5. GoInv'
      BY DEF TypeOK, GoInv, Taken
    <2>6. SoloInv'
      BY DEF TypeOK, SoloInv
    <2>7. AloneIsSafe'
      BY DEF TypeOK, AloneIsSafe, MetInv, InProgress, Ended
    <2>8. DeletingInv' /\ FoundInv' /\ OpenIsTracked'
      BY DEF DeletingInv, FoundInv, Taken, OpenIsTracked
    <2> QED
      BY <2>1, <2>2, <2>3, <2>4, <2>5, <2>6, <2>7, <2>8
  <1>12. ASSUME NEW r \in Requests, RoundTripFailed(r)
        PROVE  HttpInv'
    <2> USE <1>12 DEF RoundTripFailed, Step, CloseTunnels
    <2>1. TypeOK'
      BY DEF TypeOK, Deleters
    <2>2. UseInv'
      BY DEF TypeOK, UseInv
    <2>3. MetInv' /\ EntryInv' /\ GoInv' /\ SoloInv' /\ DeletingInv' /\ AloneIsSafe' /\ FoundInv' /\ OpenIsTracked'
      BY DEF MetInv, InProgress, Ended, EntryInv, GoInv, SoloInv, DeletingInv, AloneIsSafe,
         FoundInv, Taken, OpenIsTracked
    <2> QED
      BY <2>1, <2>2, <2>3
  <1>13. ASSUME NEW t \in Requests, TargetFails(t)
        PROVE  HttpInv'
    <2> USE <1>13 DEF TargetFails
    <2>1. TypeOK'
      BY DEF TypeOK, Deleters
    <2>2. MetInv' /\ EntryInv' /\ UseInv' /\ GoInv' /\ SoloInv' /\ DeletingInv' /\ AloneIsSafe' /\ FoundInv' /\ OpenIsTracked'
      BY DEF MetInv, InProgress, EntryInv, UseInv, GoInv, SoloInv, DeletingInv, AloneIsSafe,
         FoundInv, Taken, OpenIsTracked
    <2> QED
      BY <2>1, <2>2
  <1>14. ASSUME NEW t \in Requests, onInvokerTransferGo(t)
        PROVE  HttpInv'
    <2> USE <1>14 DEF onInvokerTransferGo
    <2>1. /\ go[t] = "dialing" /\ go'[t] \in {"ignored", "found"}
          /\ (go'[t] = "ignored" <=> entry = None) /\ to'[t] = entry
          /\ \A u \in Requests \ {t} : go'[u] = go[u] /\ to'[u] = to[u]
          /\ open' = open \cup {t}
      BY DEF TypeOK
    <2>2. TypeOK'
      <3>1. go' \in [Requests -> {"none", "dialing", "ignored", "found", "sending", "done"}]
        BY DEF TypeOK
      <3>2. to' \in [Requests -> Requests \cup {None}]
        BY DEF TypeOK
      <3>3. open' \subseteq Requests /\ hooks' \subseteq Requests \ open'
        BY DEF TypeOK, GoInv, Taken
      <3>4. UNCHANGED <<reqVars, cacheVars, transVars, deleteVars, historyVars>>
        OBVIOUS
      <3> HIDE <1>14 DEF onInvokerTransferGo
      <3> QED
        BY <3>1, <3>2, <3>3, <3>4 DEF TypeOK
    <2>3. GoInv'
      BY <2>1 DEF GoInv, Taken
    <2>4. SoloInv'
      BY <2>1 DEF SoloInv
    <2>5. FoundInv' /\ OpenIsTracked'
      BY <2>1 DEF TypeOK, FoundInv, OpenIsTracked, Taken
    <2>6. DeletingInv'
      <3> SUFFICES ASSUME deleting # {}, ~crossed, entry # None
                   PROVE  invoker[entry] \notin open'
        BY DEF DeletingInv
      <3> QED
        BY <2>1 DEF DeletingInv, GoInv, Taken, TypeOK
    <2>7. MetInv' /\ EntryInv' /\ UseInv' /\ AloneIsSafe'
      BY DEF MetInv, InProgress, EntryInv, UseInv, AloneIsSafe
    <2> QED
      BY <2>2, <2>3, <2>4, <2>5, <2>6, <2>7
  <1>22. ASSUME NEW t \in Requests, TakeTunnel(t)
        PROVE  HttpInv'
    <2> USE <1>22 DEF TakeTunnel
    <2>1. /\ go[t] = "found" /\ go'[t] = "sending" /\ to[t] \in Requests /\ to' = to
          /\ \A u \in Requests \ {t} : go'[u] = go[u]
          /\ invoker' = [invoker EXCEPT ![to[t]] = t] /\ open' = open
      BY DEF TypeOK, GoInv
    <2>2. TypeOK'
      <3>1. go' \in [Requests -> {"none", "dialing", "ignored", "found", "sending", "done"}]
        BY DEF TypeOK
      <3>2. invoker' \in [Requests -> Requests \cup {None}]
        BY DEF TypeOK
      <3>3. crossed' \in BOOLEAN
        BY DEF TypeOK
      <3>4. UNCHANGED <<reqVars, cacheVars, conn, to, open, hooks, deleteVars, timedOut, met>>
        OBVIOUS
      <3> HIDE <1>22 DEF TakeTunnel
      <3> QED
        BY <3>1, <3>2, <3>3, <3>4 DEF TypeOK
    <2>3. GoInv'
      BY <2>1 DEF GoInv, Taken
    <2>4. SoloInv'
      BY <2>1 DEF SoloInv
    <2>5. FoundInv'
      BY <2>1 DEF FoundInv
    <2>6. OpenIsTracked'
      <3> SUFFICES ASSUME timedOut = {}, met = {}, ~crossed', NEW u \in open', Taken(u)'
                   PROVE  entry = to'[u] /\ invoker'[entry] = u
        BY DEF OpenIsTracked
      <3>1. ~crossed /\ u \in Requests /\ u \in open
        BY DEF TypeOK
      <3>2. entry = t /\ to[t] = t
        BY <2>1, <3>1 DEF FoundInv, SoloInv
      <3>3. u = t
        BY <2>1, <3>1, <3>2 DEF OpenIsTracked, SoloInv, Taken
      <3> QED
        BY <2>1, <3>2, <3>3 DEF TypeOK
    <2>7. DeletingInv'
      BY DEF DeletingInv
    <2>8. MetInv' /\ EntryInv' /\ UseInv' /\ AloneIsSafe'
      BY DEF MetInv, InProgress, EntryInv, UseInv, AloneIsSafe
    <2> QED
      BY <2>2, <2>3, <2>4, <2>5, <2>6, <2>7, <2>8
  <1>15. ASSUME NEW t \in Requests, ConnectionLost(t)
        PROVE  HttpInv'
    <2> USE <1>15 DEF ConnectionLost, CloseTunnels
    <2>1. TypeOK'
      BY DEF TypeOK, Deleters
    <2>2. MetInv' /\ EntryInv' /\ UseInv' /\ GoInv' /\ SoloInv' /\ DeletingInv' /\ AloneIsSafe' /\ FoundInv' /\ OpenIsTracked'
      BY DEF MetInv, InProgress, EntryInv, UseInv, GoInv, SoloInv, DeletingInv, AloneIsSafe,
         FoundInv, Taken, OpenIsTracked
    <2> QED
      BY <2>1, <2>2
  <1>16. ASSUME NEW t \in Requests, OnCloseClient(t)
        PROVE  HttpInv'
    <2> USE <1>16 DEF OnCloseClient, Cached
    <2>1. TypeOK'
      BY DEF TypeOK, Deleters
    <2>2. MetInv' /\ EntryInv' /\ UseInv' /\ GoInv' /\ SoloInv' /\ DeletingInv' /\ AloneIsSafe' /\ FoundInv' /\ OpenIsTracked'
      BY DEF MetInv, InProgress, EntryInv, UseInv, GoInv, SoloInv, DeletingInv, AloneIsSafe,
         FoundInv, Taken, OpenIsTracked
    <2> QED
      BY <2>1, <2>2
  <1>17. ASSUME LeaseExpires
        PROVE  HttpInv'
    <2> USE <1>17 DEF LeaseExpires
    <2>1. TypeOK'
      BY DEF TypeOK, Deleters
    <2>2. MetInv' /\ EntryInv' /\ UseInv' /\ GoInv' /\ SoloInv' /\ DeletingInv' /\ AloneIsSafe' /\ FoundInv' /\ OpenIsTracked'
      BY DEF MetInv, InProgress, EntryInv, UseInv, GoInv, SoloInv, DeletingInv, AloneIsSafe,
         FoundInv, Taken, OpenIsTracked
    <2> QED
      BY <2>1, <2>2
  <1>18. ASSUME StrayExpires
        PROVE  HttpInv'
    <2> USE <1>18 DEF StrayExpires
    <2>1. TypeOK'
      BY DEF TypeOK, Deleters
    <2>2. MetInv' /\ EntryInv' /\ UseInv' /\ GoInv' /\ SoloInv' /\ DeletingInv' /\ AloneIsSafe' /\ FoundInv' /\ OpenIsTracked'
      BY DEF MetInv, InProgress, EntryInv, UseInv, GoInv, SoloInv, DeletingInv, AloneIsSafe,
         FoundInv, Taken, OpenIsTracked
    <2> QED
      BY <2>1, <2>2
  <1>19. ASSUME NEW d \in toDelete, DeleteHandler(d)
        PROVE  HttpInv'
    <2> USE <1>19 DEF DeleteHandler, CloseTunnels, Cached
    <2>1. TypeOK'
      BY DEF TypeOK, Deleters
    <2>2. UseInv'
      <3>1. /\ UNCHANGED <<req, uses, conn, met>>
            /\ toDelete' = toDelete \ {d} /\ deleting' = deleting \cup {d} /\ d \in toDelete
        OBVIOUS
      <3> HIDE <1>19 DEF DeleteHandler, CloseTunnels, Cached
      <3> QED
        BY <3>1 DEF UseInv
    <2>3. MetInv' /\ EntryInv' /\ GoInv' /\ SoloInv' /\ DeletingInv' /\ AloneIsSafe' /\ FoundInv' /\ OpenIsTracked'
      BY DEF MetInv, InProgress, EntryInv, GoInv, SoloInv, DeletingInv, AloneIsSafe, FoundInv, Taken, OpenIsTracked
    <2> QED
      BY <2>1, <2>2, <2>3
  <1>20. ASSUME NEW d \in deleting, Delete(d)
        PROVE  HttpInv'
    <2> USE <1>20 DEF Delete
    <2>1. TypeOK'
      BY DEF TypeOK, Ended, Deleters
    <2>2. UseInv'
      <3>1. CASE d[2] = "request"
        <4>1. d[1] \in Requests /\ d = <<d[1], "request">>
          BY <3>1 DEF TypeOK, Deleters
        <4>2. /\ req' = [req EXCEPT ![d[1]] = "failed"] /\ d \in deleting
              /\ toDelete' = toDelete /\ deleting' = deleting \ {d} /\ UNCHANGED <<uses, conn, met>>
          BY <3>1
        <4>3. <<d[1], "request">> \notin toDelete
          BY <4>1 DEF UseInv
        <4> DEFINE q == d[1]
        <4>4. q \in Requests /\ deleting' = deleting \ {<<q, "request">>} /\ <<q, "request">> \notin toDelete
              /\ req' = [req EXCEPT ![q] = "failed"]
          BY <4>1, <4>2, <4>3
        <4> HIDE <1>20 DEF Delete, q
        <4> QED
          BY <4>2, <4>4 DEF UseInv, TypeOK
      <3>2. CASE d[2] # "request"
        <4>1. req' = req /\ toDelete' = toDelete /\ deleting' \subseteq deleting /\ UNCHANGED <<uses, conn, met>>
          BY <3>2
        <4> HIDE <1>20 DEF Delete
        <4> QED
          BY <4>1 DEF UseInv
      <3> QED
        BY <3>1, <3>2
    <2>3. SoloInv'
      <3>1. UNCHANGED <<go, to, timedOut, met>> /\ entry' = None
        OBVIOUS
      <3>2. \A r \in Requests : req'[r] = req[r] \/ (req[r] = "delete" /\ req'[r] = "failed")
        <4>1. CASE d[2] = "request"
          <5>1. d[1] \in Requests /\ d = <<d[1], "request">>
            BY <4>1 DEF TypeOK, Deleters
          <5>2. req[d[1]] = "delete"
            BY <5>1 DEF UseInv
          <5> QED
            BY <4>1, <5>1, <5>2 DEF TypeOK
        <4>2. CASE d[2] # "request"
          BY <4>2
        <4> QED
          BY <4>1, <4>2
      <3> HIDE <1>20 DEF Delete
      <3> QED
        BY <3>1, <3>2 DEF SoloInv
    <2>4. GoInv'
      <3>1. \A r \in Requests : req'[r] = req[r] \/ req'[r] = "failed"
        BY DEF TypeOK
      <3>2. UNCHANGED <<go, to, open, hooks, invoker>>
        OBVIOUS
      <3> HIDE <1>20 DEF Delete
      <3> QED
        BY <3>1, <3>2 DEF GoInv, Taken
    <2>5. FoundInv' /\ OpenIsTracked'
      BY DEF FoundInv, Taken, OpenIsTracked, DeletingInv, TypeOK
    <2>6. MetInv' /\ EntryInv' /\ DeletingInv' /\ AloneIsSafe'
      BY DEF MetInv, InProgress, Ended, EntryInv, DeletingInv, AloneIsSafe
    <2> QED
      BY <2>1, <2>2, <2>3, <2>4, <2>5, <2>6
  <1>21. CASE UNCHANGED vars
    BY <1>21 DEF vars, TypeOK, MetInv, EntryInv, UseInv, GoInv, SoloInv, DeletingInv, AloneIsSafe, FoundInv, Taken,
       OpenIsTracked, InProgress
  <1> QED
    BY <1>1, <1>2, <1>3, <1>4, <1>5, <1>6, <1>7, <1>8, <1>9, <1>10, <1>11, <1>12, <1>13, <1>14, <1>15, <1>16, <1>17, <1>18, <1>19, <1>20, <1>21, <1>22 DEF Next, GetTransport

\* HttpInv holds in every reachable state of the node's proxy (node.go:42-178).
THEOREM HttpInvariant == Spec => []HttpInv
  BY InitHttpInv, NextHttpInv, PTL DEF Spec

\* The types of getTransport, of the cache and of the data tunnels
\* (node.go:42-129, 468-525).
THEOREM TypeCorrect == Spec => []TypeOK
  <1>1. HttpInv => TypeOK
    BY DEF HttpInv
  <1> QED
    BY <1>1, HttpInvariant, PTL

\* A request that was never in progress with another one of its key meets no
\* unfinished transport and no other request's answer (node.go:42-129).
THEOREM AloneAreSafe == Spec => []AloneIsSafe
  <1>1. HttpInv => AloneIsSafe
    BY DEF HttpInv
  <1> QED
    BY <1>1, HttpInvariant, PTL

\* A handler of Transfer_Go that sends its tunnel to a transport has the maker
\* of the transport at the other end of the channel (node.go:66-71, 476-488).
THEOREM HandlersHaveTaker == Spec => []HandlerHasTaker
  <1>1. HttpInv => HandlerHasTaker
    BY DEF HttpInv, SoloInv, HandlerHasTaker
  <1> QED
    BY <1>1, HttpInvariant, PTL

\* An open tunnel that a transport has taken is the invoker of the one that is
\* in the cache, where the deleteHandler finds it (node.go:168-178, 515-520).
THEOREM OpenAreTracked == Spec => []OpenIsTracked
  <1>1. HttpInv => OpenIsTracked
    BY DEF HttpInv
  <1> QED
    BY <1>1, HttpInvariant, PTL
=============================================================================
