----------------------------- MODULE CacheProofs ----------------------------
(***************************************************************************)
(* Proofs about TimedCache for any number of keys and items, leases of any *)
(* length and any number of touches: CacheInv is inductive, and what the   *)
(* cache keeps of its leases follows from it.                              *)
(***************************************************************************)
EXTENDS TimedCache, TLAPS

LEMMA InitCacheInv == Init => CacheInv
  <1> SUFFICES ASSUME Init PROVE CacheInv
    OBVIOUS
  <1> USE CacheAssumption DEF Init
  <1>1. TypeOK
    BY DEF TypeOK
  <1>2. KeyInv /\ TimerInv /\ DueInv /\ DeletingInv
    BY DEF KeyInv, TimerInv, DueInv, DeletingInv, Pending, Deleters
  <1>3. LeaseHasTimer /\ RemovedWasHandled
    BY DEF LeaseHasTimer, RemovedWasHandled
  <1> QED
    BY <1>1, <1>2, <1>3 DEF CacheInv

LEMMA NextCacheInv == CacheInv /\ [Next]_vars => CacheInv'
  <1> SUFFICES ASSUME CacheInv, [Next]_vars PROVE CacheInv'
    OBVIOUS
  <1> USE CacheAssumption DEF CacheInv
  <1>1. ASSUME NEW k \in Keys, NEW i \in Items, SetNew(k, i) PROVE CacheInv'
    <2> USE <1>1 DEF SetNew, itemVars, timerVars
    <2>1. TypeOK'
      BY DEF TypeOK
    <2>2. KeyInv'
      <3>1. \A j \in Keys : cacheMap'[j] # NoItem => keyOf'[cacheMap'[j]] = j
        BY DEF KeyInv, TypeOK
      <3>2. \A j \in Items : (keyOf'[j] = NoItem => version'[j] = 0) /\ leased'[j] <= version'[j]
        BY DEF KeyInv, TypeOK
      <3>3. \A d \in deleting' : d.by # Owner => d.key = keyOf'[d.by.item]
        <4> SUFFICES ASSUME NEW d \in deleting, d.by # Owner PROVE d.key = keyOf'[d.by.item]
          OBVIOUS
        <4>1. d.key = keyOf[d.by.item] /\ d.key \in Keys /\ d.by.item \in Items
          BY DEF KeyInv, TypeOK, Deletions, Leases
        <4> QED
          BY <4>1 DEF TypeOK
      <3> QED
        BY <3>1, <3>2, <3>3 DEF KeyInv
    <2>3. TimerInv' /\ DueInv'
      BY DEF TimerInv, DueInv, Pending, Deleters, TypeOK, Leases
    <2>4. DeletingInv'
      BY DEF DeletingInv, KeyInv, TypeOK, Deletions
    <2>5. LeaseHasTimer'
      BY DEF LeaseHasTimer, Pending, Deleters, TypeOK, KeyInv
    <2>6. RemovedWasHandled'
      BY DEF RemovedWasHandled, TypeOK, KeyInv
    <2> QED
      BY <2>1, <2>2, <2>3, <2>4, <2>5, <2>6
  <1>2. ASSUME NEW k \in Keys, SetAgain(k) PROVE CacheInv'
    <2> USE <1>2 DEF SetAgain, mapVars, timerVars
    <2>0. cacheMap[k] \in Items
      BY DEF TypeOK
    <2>1. TypeOK'
      BY <2>0 DEF TypeOK
    <2>2. KeyInv'
      BY <2>0 DEF KeyInv, TypeOK, Deletions
    <2>4. DeletingInv' /\ RemovedWasHandled'
      BY DEF DeletingInv, RemovedWasHandled
    <2>3. TimerInv' /\ DueInv'
      BY <2>0 DEF TimerInv, DueInv, Pending, Deleters, TypeOK, Leases
    <2>5. LeaseHasTimer'
      <3>1. Pending' = Pending
        BY DEF Pending, Deleters
      <3>2. leased[cacheMap[k]] # version'[cacheMap[k]] \/ leased[cacheMap[k]] > version[cacheMap[k]]
        BY <2>0 DEF TypeOK
      <3>3. leased[cacheMap[k]] <= version[cacheMap[k]]
        BY <2>0 DEF KeyInv
      <3>4. ASSUME NEW j \in Keys, cacheMap[j] # NoItem, j # k
            PROVE  cacheMap[j] # cacheMap[k]
        BY <3>4, <2>0 DEF KeyInv
      <3> QED
        BY <2>0, <3>1, <3>2, <3>3, <3>4 DEF LeaseHasTimer, TypeOK
    <2> QED
      BY <2>1, <2>2, <2>3, <2>4, <2>5
  <1>3. ASSUME NEW k \in Keys, SetExpire(k) PROVE CacheInv'
    <2> DEFINE t == [item |-> cacheMap[k], version |-> version[cacheMap[k]] + 1,
                     due |-> now + Lease]
    <2> USE <1>3 DEF SetExpire, mapVars, NewVersion, Timer
    <2>0. cacheMap[k] \in Items /\ keyOf[cacheMap[k]] = k /\ timers' = timers \cup {t}
      BY DEF TypeOK, KeyInv
    <2>1. TypeOK'
      <3>1. t \in Leases
        BY <2>0 DEF TypeOK, Leases
      <3> QED
        BY <2>0, <3>1 DEF TypeOK
    <2>2. KeyInv'
      BY <2>0 DEF KeyInv, TypeOK, Deletions
    <2>3. DueInv' /\ DeletingInv' /\ RemovedWasHandled'
      BY DEF DueInv, DeletingInv, RemovedWasHandled
    <2>4. TimerInv'
      <3>1. \A u \in Pending : u.version # version'[u.item] \/ u.item # cacheMap[k]
        BY <2>0 DEF TimerInv, TypeOK
      <3>2. Pending' = Pending \cup {t}
        BY <2>0 DEF Pending, Deleters
      <3>3. \A u \in Pending : u.item \in Items
        BY DEF Pending, Deleters, TypeOK, Leases, Deletions
      <3>4. ASSUME NEW u \in Pending
            PROVE  /\ keyOf'[u.item] # NoItem
                   /\ u.version \in 1..version'[u.item]
                   /\ u.version = version'[u.item] =>
                        u.due = renewed'[u.item] + Lease /\ leased'[u.item] = version'[u.item]
        BY <2>0, <3>1, <3>3 DEF TimerInv, TypeOK
      <3>5. /\ keyOf'[t.item] # NoItem
            /\ t.version \in 1..version'[t.item]
            /\ t.version = version'[t.item] =>
                 t.due = renewed'[t.item] + Lease /\ leased'[t.item] = version'[t.item]
        BY <2>0 DEF TypeOK
      <3> QED
        BY <3>2, <3>4, <3>5 DEF TimerInv
    <2>5. LeaseHasTimer'
      <3>1. t \in Pending' /\ Pending \subseteq Pending'
        BY <2>0 DEF Pending, Deleters
      <3>2. ASSUME NEW j \in Keys, cacheMap[j] # NoItem, j # k
            PROVE  cacheMap[j] # cacheMap[k]
        BY <3>2, <2>0 DEF KeyInv
      <3> QED
        BY <2>0, <3>1, <3>2 DEF LeaseHasTimer, TypeOK
    <2> QED
      BY <2>1, <2>2, <2>3, <2>4, <2>5
  <1>4. ASSUME NEW t \in timers, TimerLapses(t) PROVE CacheInv'
    <2> USE <1>4 DEF TimerLapses, mapVars, itemVars
    <2>1. TypeOK' /\ KeyInv' /\ DueInv' /\ DeletingInv' /\ RemovedWasHandled'
      BY DEF TypeOK, KeyInv, DueInv, DeletingInv, RemovedWasHandled
    <2>2. TimerInv'
      BY DEF TimerInv, Pending, Deleters
    <2>3. LeaseHasTimer'
      BY DEF LeaseHasTimer, Pending, Deleters
    <2> QED
      BY <2>1, <2>2, <2>3
  <1>5. ASSUME NEW t \in timers, TimerExpires(t) PROVE CacheInv'
    <2> USE <1>5 DEF TimerExpires, mapVars, itemVars
    <2>1. TypeOK'
      BY DEF TypeOK, Leases
    <2>2. KeyInv' /\ DeletingInv' /\ RemovedWasHandled'
      BY DEF KeyInv, DeletingInv, RemovedWasHandled
    <2>3. DueInv'
      BY DEF DueInv
    <2>4. Pending' = Pending
      BY DEF Pending, Deleters
    <2>5. TimerInv' /\ LeaseHasTimer'
      BY <2>4 DEF TimerInv, LeaseHasTimer
    <2> QED
      BY <2>1, <2>2, <2>3, <2>5
  <1>6. ASSUME NEW k \in Keys, DeleteByOwner(k) PROVE CacheInv'
    <2> USE <1>6 DEF DeleteByOwner, DeleteHandler, Found, mapVars, itemVars, timerVars
    <2>1. TypeOK'
      BY DEF TypeOK, Deletions
    <2>2. KeyInv' /\ DueInv'
      BY DEF KeyInv, DueInv
    <2>3. DeletingInv' /\ RemovedWasHandled'
      BY DEF DeletingInv, RemovedWasHandled
    <2>4. Pending' = Pending
      BY DEF Pending, Deleters
    <2>5. TimerInv' /\ LeaseHasTimer'
      BY <2>4 DEF TimerInv, LeaseHasTimer
    <2> QED
      BY <2>1, <2>2, <2>3, <2>5
  <1>7. ASSUME NEW t \in deletes, DeleteExpired(t) PROVE CacheInv'
    <2> USE <1>7 DEF DeleteExpired, DeleteHandler, Found, mapVars, itemVars
    <2>0. /\ t \in Leases /\ t # Owner /\ t.item \in Items /\ keyOf[t.item] \in Keys
          /\ cacheMap[keyOf[t.item]] \in Items \cup {NoItem}
      BY DEF TypeOK, TimerInv, Pending, Leases
    <2>1. TypeOK'
      BY <2>0 DEF TypeOK, Deletions
    <2>2. KeyInv' /\ DueInv'
      BY DEF KeyInv, DueInv
    <2>3. DeletingInv' /\ RemovedWasHandled'
      BY DEF DeletingInv, RemovedWasHandled
    <2>4. Pending' = Pending
      <3> DEFINE e == [key |-> keyOf[t.item], by |-> t, saw |-> cacheMap[keyOf[t.item]]]
      <3>1. deleting' = deleting \cup {e} /\ e.by = t
        OBVIOUS
      <3> HIDE DEF e
      <3>2. Deleters' = Deleters \cup {t}
        BY <2>0, <3>1 DEF Deleters
      <3>3. deletes' = deletes \ {t} /\ timers' = timers
        OBVIOUS
      <3> QED
        BY <3>2, <3>3 DEF Pending
    <2>5. TimerInv' /\ LeaseHasTimer'
      BY <2>4 DEF TimerInv, LeaseHasTimer
    <2> QED
      BY <2>1, <2>2, <2>3, <2>5
  <1>8. ASSUME NEW d \in deleting, Delete(d) PROVE CacheInv'
    <2> USE <1>8 DEF Delete, itemVars, timerVars
    <2>0. d.key \in Keys
      BY DEF TypeOK, Deletions
    <2>1. TypeOK'
      BY DEF TypeOK
    <2>2. KeyInv' /\ DueInv' /\ DeletingInv'
      BY <2>0 DEF KeyInv, DueInv, DeletingInv, TypeOK, Deletions
    <2>3. RemovedWasHandled'
      BY <2>0 DEF RemovedWasHandled, DeletingInv, KeyInv, TypeOK
    <2>4. TimerInv'
      BY DEF TimerInv, Pending, Deleters
    <2>5. LeaseHasTimer'
      <3> SUFFICES ASSUME NEW k \in Keys, cacheMap'[k] # NoItem,
                          leased[cacheMap[k]] = version[cacheMap[k]], version[cacheMap[k]] > 0
                   PROVE  \E t \in Pending' : /\ t.item = cacheMap[k]
                                              /\ t.version = version[cacheMap[k]]
        BY <2>0 DEF LeaseHasTimer, TypeOK
      <3>1. k # d.key /\ cacheMap[k] # NoItem
        BY <2>0 DEF TypeOK
      <3>2. PICK t \in Pending : t.item = cacheMap[k] /\ t.version = version[cacheMap[k]]
        BY <3>1 DEF LeaseHasTimer
      <3>3. d.by # Owner => d.by # t
        BY <3>1, <3>2 DEF KeyInv
      <3>4. t \in Pending'
        BY <3>3 DEF Pending, Deleters
      <3> QED
        BY <3>2, <3>4
    <2> QED
      BY <2>1, <2>2, <2>3, <2>4, <2>5
  <1>9. CASE Tick
    <2> USE <1>9 DEF Tick, mapVars, itemVars, timerVars
    <2>1. TypeOK'
      BY DEF TypeOK
    <2>2. KeyInv' /\ DeletingInv' /\ RemovedWasHandled'
      BY DEF KeyInv, DeletingInv, RemovedWasHandled
    <2>3. DueInv'
      BY DEF DueInv, TypeOK, Leases
    <2>4. Pending' = Pending
      BY DEF Pending, Deleters
    <2>5. TimerInv' /\ LeaseHasTimer'
      BY <2>4 DEF TimerInv, LeaseHasTimer
    <2> QED
      BY <2>1, <2>2, <2>3, <2>5
  <1>10. CASE UNCHANGED vars
    BY <1>10 DEF vars, mapVars, itemVars, timerVars, TypeOK, KeyInv, TimerInv, Pending, Deleters,
       DueInv, DeletingInv, LeaseHasTimer, RemovedWasHandled
  <1> QED
    BY <1>1, <1>2, <1>3, <1>4, <1>5, <1>6, <1>7, <1>8, <1>9, <1>10 DEF Next

-----------------------------------------------------------------------------
\* Spec keeps CacheInv: the strengthening the theorems below rest on.
THEOREM CacheInvariant == Spec => []CacheInv
  BY InitCacheInv, NextCacheInv, PTL DEF Spec

\* The variables keep their types, whatever timers and Deletes of a key cross
\* (cache.go:19-36, 129-137).
THEOREM TypeCorrect == Spec => []TypeOK
  <1>1. CacheInv => TypeOK
    BY DEF CacheInv
  <1> QED
    BY <1>1, CacheInvariant, PTL

\* No timer ends a lease before its time, however often the item was renewed
\* (cache.go:19-36).
THEOREM ExpiriesAreDue == Spec => []ExpiryIsDue
  <1>1. CacheInv => ExpiryIsDue
    BY DEF CacheInv, TimerInv, DueInv, Pending, ExpiryIsDue
  <1> QED
    BY <1>1, CacheInvariant, PTL

\* An item whose last touch was SetExpire is on its way out by one timer, or one
\* Delete that it led to (cache.go:19-36, 99-111).
THEOREM LeasesHaveOneTimer == Spec => []LeaseHasOneTimer
  <1>1. CacheInv => LeaseHasOneTimer
    <2> SUFFICES ASSUME CacheInv, NEW k \in Keys, cacheMap[k] # NoItem,
                        leased[cacheMap[k]] = version[cacheMap[k]], version[cacheMap[k]] > 0
                 PROVE  LET i == cacheMap[k]
                            P == {t \in timers \cup deletes :
                                    t.item = i /\ t.version = version[i]}
                            R == {d \in deleting : d.by # Owner /\ d.by.item = i
                                                   /\ d.by.version = version[i]}
                        IN \E t \in P \cup {d.by : d \in R} : P \cup {d.by : d \in R} = {t}
      BY DEF LeaseHasOneTimer
    <2> DEFINE i == cacheMap[k]
               P == {t \in timers \cup deletes : t.item = i /\ t.version = version[i]}
               R == {d \in deleting : d.by # Owner /\ d.by.item = i /\ d.by.version = version[i]}
               B == P \cup {d.by : d \in R}
    <2>1. B = {t \in Pending : t.item = i /\ t.version = version[i]}
      BY DEF Pending, Deleters
    <2>2. PICK t \in B : TRUE
      BY <2>1 DEF CacheInv, LeaseHasTimer
    <2>3. ASSUME NEW u \in B PROVE u = t
      <3>1. u \in Leases /\ t \in Leases
        BY <2>1 DEF CacheInv, TypeOK, Pending, Deleters, Deletions
      <3>2. u.item = t.item /\ u.version = t.version
        BY <2>1
      <3>3. u.due = t.due
        BY <2>1 DEF CacheInv, TimerInv
      <3> QED
        BY <3>1, <3>2, <3>3 DEF Leases
    <2>4. B = {t}
      BY <2>2, <2>3
    <2> QED
      BY <2>4
  <1> QED
    BY <1>1, CacheInvariant, PTL

\* What has left the map was given to a handler, unless it was set while a Delete
\* of its key was running (cache.go:129-137).
THEOREM RemovedAreHandled == Spec => []RemovedWasHandled
  <1>1. CacheInv => RemovedWasHandled
    BY DEF CacheInv
  <1> QED
    BY <1>1, CacheInvariant, PTL
-----------------------------------------------------------------------------
(* The refinement of LeasedMap.                                            *)

\* What the abstract map sees of the cache.
mapView == <<cacheMap, keyOf, leasedItems, renewed, dueKeys, now>>

LEMMA InitLeases == Init => Promise!Init
  BY DEF Init, Promise!Init, leasedItems, dueKeys

LEMMA NextLeases == CacheInv /\ [Next]_vars => [Promise!Next]_mapView
  <1> SUFFICES ASSUME CacheInv, [Next]_vars PROVE Promise!Next \/ UNCHANGED mapView
    BY DEF mapView
  <1> USE CacheAssumption DEF CacheInv, mapView
  <1>1. ASSUME NEW k \in Keys, NEW i \in Items, SetNew(k, i) PROVE Promise!Put(k, i)
    <2>1. \A t \in deletes : keyOf'[t.item] = keyOf[t.item]
      <3> SUFFICES ASSUME NEW t \in deletes PROVE keyOf'[t.item] = keyOf[t.item]
        OBVIOUS
      <3>1. t.item \in Items /\ keyOf[t.item] # NoItem
        BY DEF TimerInv, Pending, TypeOK, Leases
      <3> QED
        BY <1>1, <3>1 DEF SetNew, TypeOK
    <2>2. UNCHANGED <<leasedItems, renewed, dueKeys, now>>
      BY <1>1, <2>1 DEF SetNew, leasedItems, dueKeys, itemVars, timerVars
    <2> QED
      BY <1>1, <2>2 DEF SetNew, Promise!Put
  <1>2. ASSUME NEW k \in Keys, SetAgain(k) PROVE Promise!Reset(k)
    <2>1. cacheMap[k] \in Items
      BY <1>2 DEF SetAgain, TypeOK
    <2>2. UNCHANGED <<cacheMap, keyOf, renewed, dueKeys, now>>
      BY <1>2 DEF SetAgain, dueKeys, mapVars, timerVars
    <2>3. leasedItems' = leasedItems \ {cacheMap[k]}
      <3>1. /\ version'[cacheMap[k]] = version[cacheMap[k]] + 1
            /\ leased'[cacheMap[k]] <= version[cacheMap[k]]
            /\ version[cacheMap[k]] \in Nat /\ leased'[cacheMap[k]] \in Nat
        BY <1>2, <2>1 DEF SetAgain, KeyInv, TypeOK
      <3>2. \A i \in Items : i # cacheMap[k] => UNCHANGED <<version[i], leased[i]>>
        BY <1>2, <2>1 DEF SetAgain, TypeOK
      <3> QED
        BY <2>1, <3>1, <3>2 DEF leasedItems
    <2> QED
      BY <1>2, <2>2, <2>3 DEF SetAgain, Promise!Reset
  <1>3. ASSUME NEW k \in Keys, SetExpire(k) PROVE Promise!Extend(k)
    <2>1. cacheMap[k] \in Items
      BY <1>3 DEF SetExpire, TypeOK
    <2>2. UNCHANGED <<cacheMap, keyOf, dueKeys, now>>
      BY <1>3 DEF SetExpire, dueKeys, mapVars
    <2>3. leasedItems' = leasedItems \cup {cacheMap[k]}
      <3>1. /\ version'[cacheMap[k]] = version[cacheMap[k]] + 1
            /\ leased'[cacheMap[k]] = version'[cacheMap[k]]
            /\ version[cacheMap[k]] \in Nat
        BY <1>3, <2>1 DEF SetExpire, NewVersion, TypeOK
      <3>2. \A i \in Items : i # cacheMap[k] => UNCHANGED <<version[i], leased[i]>>
        BY <1>3, <2>1 DEF SetExpire, TypeOK
      <3> QED
        BY <2>1, <3>1, <3>2 DEF leasedItems
    <2> QED
      BY <1>3, <2>2, <2>3 DEF SetExpire, Promise!Extend
  <1>4. ASSUME NEW t \in timers, TimerLapses(t) PROVE UNCHANGED mapView
    BY <1>4 DEF TimerLapses, leasedItems, dueKeys, mapVars, itemVars
  <1>5. ASSUME NEW t \in timers, TimerExpires(t) PROVE t.item \in Items /\ Promise!Expire(t.item)
    <2>1. t.item \in Items /\ t \in Pending
      BY DEF TypeOK, Leases, Pending
    <2>2. /\ t.version \in 1..version[t.item] /\ version[t.item] \in Nat
          /\ t.version = version[t.item]
          /\ t.due = renewed[t.item] + Lease /\ leased[t.item] = version[t.item]
      BY <1>5, <2>1 DEF TimerExpires, TimerInv, TypeOK
    <2>3. t.item \in leasedItems /\ now >= renewed[t.item] + Lease
      BY <1>5, <2>1, <2>2 DEF TimerExpires, leasedItems
    <2>4. dueKeys' = dueKeys \cup {keyOf[t.item]}
      BY <1>5 DEF TimerExpires, dueKeys, mapVars
    <2>5. UNCHANGED <<cacheMap, keyOf, leasedItems, renewed, now>>
      BY <1>5 DEF TimerExpires, leasedItems, mapVars, itemVars
    <2> QED
      BY <2>1, <2>3, <2>4, <2>5 DEF Promise!Expire
  <1>6. ASSUME NEW k \in Keys, DeleteByOwner(k) PROVE Promise!Ask(k)
    <2> DEFINE e == [key |-> k, by |-> Owner, saw |-> cacheMap[k]]
    <2>1. deleting' = deleting \cup {e} /\ e.key = k
      BY <1>6 DEF DeleteByOwner, DeleteHandler
    <2> HIDE DEF e
    <2>2. dueKeys' = dueKeys \cup {k}
      BY <1>6, <2>1 DEF DeleteByOwner, dueKeys, timerVars, mapVars
    <2>3. UNCHANGED <<cacheMap, keyOf, leasedItems, renewed, now>>
      BY <1>6 DEF DeleteByOwner, leasedItems, mapVars, itemVars
    <2> QED
      BY <1>6, <2>2, <2>3 DEF DeleteByOwner, Promise!Ask
  <1>7. ASSUME NEW t \in deletes, DeleteExpired(t) PROVE UNCHANGED mapView
    <2> DEFINE k == keyOf[t.item]
               e == [key |-> k, by |-> t, saw |-> cacheMap[k]]
    <2>1. deleting' = deleting \cup {e} /\ e.key = k /\ deletes' = deletes \ {t}
      BY <1>7 DEF DeleteExpired, DeleteHandler
    <2>2. UNCHANGED <<cacheMap, keyOf, leasedItems, renewed, now>>
      BY <1>7 DEF DeleteExpired, leasedItems, mapVars, itemVars
    <2> HIDE DEF e
    <2>3. dueKeys' = dueKeys
      BY <2>1, <2>2 DEF dueKeys
    <2> QED
      BY <2>2, <2>3
  <1>8. ASSUME NEW d \in deleting, Delete(d) PROVE d.key \in Keys /\ Promise!Remove(d.key)
    <2>1. d.key \in Keys /\ d.key \in dueKeys
      BY DEF TypeOK, Deletions, dueKeys
    <2>2. dueKeys' \in {dueKeys, dueKeys \ {d.key}}
      BY <1>8 DEF Delete, dueKeys, timerVars
    <2>3. UNCHANGED <<keyOf, leasedItems, renewed, now>>
      BY <1>8 DEF Delete, leasedItems, itemVars
    <2> QED
      BY <1>8, <2>1, <2>2, <2>3 DEF Delete, Promise!Remove
  <1>9. CASE Tick
    <2>1. UNCHANGED <<cacheMap, keyOf, leasedItems, renewed, dueKeys>>
      BY <1>9 DEF Tick, leasedItems, dueKeys, mapVars, itemVars, timerVars
    <2> QED
      BY <1>9, <2>1 DEF Tick, Promise!Next, Promise!Tick
  <1>10. CASE UNCHANGED vars
    BY <1>10 DEF vars, leasedItems, dueKeys, mapVars, itemVars, timerVars
  <1> QED
    BY <1>1, <1>2, <1>3, <1>4, <1>5, <1>6, <1>7, <1>8, <1>9, <1>10 DEF Next, Promise!Next

\* The cache is a map with leases: an entry goes when its owner asks for it, or
\* after a lease of its key that nothing had extended (cache.go:19-36, 99-137).
THEOREM LeasesAreKept == Spec => KeepsLeases
  <1>1. Spec => []CacheInv /\ Init /\ [][Next]_vars
    BY CacheInvariant DEF Spec
  <1>2. CacheInv /\ [Next]_vars => [Promise!Next]_<<cacheMap, keyOf, leasedItems, renewed, dueKeys, now>>
    BY NextLeases DEF mapView
  <1> QED
    BY <1>1, <1>2, InitLeases, PTL DEF KeepsLeases, Promise!Spec, Promise!vars
=============================================================================
