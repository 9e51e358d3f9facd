------------------------------ MODULE TimedCache -----------------------------
(***************************************************************************)
(* utils.Cache, the map with leases in which a node keeps its invokers and *)
(* its HTTP transports.  A method is one step where it holds mapLocker.    *)
(* The timers are not under that lock: the goroutine of a timer compares   *)
(* the version of its item and lets another goroutine call Delete; and     *)
(* Delete calls the deleteHandler before it takes the lock.                *)
(* Time is counted in ticks, and a lease is Lease ticks long.              *)
(***************************************************************************)
EXTENDS Naturals

CONSTANTS Keys,
          Items,    \* the CacheItems that may be made: a bound
          NoItem,   \* a key that is not in the map
          Owner,    \* a Delete called by the owner of the cache
          Lease,    \* the duration of every SetExpire
          Horizon,  \* the time at which the clock stops: a bound
          Touches   \* the versions an item may go through: a bound

ASSUME CacheAssumption ==
  /\ NoItem \notin Items \cup Keys
  /\ Owner \notin [item : Items, version : Nat, due : Nat]
  /\ Lease \in Nat \ {0} /\ Horizon \in Nat /\ Touches \in Nat

VARIABLES
  cacheMap,  \* cacheMap[k]: the item of key k
  keyOf,     \* keyOf[i]: the key item i was made for
  version,   \* version[i]: how often item i was set or leased
  leased,    \* leased[i]: the version SetExpire made last; 0 is none
  renewed,   \* renewed[i]: the time at which it made it
  timers,    \* the goroutines of expire that wait for their time
  deletes,   \* the goroutines of expired timers that are going to call Delete
  deleting,  \* the Delete calls between their deleteHandler and the lock
  handled,   \* the items whose expireHandler or deleteHandler was called
  now,       \* the time
  overlapped \* history: the items set while a Delete of their key was running

mapVars   == <<cacheMap, keyOf, overlapped>>
itemVars  == <<version, leased, renewed>>
timerVars == <<timers, deletes>>
vars == <<mapVars, itemVars, timerVars, deleting, handled, now>>

Leases == [item : Items, version : Nat, due : Nat]
Deletions == [key : Keys, by : Leases \cup {Owner}, saw : Items \cup {NoItem}]

TypeOK ==
  /\ cacheMap \in [Keys -> Items \cup {NoItem}]
  /\ keyOf \in [Items -> Keys \cup {NoItem}]
  /\ version \in [Items -> Nat]
  /\ leased \in [Items -> Nat]
  /\ renewed \in [Items -> Nat]
  /\ timers \subseteq Leases
  /\ deletes \subseteq Leases
  /\ deleting \subseteq Deletions
  /\ handled \subseteq Items
  /\ now \in Nat
  /\ overlapped \subseteq Items

Init ==
  /\ cacheMap = [k \in Keys |-> NoItem]
  /\ keyOf = [i \in Items |-> NoItem]
  /\ version = [i \in Items |-> 0]
  /\ leased = [i \in Items |-> 0]
  /\ renewed = [i \in Items |-> 0]
  /\ timers = {} /\ deletes = {} /\ deleting = {}
  /\ handled = {}
  /\ now = 0
  /\ overlapped = {}

-----------------------------------------------------------------------------
(* Set and SetExpire.                                                      *)

\* Set puts a new item under a free key.
SetNew(k, i) ==
  /\ cacheMap[k] = NoItem
  /\ keyOf[i] = NoItem
  /\ cacheMap' = [cacheMap EXCEPT ![k] = i]
  /\ keyOf' = [keyOf EXCEPT ![i] = k]
  /\ overlapped' = IF \E d \in deleting : d.key = k THEN overlapped \cup {i} ELSE overlapped
  /\ UNCHANGED <<itemVars, timerVars, deleting, handled, now>>

\* Set changes the value of an item and its version, so that its timer lapses.
SetAgain(k) ==
  LET i == cacheMap[k] IN
  /\ i # NoItem
  /\ version[i] < Touches
  /\ version' = [version EXCEPT ![i] = @ + 1]
  /\ UNCHANGED <<mapVars, leased, renewed, timerVars, deleting, handled, now>>

\* A slip: the lease does not change the version.
NewVersion_Same(i) == version[i]

NewVersion(i) == version[i] + 1

\* A slip: the timer is started with the version before the lease.
Timer_OldVersion(i) == {[item |-> i, version |-> version[i], due |-> now + Lease]}

\* A slip: an item that has had a timer is given no other.
Timer_First(i) ==
  IF leased[i] > 0 THEN {} ELSE {[item |-> i, version |-> NewVersion(i), due |-> now + Lease]}

Timer(i) == {[item |-> i, version |-> NewVersion(i), due |-> now + Lease]}

\* SetExpire gives the item a new version and starts a timer for it.
SetExpire(k) ==
  LET i == cacheMap[k] IN
  /\ i # NoItem
  /\ version[i] < Touches /\ now + Lease <= Horizon
  /\ version' = [version EXCEPT ![i] = NewVersion(i)]
  /\ leased' = [leased EXCEPT ![i] = NewVersion(i)]
  /\ renewed' = [renewed EXCEPT ![i] = now]
  /\ timers' = timers \cup Timer(i)
  /\ UNCHANGED <<mapVars, deletes, deleting, handled, now>>

-----------------------------------------------------------------------------
(* The timers.                                                             *)

\* A timer whose version is not the item's any more does nothing.
TimerLapses(t) ==
  /\ now >= t.due
  /\ version[t.item] # t.version
  /\ timers' = timers \ {t}
  /\ UNCHANGED <<mapVars, itemVars, deletes, deleting, handled, now>>

\* A timer with the version of its item, whether the item is still in the map
\* or not, starts a Delete of the key and calls the expireHandler.
TimerExpires(t) ==
  /\ now >= t.due
  /\ version[t.item] = t.version
  /\ timers' = timers \ {t}
  /\ deletes' = deletes \cup {t}
  /\ handled' = handled \cup {t.item}
  /\ UNCHANGED <<mapVars, itemVars, deleting, now>>

-----------------------------------------------------------------------------
(* Delete.                                                                 *)

\* A slip: Delete calls no deleteHandler.
Found_None(k) == {}

Found(k) == {cacheMap[k]} \ {NoItem}

\* The deleteHandler looks up the item that the key has at this moment.
DeleteHandler(k, by) ==
  /\ deleting' = deleting \cup {[key |-> k, by |-> by, saw |-> cacheMap[k]]}
  /\ handled' = handled \cup Found(k)

\* The owner of the cache deletes a key; calls of it for one key overlap like
\* those of expired timers do.
DeleteByOwner(k) ==
  /\ cacheMap[k] # NoItem
  /\ DeleteHandler(k, Owner)
  /\ UNCHANGED <<mapVars, itemVars, timerVars, now>>

DeleteExpired(t) ==
  /\ deletes' = deletes \ {t}
  /\ DeleteHandler(keyOf[t.item], t)
  /\ UNCHANGED <<mapVars, itemVars, timers, now>>

\* Under the lock, the entry goes whichever item it has by now; no timer stops.
Delete(d) ==
  /\ deleting' = deleting \ {d}
  /\ cacheMap' = [cacheMap EXCEPT ![d.key] = NoItem]
  /\ UNCHANGED <<keyOf, overlapped, itemVars, timerVars, handled, now>>

Tick ==
  /\ now < Horizon
  /\ now' = now + 1
  /\ UNCHANGED <<mapVars, itemVars, timerVars, deleting, handled>>

Next ==
  \/ \E k \in Keys : \/ \E i \in Items : SetNew(k, i)
                     \/ SetAgain(k) \/ SetExpire(k)
                     \/ DeleteByOwner(k)
  \/ \E t \in timers : TimerLapses(t) \/ TimerExpires(t)
  \/ \E t \in deletes : DeleteExpired(t)
  \/ \E d \in deleting : Delete(d)
  \/ Tick

Spec == Init /\ [][Next]_vars

\* Time passes and goroutines run; nobody has to call the cache.
Fairness ==
  /\ WF_vars(Tick)
  /\ WF_vars(\E t \in timers : TimerLapses(t) \/ TimerExpires(t))
  /\ WF_vars(\E t \in deletes : DeleteExpired(t))
  /\ WF_vars(\E d \in deleting : Delete(d))

FairSpec == Spec /\ Fairness

-----------------------------------------------------------------------------
(* Properties.                                                             *)

\* An expired timer deletes nothing that was renewed after it expired and
\* before its time: as long as the item has the version of the timer, its lease
\* is over (cache.go:19-36).
ExpiryIsDue ==
  \A t \in deletes : version[t.item] = t.version => now >= renewed[t.item] + Lease

\* An item in the map whose last touch was SetExpire is on its way out: exactly
\* one timer or Delete carries its version (cache.go:19-36, 99-111).
LeaseHasOneTimer ==
  \A k \in Keys :
    LET i == cacheMap[k]
        current == {t \in timers \cup deletes : t.item = i /\ t.version = version[i]}
        running == {d \in deleting : d.by # Owner /\ d.by.item = i /\ d.by.version = version[i]}
    IN i # NoItem /\ leased[i] = version[i] /\ version[i] > 0 =>
         \E t \in current \cup {d.by : d \in running} : current \cup {d.by : d \in running} = {t}

\* An item that has left the map was given to a handler, so that its invoker
\* was closed, unless it was set between the deleteHandler and the lock of a
\* Delete of its key (cache.go:129-137, node.go:515-520).
RemovedWasHandled ==
  \A i \in Items :
    keyOf[i] # NoItem /\ cacheMap[keyOf[i]] # i => i \in handled \cup overlapped

\* A leased item leaves the map, unless it is touched again
\* (cache.go:19-36, node.go:46, server.go:202).
LeaseEnds ==
  \A i \in Items : \A v \in 1..Touches :
    (leased[i] = v /\ version[i] = v) ~>
       (version[i] # v \/ \A k \in Keys : cacheMap[k] # i)

-----------------------------------------------------------------------------
(* The inductive invariant (CacheProofs).                                  *)

\* The timers, and the Delete calls they have led to.
Deleters == {d.by : d \in {d \in deleting : d.by # Owner}}
Pending == timers \cup deletes \cup Deleters

KeyInv ==
  /\ \A k \in Keys : cacheMap[k] # NoItem => keyOf[cacheMap[k]] = k
  /\ \A i \in Items : keyOf[i] = NoItem => version[i] = 0
  /\ \A i \in Items : leased[i] <= version[i]
  /\ \A d \in deleting : d.by # Owner => d.key = keyOf[d.by.item]

\* A timer belongs to an item that was set, and has a version the item has had;
\* the timer of the last version is due a lease after SetExpire made that.
TimerInv ==
  \A t \in Pending :
    /\ keyOf[t.item] # NoItem
    /\ t.version \in 1..version[t.item]
    /\ t.version = version[t.item] =>
         t.due = renewed[t.item] + Lease /\ leased[t.item] = version[t.item]

DueInv == \A t \in deletes : now >= t.due

\* What a Delete is going to take out of the map was handled.
DeletingInv ==
  \A d \in deleting : cacheMap[d.key] \in handled \cup overlapped \cup {NoItem}

LeaseHasTimer ==
  \A k \in Keys :
    LET i == cacheMap[k] IN
    i # NoItem /\ leased[i] = version[i] /\ version[i] > 0 =>
      \E t \in Pending : t.item = i /\ t.version = version[i]

CacheInv ==
  /\ TypeOK
  /\ KeyInv /\ TimerInv /\ DueInv /\ DeletingInv /\ LeaseHasTimer
  /\ RemovedWasHandled

-----------------------------------------------------------------------------
(* The cache implements a map with leases.                                 *)

\* The lease of an item ends unless it was set since SetExpire.
leasedItems == {i \in Items : version[i] > 0 /\ leased[i] = version[i]}

\* The keys that a Delete is going to take or is at.
dueKeys == {keyOf[t.item] : t \in deletes} \cup {d.key : d \in deleting}

Promise == INSTANCE LeasedMap WITH
             map <- cacheMap, leased <- leasedItems, since <- renewed, due <- dueKeys

\* However timers, renewals and Deletes cross, an entry leaves the map only when its
\* owner has asked for it or a lease of its key has ended, which it does not before
\* the time that SetExpire has last given it (cache.go:19-36, 99-137).
KeepsLeases == Promise!Spec
=============================================================================
