------------------------------ MODULE LeasedMap ------------------------------
(***************************************************************************)
(* What a map with leases promises, however its timers and deletes cross:  *)
(* an entry goes only when its owner has asked for it, or after the lease  *)
(* of an item of its key has ended, as long as it was last extended to; an *)
(* item that is set and not leased again has no lease that ends.           *)
(* TimedCache.tla implements this.                                         *)
(***************************************************************************)
EXTENDS Naturals

CONSTANTS Keys, Items, NoItem,
          Lease  \* how long a lease is

VARIABLES
  map,     \* map[k]: the item of key k
  keyOf,   \* keyOf[i]: the key that item i was put under
  leased,  \* the items with a lease
  since,   \* since[i]: the time at which the lease of i was last extended
  due,     \* the keys whose entry is to go
  now      \* the time

vars == <<map, keyOf, leased, since, due, now>>

Init ==
  /\ map = [k \in Keys |-> NoItem]
  /\ keyOf = [i \in Items |-> NoItem]
  /\ since = [i \in Items |-> 0]
  /\ leased = {} /\ due = {}
  /\ now = 0

Put(k, i) ==
  /\ map[k] = NoItem /\ keyOf[i] = NoItem
  /\ map' = [map EXCEPT ![k] = i]
  /\ keyOf' = [keyOf EXCEPT ![i] = k]
  /\ UNCHANGED <<leased, since, due, now>>

\* A new value ends the lease ...
Reset(k) ==
  /\ map[k] # NoItem
  /\ leased' = leased \ {map[k]}
  /\ UNCHANGED <<map, keyOf, since, due, now>>

\* ... and this begins it anew.
Extend(k) ==
  /\ map[k] # NoItem
  /\ leased' = leased \cup {map[k]}
  /\ since' = [since EXCEPT ![map[k]] = now]
  /\ UNCHANGED <<map, keyOf, due, now>>

\* A lease ends, of an item that is in the map or has been.
Expire(i) ==
  /\ i \in leased /\ now >= since[i] + Lease
  /\ due' = due \cup {keyOf[i]}
  /\ UNCHANGED <<map, keyOf, leased, since, now>>

Ask(k) ==
  /\ map[k] # NoItem
  /\ due' = due \cup {k}
  /\ UNCHANGED <<map, keyOf, leased, since, now>>

\* More than one may be on its way to take the entry of a key.
Remove(k) ==
  /\ k \in due
  /\ map' = [map EXCEPT ![k] = NoItem]
  /\ due' \in {due, due \ {k}}
  /\ UNCHANGED <<keyOf, leased, since, now>>

Tick == now' = now + 1 /\ UNCHANGED <<map, keyOf, leased, since, due>>

Next ==
  \/ \E k \in Keys : \/ \E i \in Items : Put(k, i)
                     \/ Reset(k) \/ Extend(k) \/ Ask(k) \/ Remove(k)
  \/ \E i \in Items : Expire(i)
  \/ Tick

Spec == Init /\ [][Next]_vars
=============================================================================
