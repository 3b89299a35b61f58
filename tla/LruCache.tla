------------------------------ MODULE LruCache ------------------------------
(***************************************************************************)
(* What a bounded cache promises: it is a sequence of entries, the least   *)
(* recently used first, at most Capacity of them; a use moves an entry to  *)
(* the end, a new entry pushes out the oldest, and an entry that has       *)
(* expired may leave whenever it is noticed but is never returned.         *)
(***************************************************************************)
EXTENDS Naturals, Sequences

CONSTANTS Keys, Values, Capacity, MaxClock

VARIABLES
  cache,    \* entries [key, value, expires]
  now,      \* the clock
  answer    \* what the last get returned: a set of at most one value

vars == <<cache, now, answer>>

Without(K) == SelectSeq(cache, LAMBDA e : e.key \notin K)
Entry(k) == {cache[i] : i \in {j \in 1..Len(cache) : cache[j].key = k}}
Newest(s) == IF Len(s) > Capacity THEN Tail(s) ELSE s

Init == cache = <<>> /\ now = 0 /\ answer = {}

Insert(k, v, ttl) ==
  /\ cache' = Newest(Append(Without({k}), [key |-> k, value |-> v, expires |-> now + ttl]))
  /\ answer' = {} /\ UNCHANGED now

\* A live entry is returned and becomes the most recent; a dead one leaves.
Get(k) ==
  \/ \E e \in Entry(k) :
       /\ e.expires > now /\ answer' = {e.value} /\ cache' = Append(Without({k}), e)
       /\ UNCHANGED now
  \/ /\ \A e \in Entry(k) : e.expires <= now
     /\ answer' = {} /\ cache' = Without({k}) /\ UNCHANGED now

Remove(K) == cache' = Without(K) /\ answer' = {} /\ UNCHANGED now
Purge == cache' = SelectSeq(cache, LAMBDA e : e.expires > now) /\ answer' = {} /\ UNCHANGED now
Tick == now < MaxClock /\ now' = now + 1 /\ UNCHANGED <<cache, answer>>

Next ==
  \/ \E k \in Keys : Get(k) \/ \E v \in Values, ttl \in 1..2 : Insert(k, v, ttl)
  \/ \E K \in SUBSET Keys : Remove(K)
  \/ Purge \/ Tick
Spec == Init /\ [][Next]_vars
=============================================================================
