----------------------------- MODULE MemoryCache ----------------------------
(***************************************************************************)
(* The in-process cache of core/src/cache.rs: MemoryCache, a hash map and  *)
(* a recency list under one lock, and ReadThroughCache, which looks in it, *)
(* joins or leads the flight for the key, looks again, fetches and         *)
(* inserts.  A writer changes the source of a key and then removes the key *)
(* from the cache.  Values are versions of the source.  The hit, miss,     *)
(* insertion and eviction counters, which nothing reads back, are left     *)
(* out, and a look or a change of the map is one step, as under its lock.  *)
(***************************************************************************)
EXTENDS Naturals, Sequences, FiniteSets

CONSTANTS
  Keys,
  Capacity,
  Takers,      \* callers of ReadThroughCache::take
  Ttls,        \* time to live of an entry, in ticks
  Mutable,     \* the keys whose source is ever written
  MaxVersion,  \* bound: writes of a key's source
  MaxClock     \* bound: the clock

VARIABLES
  entries,     \* key -> [value, expires]
  recency,     \* keys, the least recently used first
  clock,
  answer,      \* what the last look into the cache returned, an Option
  source,      \* key -> the version the source holds
  written,     \* keys whose source is written and that are not removed yet
  flight,      \* key -> the leader of its flight, an Option
  taker,       \* each caller of take
  overlapped   \* history: keys that were removed while their fetch ran

cache == <<entries, recency, answer>>
vars == <<entries, recency, clock, answer, source, written, flight, taker, overlapped>>

None == {}
Some(v) == {v}
Versions == 0..MaxVersion

-----------------------------------------------------------------------------
(* MemoryCache                                                             *)

\* the first position of the key, if any, is taken out
remove_from_recency(r, k) ==
  LET at == {i \in 1..Len(r) : r[i] = k} IN
  IF at = {} THEN r
  ELSE LET i == CHOOSE x \in at : \A y \in at : x <= y IN SubSeq(r, 1, i - 1) \o SubSeq(r, i + 1, Len(r))
\* the recency list without the keys of K, one after the other
RemoveAll(r, K) == SelectSeq(r, LAMBDA k : k \notin K)
Restricted(K) == [k \in DOMAIN entries \ K |-> entries[k]]

\* `while entries.len() > capacity`: keys are popped until enough are gone
Popped(e, r) ==
  LET Gone(n) == {r[i] : i \in 1..n} \cap DOMAIN e
      enough == {n \in 0..Len(r) : Cardinality(DOMAIN e) - Cardinality(Gone(n)) <= Capacity} IN
  IF enough = {} THEN Len(r) ELSE CHOOSE n \in enough : \A m \in enough : n <= m

insert(k, v, ttl) ==
  LET e == [x \in DOMAIN entries \cup {k} |->
              IF x = k THEN [value |-> v, expires |-> clock + ttl] ELSE entries[x]]
      r == Append(remove_from_recency(recency, k), k)
      n == Popped(e, r) IN
  /\ entries' = [x \in DOMAIN e \ {r[i] : i \in 1..n} |-> e[x]]
  /\ recency' = SubSeq(r, n + 1, Len(r)) /\ answer' = None

get(k) ==
  IF k \notin DOMAIN entries THEN answer' = None /\ UNCHANGED <<entries, recency>>
  ELSE IF entries[k].expires <= clock
  THEN /\ answer' = None /\ entries' = Restricted({k})
       /\ recency' = remove_from_recency(recency, k)
  ELSE /\ answer' = Some(entries[k].value) /\ UNCHANGED entries
       /\ recency' = Append(remove_from_recency(recency, k), k)

\* Fault: the key stays in the recency list.
remove_entry(K) == entries' = Restricted(K) /\ UNCHANGED recency /\ answer' = None

\* Fault: the entry stays in the map.
remove_mention(K) ==
  /\ UNCHANGED entries /\ recency' = RemoveAll(recency, K \cap DOMAIN entries) /\ answer' = None

\* remove_where and remove: those of the keys that are there
remove_where(K) ==
  /\ entries' = Restricted(K) /\ recency' = RemoveAll(recency, K \cap DOMAIN entries)
  /\ answer' = None
clear == entries' = <<>> /\ recency' = <<>> /\ answer' = None
\* len drops what has expired
len ==
  LET expired == {k \in DOMAIN entries : entries[k].expires <= clock} IN
  entries' = Restricted(expired) /\ recency' = RemoveAll(recency, expired) /\ answer' = None

-----------------------------------------------------------------------------
(* ReadThroughCache::take                                                  *)

Taking == UNCHANGED <<clock, source, written, overlapped>>
Goto(t, l) == taker' = [taker EXCEPT ![t].at = l]
Idle == [at |-> "idle", key |-> None, got |-> None]

\* the look before the flight
Look(t, k) ==
  /\ taker[t].at = "idle" /\ get(k) /\ UNCHANGED flight /\ Taking
  /\ taker' = [taker EXCEPT ![t] =
       [at |-> IF answer' = None THEN "join" ELSE "done", key |-> Some(k), got |-> answer']]
\* SingleFlight: lead the key's flight, or wait for its leader
Join(t) ==
  /\ taker[t].at = "join" /\ UNCHANGED cache /\ Taking
  /\ \E k \in taker[t].key :
       IF flight[k] = None THEN flight' = [flight EXCEPT ![k] = Some(t)] /\ Goto(t, "look")
       ELSE UNCHANGED flight /\ Goto(t, "wait")
LookAgain(t) ==
  /\ taker[t].at = "look" /\ \E k \in taker[t].key : get(k)
  /\ taker' = [taker EXCEPT ![t].at = IF answer' = None THEN "fetch" ELSE "end", ![t].got = answer']
  /\ UNCHANGED flight /\ Taking
\* the source is read; the fetch may fail
Fetch(t) ==
  /\ taker[t].at = "fetch" /\ UNCHANGED <<entries, recency, answer, flight>> /\ Taking
  /\ \E k \in taker[t].key :
       \/ taker' = [taker EXCEPT ![t].at = "insert", ![t].got = Some(source[k])]
       \/ taker' = [taker EXCEPT ![t].at = "end", ![t].got = None]
Insert(t) ==
  /\ taker[t].at = "insert" /\ Goto(t, "end") /\ UNCHANGED flight /\ Taking
  /\ \E k \in taker[t].key, v \in taker[t].got, ttl \in Ttls : insert(k, v, ttl)
\* The leader's result goes to everyone who waits; nobody leads any more.
End(t) ==
  /\ taker[t].at = "end" /\ UNCHANGED <<entries, recency, answer>> /\ Taking
  /\ \E k \in taker[t].key :
       /\ flight' = [flight EXCEPT ![k] = None]
       /\ taker' = [w \in Takers |->
            IF w = t \/ (taker[w].at = "wait" /\ taker[w].key = Some(k)) THEN Idle ELSE taker[w]]
Done(t) ==
  /\ taker[t].at = "done" /\ taker' = [taker EXCEPT ![t] = Idle]
  /\ UNCHANGED cache /\ UNCHANGED flight /\ Taking

take(t) == (\E k \in Keys : Look(t, k)) \/ Join(t) \/ LookAgain(t) \/ Fetch(t) \/ Insert(t) \/ End(t) \/ Done(t)

-----------------------------------------------------------------------------
(* writers, the clock and direct users                                     *)

\* some taker holds a value of the key it has yet to insert
Fetched(k) == \E t \in Takers : taker[t].at = "insert" /\ taker[t].key = Some(k)

Write(k) ==
  /\ k \in Mutable /\ source[k] < MaxVersion /\ k \notin written
  /\ source' = [source EXCEPT ![k] = @ + 1] /\ written' = written \cup {k}
  /\ UNCHANGED <<entries, recency, answer, clock, flight, taker, overlapped>>
RemoveWritten(k) ==
  /\ k \in written /\ remove_where({k}) /\ written' = written \ {k}
  /\ overlapped' = overlapped \cup (IF Fetched(k) THEN {k} ELSE {})
  /\ UNCHANGED <<clock, source, flight, taker>>

RemoveWhere == \E K \in SUBSET Keys : remove_where(K) /\ UNCHANGED <<clock, source, written, flight, taker, overlapped>>
Clear == clear /\ UNCHANGED <<clock, source, written, flight, taker, overlapped>>
Len_ == len /\ UNCHANGED <<clock, source, written, flight, taker, overlapped>>
Tick ==
  /\ clock < MaxClock /\ clock' = clock + 1
  /\ UNCHANGED <<entries, recency, answer, source, written, flight, taker, overlapped>>

Init ==
  /\ entries = <<>> /\ recency = <<>> /\ clock = 0 /\ answer = None
  /\ source = [k \in Keys |-> 0] /\ written = {} /\ flight = [k \in Keys |-> None]
  /\ taker = [t \in Takers |-> Idle] /\ overlapped = {}
Next ==
  \/ \E t \in Takers : take(t)
  \/ \E k \in Keys : Write(k) \/ RemoveWritten(k)
  \/ RemoveWhere \/ Clear \/ Len_ \/ Tick
Spec == Init /\ [][Next]_vars

-----------------------------------------------------------------------------
TypeOK ==
  /\ DOMAIN entries \subseteq Keys /\ clock \in 0..MaxClock /\ written \subseteq Keys
  /\ \A t \in Takers : taker[t].at \in {"idle", "join", "wait", "look", "fetch", "insert", "end", "done"}

\* The map and the recency list together are one least-recently-used cache: every
\* operation of MemoryCache is a step of LruCache, entries leave in order of use,
\* and at most Capacity stay.
Lru ==
  INSTANCE LruCache WITH
    Values <- Versions, now <- clock,
    cache <- [i \in 1..Len(recency) |->
                [key |-> recency[i],
                 value |-> IF recency[i] \in DOMAIN entries THEN entries[recency[i]].value ELSE 0,
                 expires |-> IF recency[i] \in DOMAIN entries THEN entries[recency[i]].expires ELSE 0]]
ImplementsLru == Lru!Spec

\* A version the source has replaced stays in the cache only until the writer's
\* remove, unless that remove fell between the fetch and the insert of a take:
\* ReadThroughCache does not notice it.
StaleOnlyIfOverlapped ==
  \A k \in DOMAIN entries \ (written \cup overlapped) : entries[k].value = source[k]
=============================================================================
