----------------------------- MODULE RedisCache -----------------------------
(***************************************************************************)
(* RedisModelCache and RedisJsonCache (core/src/stores_redis.rs): cache-   *)
(* aside reads in several processes over one Redis, and writers that       *)
(* change the database and then delete the keys one command at a time.     *)
(*                                                                         *)
(* SingleFlight gives a process one leader per key, so a process is its    *)
(* leader.  An Option is a set with at most one element: cache[k] = {{}}   *)
(* is ModelCacheEntry::NotFound and {} is no entry.                        *)
(***************************************************************************)
EXTENDS Naturals, Sequences, FiniteSets

CONSTANTS
  Keys, Rows,
  Processes, Writers,
  Modes,        \* "model", "model without not_found", "json"
  MaxWrites     \* bound

VARIABLES
  mode,
  db,           \* per key: the row, an Option
  cache,        \* per key: the entry, an Option; entries expire
  fetch,        \* per process: [pc, key, value, overlapped]
  erase,        \* per writer: the keys still to delete
  writes,
  dirty,        \* history: changed, and not deleted since
  raced         \* history: stored by a fetch that a deletion overlapped

vars == <<mode, db, cache, fetch, erase, writes, dirty, raced>>

Idle == [pc |-> "idle"]

TypeOK ==
  /\ mode \in Modes
  /\ \A k \in Keys : db[k] \subseteq Rows /\ cache[k] \subseteq SUBSET Rows /\ Cardinality(cache[k]) <= 1
  /\ \A p \in Processes : fetch[p].pc \in {"idle", "get", "fetch", "set"}
  /\ erase \in [Writers -> Seq(Keys)]
  /\ dirty \subseteq Keys /\ raced \subseteq Keys

Init ==
  /\ mode \in Modes
  /\ db = [k \in Keys |-> {}]
  /\ cache = [k \in Keys |-> {}]
  /\ fetch = [p \in Processes |-> Idle]
  /\ erase = [w \in Writers |-> <<>>]
  /\ writes = 0
  /\ dirty = {} /\ raced = {}

-----------------------------------------------------------------------------
(* get_or_fetch, as the leader of its flight                               *)

Begin(p, k) ==
  /\ fetch[p] = Idle
  /\ fetch' = [fetch EXCEPT ![p] = [pc |-> "get", key |-> k, value |-> {}, overlapped |-> FALSE]]
  /\ UNCHANGED <<mode, db, cache, erase, writes, dirty, raced>>

\* A hit, an entry that does not parse or a failed GET ends the call.
Get(p) ==
  LET f == fetch[p] IN
  /\ f.pc = "get"
  /\ \/ fetch' = [fetch EXCEPT ![p] = Idle]
     \/ /\ cache[f.key] = {}
        /\ fetch' = [fetch EXCEPT ![p].pc = "fetch"]
  /\ UNCHANGED <<mode, db, cache, erase, writes, dirty, raced>>

\* The JSON cache has no entry for a missing row: its fetch fails.
Fetch(p) ==
  LET f == fetch[p] IN
  /\ f.pc = "fetch"
  /\ \/ fetch' = [fetch EXCEPT ![p] = Idle]
     \/ /\ db[f.key] # {} \/ mode = "model"
        /\ fetch' = [fetch EXCEPT ![p].pc = "set", ![p].value = db[f.key]]
     \/ /\ db[f.key] = {} /\ mode = "model without not_found"
        /\ fetch' = [fetch EXCEPT ![p] = Idle]
  /\ UNCHANGED <<mode, db, cache, erase, writes, dirty, raced>>

\* set_entry and set_json: the SET may be run though its reply is lost.
set_entry(p) ==
  LET f == fetch[p] IN
  /\ f.pc = "set"
  /\ fetch' = [fetch EXCEPT ![p] = Idle]
  /\ \/ UNCHANGED <<cache, raced>>
     \/ /\ cache' = [cache EXCEPT ![f.key] = {f.value}]
        /\ raced' = IF f.overlapped THEN raced \cup {f.key} ELSE raced \ {f.key}
  /\ UNCHANGED <<mode, db, erase, writes, dirty>>

get_or_fetch(p) == mode # "json" /\ (Get(p) \/ Fetch(p) \/ set_entry(p))

json_get_or_fetch(p) == mode = "json" /\ (Get(p) \/ Fetch(p) \/ set_entry(p))

\* jittered_ttl is positive: every entry passes
Expire(k) ==
  /\ cache[k] # {}
  /\ cache' = [cache EXCEPT ![k] = {}]
  /\ raced' = raced \ {k}
  /\ UNCHANGED <<mode, db, fetch, erase, writes, dirty>>

-----------------------------------------------------------------------------
(* a writer: the database, then invalidate(keys)                           *)

Write(w, keys, to) ==
  /\ erase[w] = <<>> /\ writes < MaxWrites
  /\ writes' = writes + 1
  /\ db' = [k \in Keys |-> IF k \in {keys[i] : i \in DOMAIN keys} THEN to ELSE db[k]]
  /\ dirty' = dirty \cup {k \in Keys : db'[k] # db[k]}
  /\ erase' = [erase EXCEPT ![w] = keys]
  /\ UNCHANGED <<mode, cache, fetch, raced>>

\* Fault: one DEL of the first key stands for the list.
invalidate_first(w) ==
  /\ erase[w] # <<>>
  /\ cache' = [cache EXCEPT ![Head(erase[w])] = {}]
  /\ dirty' = dirty \ {erase[w][i] : i \in DOMAIN erase[w]}
  /\ raced' = raced \ {Head(erase[w])}
  /\ fetch' = [p \in Processes |->
                 IF fetch[p].pc = "set" /\ fetch[p].key = Head(erase[w])
                 THEN [fetch[p] EXCEPT !.overlapped = TRUE] ELSE fetch[p]]
  /\ erase' = [erase EXCEPT ![w] = <<>>]
  /\ UNCHANGED <<mode, db, writes>>

\* one DEL per key, in order
invalidate(w) ==
  /\ erase[w] # <<>>
  /\ cache' = [cache EXCEPT ![Head(erase[w])] = {}]
  /\ dirty' = dirty \ {Head(erase[w])}
  /\ raced' = raced \ {Head(erase[w])}
  /\ fetch' = [p \in Processes |->
                 IF fetch[p].pc = "set" /\ fetch[p].key = Head(erase[w])
                 THEN [fetch[p] EXCEPT !.overlapped = TRUE] ELSE fetch[p]]
  /\ erase' = [erase EXCEPT ![w] = Tail(@)]
  /\ UNCHANGED <<mode, db, writes>>

\* A failed DEL ends invalidate with the later keys untouched.
InvalidateFails(w) ==
  /\ erase[w] # <<>>
  /\ erase' = [erase EXCEPT ![w] = <<>>]
  /\ UNCHANGED <<mode, db, cache, fetch, writes, dirty, raced>>

Next ==
  \/ \E p \in Processes : (\E k \in Keys : Begin(p, k)) \/ get_or_fetch(p) \/ json_get_or_fetch(p)
  \/ \E k \in Keys : Expire(k)
  \/ \E w \in Writers :
       \/ \E keys \in {<<k>> : k \in Keys} \cup {<<k, j>> : k \in Keys, j \in Keys}, to \in {{}} \cup {{r} : r \in Rows} :
            Write(w, keys, to)
       \/ invalidate(w) \/ InvalidateFails(w)

Spec == Init /\ [][Next]_vars

-----------------------------------------------------------------------------

\* An entry that differs from the database is there for one of three reasons:
\* the writer has not deleted its key yet, a deletion failed, or it was stored
\* by a fetch that had read its row when the key was deleted.  A fetch that reads
\* after the deletion never stores an old row, in any process.
StaleExplained ==
  \A k \in Keys \ (dirty \cup raced) : cache[k] \subseteq {db[k]}
=============================================================================
