--------------------------- MODULE CachedSqlStore ---------------------------
(***************************************************************************)
(* CachedSqlStore of core/src/stores_sql.rs: cache-aside lookups by        *)
(* primary and by secondary key, coalesced by SingleFlight, and mutations  *)
(* that invalidate what they touched.                                      *)
(*                                                                         *)
(* The store runs over a database that other tasks change, so every read   *)
(* of a cache, of the generation and of the database is a step of its own. *)
(* A mutation is two: its effect in the database, and the invalidation     *)
(* that follows it; the caller's future may be dropped between them.       *)
(*                                                                         *)
(* An Option is a set with at most one element: {} is None.  The caches    *)
(* hold Option<row> and Option<primary key>, so cache[k] = {{}} remembers  *)
(* that k has no row and cache[k] = {} remembers nothing.  Expiry and LRU  *)
(* eviction may forget an entry at any time.                               *)
(***************************************************************************)
EXTENDS Naturals

CONSTANTS
  Keys, Indexes,     \* primary and secondary keys
  Payloads,          \* the rest of a row
  Finders, Mutators, \* tasks that look up and that mutate
  NotFoundTtl,       \* whether not_found_ttl is set
  MaxGeneration      \* bound: invalidations

ASSUME StoreConfig ==
  /\ Keys \cap Indexes = {}
  /\ NotFoundTtl \in BOOLEAN
  /\ MaxGeneration \in Nat

Rows == [key : Keys, index : Indexes, payload : Payloads]

VARIABLES
  db,                          \* the rows of the table
  cache, indexes, generation,
  flights, waiters, pc, key, taken, result,   \* flights and index_flights: disjoint keys
  step, primary, gen, loaded,  \* locals of a lookup
  pending,                     \* the keys that each mutation in progress will invalidate
  stale                        \* history: what changed since it was last invalidated

flight_vars == <<flights, waiters, pc, key, taken, result>>
lookup_vars == <<step, primary, gen, loaded>>
store_vars == <<db, cache, indexes, generation, pending, stale>>
vars == <<store_vars, flight_vars, lookup_vars>>

Ok(rows) == <<"Ok", rows>>
Err == <<"Err">>

SF == INSTANCE SingleFlight WITH
        Callers <- Finders, Keys <- Keys \cup Indexes,
        Results <- {Ok(rows) : rows \in SUBSET Rows} \cup {Err},
        LeaderCancelled <- <<"LeaderCancelled">>

\* What a query by primary or by secondary key selects: both are unique in the table.
ByKey(k) == {r \in db : r.key = k}
ByIndex(i) == {r \in db : r.index = i}
PrimaryOf(rows) == {r.key : r \in rows}

Nothing == [keys |-> {}, indexes |-> {}]

TypeOK ==
  /\ db \subseteq Rows
  /\ \A r, s \in db : r.key = s.key \/ r.index = s.index => r = s
  /\ \A k \in Keys : \A rows \in cache[k] : cache[k] = {rows} /\ rows \in SUBSET [key : {k}, index : Indexes, payload : Payloads]
  /\ \A i \in Indexes : \A ks \in indexes[i] : indexes[i] = {ks} /\ ks \in SUBSET Keys
  /\ generation \in Nat
  /\ SF!TypeOK
  /\ step \in [Finders -> {"get", "get_primary", "execute", "recheck", "recheck_primary",
                           "generation", "query", "store", "return"}]
  /\ primary \in [Finders -> SUBSET Keys]
  /\ gen \in [Finders -> Nat]
  /\ loaded \in [Finders -> SUBSET Rows]
  /\ pending \in [Mutators -> [keys : SUBSET Keys, indexes : SUBSET Indexes]]
  /\ stale \in [keys : SUBSET Keys, indexes : SUBSET Indexes]

Init ==
  /\ db = {}
  /\ cache = [k \in Keys |-> {}]
  /\ indexes = [i \in Indexes |-> {}]
  /\ generation = 0
  /\ SF!Init
  /\ step = [f \in Finders |-> "get"]
  /\ primary = [f \in Finders |-> {}]
  /\ gen = [f \in Finders |-> 0]
  /\ loaded = [f \in Finders |-> {}]
  /\ pending = [m \in Mutators |-> Nothing]
  /\ stale = Nothing

-----------------------------------------------------------------------------
(* find and find_by_index                                                  *)

Goto(f, s) == step' = [step EXCEPT ![f] = s]

\* The lookup returns a cached value without entering a flight.
ReturnCached(f, rows) ==
  /\ pc' = [pc EXCEPT ![f] = "done"]
  /\ result' = [result EXCEPT ![f] = {Ok(rows)}]
  /\ UNCHANGED <<store_vars, flights, waiters, key, taken, lookup_vars>>

\* The cached answer sends the lookup on to step s; flight_vars do not change.
Continue(f, s) ==
  /\ Goto(f, s)
  /\ UNCHANGED <<store_vars, flight_vars, primary, gen, loaded>>

\* find: the cache before the flight.
GetCached(f) ==
  /\ step[f] = "get" /\ pc[f] = "idle" /\ key[f] \in Keys
  /\ \/ \E rows \in cache[key[f]] : ReturnCached(f, rows)
     \/ cache[key[f]] = {} /\ Continue(f, "execute")

\* find_by_index: the mapping before the flight, then the record it leads to.
GetIndex(f) ==
  /\ step[f] = "get" /\ pc[f] = "idle" /\ key[f] \in Indexes
  /\ \/ indexes[key[f]] = {} /\ Continue(f, "execute")
     \/ {} \in indexes[key[f]] /\ ReturnCached(f, {})
     \/ \E k \in Keys :
          /\ {k} \in indexes[key[f]]
          /\ primary' = [primary EXCEPT ![f] = {k}]
          /\ Goto(f, "get_primary")
          /\ UNCHANGED <<store_vars, flight_vars, gen, loaded>>

GetPrimary(f) ==
  /\ step[f] = "get_primary" /\ pc[f] = "idle"
  /\ \E k \in primary[f] :
       \/ \E rows \in cache[k] : ReturnCached(f, rows)
       \/ cache[k] = {} /\ Continue(f, "execute")

Execute(f) ==
  /\ step[f] = "execute" /\ pc[f] = "idle"
  /\ \/ SF!Lead(f) /\ Goto(f, "recheck")
     \/ SF!Join(f) /\ UNCHANGED step
  /\ UNCHANGED <<store_vars, primary, gen, loaded>>

\* The leader's operation ends with rows; Return lands the flight.
Answer(f, rows) ==
  /\ loaded' = [loaded EXCEPT ![f] = rows]
  /\ Goto(f, "return")
  /\ UNCHANGED <<store_vars, flight_vars, primary, gen>>

Recheck(f) ==
  /\ step[f] = "recheck" /\ pc[f] = "leading"
  /\ \/ /\ key[f] \in Keys
        /\ \/ \E rows \in cache[key[f]] : Answer(f, rows)
           \/ cache[key[f]] = {} /\ Continue(f, "generation")
     \/ /\ key[f] \in Indexes
        /\ \/ indexes[key[f]] = {} /\ Continue(f, "generation")
           \/ {} \in indexes[key[f]] /\ Answer(f, {})
           \/ \E k \in Keys :
                /\ {k} \in indexes[key[f]]
                /\ primary' = [primary EXCEPT ![f] = {k}]
                /\ Goto(f, "recheck_primary")
                /\ UNCHANGED <<store_vars, flight_vars, gen, loaded>>

\* Only a record that exists answers the lookup here: Some(Some(value)).
RecheckPrimary(f) ==
  /\ step[f] = "recheck_primary" /\ pc[f] = "leading"
  /\ \E k \in primary[f] :
       \/ \E rows \in cache[k] : rows # {} /\ Answer(f, rows)
       \/ cache[k] \subseteq {{}} /\ Continue(f, "generation")

ReadGeneration(f) ==
  /\ step[f] = "generation" /\ pc[f] = "leading"
  /\ gen' = [gen EXCEPT ![f] = generation]
  /\ Goto(f, "query")
  /\ UNCHANGED <<store_vars, flight_vars, primary, loaded>>

Query(f) ==
  /\ step[f] = "query" /\ pc[f] = "leading"
  /\ loaded' = [loaded EXCEPT ![f] = IF key[f] \in Keys THEN ByKey(key[f]) ELSE ByIndex(key[f])]
  /\ Goto(f, "store")
  /\ UNCHANGED <<store_vars, flight_vars, primary, gen>>

\* The query returns an error, which ends the operation; nothing is cached.
QueryFails(f) ==
  /\ step[f] = "query"
  /\ SF!Land(f, Err)
  /\ UNCHANGED <<store_vars, lookup_vars>>

\* Fault: a record found by secondary key is cached under every key.
RememberEverywhere(f, rows) ==
  /\ indexes' = IF key[f] \in Indexes THEN [indexes EXCEPT ![key[f]] = {PrimaryOf(rows)}] ELSE indexes
  /\ cache' = [k \in Keys |-> IF k = key[f] \/ key[f] \in Indexes THEN {rows} ELSE cache[k]]

\* What a load of rows writes to the two caches.
Remember(f, rows) ==
  /\ indexes' = IF key[f] \in Indexes THEN [indexes EXCEPT ![key[f]] = {PrimaryOf(rows)}] ELSE indexes
  /\ cache' = IF key[f] \in Keys THEN [cache EXCEPT ![key[f]] = {rows}]
              ELSE [k \in Keys |-> IF k \in PrimaryOf(rows) THEN {rows} ELSE cache[k]]

\* Fault: the generation is not compared again under the gate.
StoreUngated(f) ==
  /\ step[f] = "store" /\ pc[f] = "leading"
  /\ Remember(f, loaded[f])
  /\ Goto(f, "return")
  /\ UNCHANGED <<db, generation, pending, stale, flight_vars, primary, gen, loaded>>

\* Under cache_gate.
Store(f) ==
  /\ step[f] = "store" /\ pc[f] = "leading"
  /\ IF gen[f] = generation /\ (loaded[f] # {} \/ NotFoundTtl)
     THEN Remember(f, loaded[f])
     ELSE UNCHANGED <<cache, indexes>>
  /\ Goto(f, "return")
  /\ gen' = [gen EXCEPT ![f] = 0]
  /\ UNCHANGED <<db, generation, pending, stale, flight_vars, primary, loaded>>

Return(f) ==
  /\ step[f] = "return"
  /\ SF!Land(f, Ok(loaded[f]))
  /\ UNCHANGED <<store_vars, lookup_vars>>

\* The rest of SingleFlight::execute, and dropped futures: a leader awaits only its query.
Flight(f) ==
  /\ \/ SF!Notify(f)
     \/ step[f] = "query" /\ SF!CancelLeader(f)
     \/ SF!CancelWaiter(f)
  /\ UNCHANGED <<store_vars, lookup_vars>>

-----------------------------------------------------------------------------
(* Mutations                                                               *)

\* The secondary keys that giving k the row(s) of to introduces.
Introduced(k, to) == {r.index : r \in to} \ {r.index : r \in ByKey(k)}

\* The operation of execute or execute_indexed inserts, replaces or deletes the row of k.  The
\* caller names k and, as execute_indexed asks, the secondary keys that the mutation introduces.
Commit(m, k, to) ==
  /\ pending[m] = Nothing
  /\ to # ByKey(k)
  /\ \A r \in to : r.key = k /\ ByIndex(r.index) \subseteq ByKey(k)
  /\ db' = (db \ ByKey(k)) \cup to
  /\ pending' = [pending EXCEPT ![m] = [keys |-> {k}, indexes |-> Introduced(k, to)]]
  /\ stale' = [keys    |-> stale.keys \cup {k},
               indexes |-> stale.indexes \cup Introduced(k, to)]
  /\ UNCHANGED <<cache, indexes, generation, flight_vars, lookup_vars>>

\* Fault: the mappings that lead to an invalidated key are left behind.
InvalidateKeysOnly(ks, is) ==
  /\ generation < MaxGeneration
  /\ generation' = generation + 1
  /\ cache' = [k \in Keys |-> IF k \in ks THEN {} ELSE cache[k]]
  /\ indexes' = [i \in Indexes |-> IF i \in is THEN {} ELSE indexes[i]]
  /\ stale' = [keys |-> stale.keys \ ks, indexes |-> stale.indexes \ is]
  /\ UNCHANGED <<db, flight_vars, lookup_vars>>

\* invalidate, invalidate_many, invalidate_index and invalidate_related, all under cache_gate:
\* advance the generation, forget the keys, the mappings to them and the secondary keys.
Invalidate(ks, is) ==
  /\ generation < MaxGeneration
  /\ generation' = generation + 1
  /\ cache' = [k \in Keys |-> IF k \in ks THEN {} ELSE cache[k]]
  /\ indexes' = [i \in Indexes |-> IF i \in is THEN {} ELSE {o \in indexes[i] : o \cap ks = {}}]
  /\ stale' = [keys |-> stale.keys \ ks, indexes |-> stale.indexes \ is]
  /\ UNCHANGED <<db, flight_vars, lookup_vars>>

\* execute and execute_indexed after the operation succeeded.
Complete(m) ==
  /\ pending[m] # Nothing
  /\ Invalidate(pending[m].keys, pending[m].indexes)
  /\ pending' = [pending EXCEPT ![m] = Nothing]

\* The mutation took effect but its future is dropped, or its operation reports an error.
Abandon(m) ==
  /\ pending[m] # Nothing
  /\ pending' = [pending EXCEPT ![m] = Nothing]
  /\ UNCHANGED <<db, cache, indexes, generation, stale, flight_vars, lookup_vars>>

\* invalidate and invalidate_index called on their own.
InvalidateKey(k) == Invalidate({k}, {}) /\ UNCHANGED pending
InvalidateIndex(i) == Invalidate({}, {i}) /\ UNCHANGED pending

\* MemoryCache forgets an entry that has expired or is the least recently used.
Evict(k) ==
  /\ cache[k] # {}
  /\ cache' = [cache EXCEPT ![k] = {}]
  /\ UNCHANGED <<db, indexes, generation, pending, stale, flight_vars, lookup_vars>>

EvictIndex(i) ==
  /\ indexes[i] # {}
  /\ indexes' = [indexes EXCEPT ![i] = {}]
  /\ UNCHANGED <<db, cache, generation, pending, stale, flight_vars, lookup_vars>>

-----------------------------------------------------------------------------

Lookup(f) ==
  \/ GetCached(f)
  \/ GetIndex(f)
  \/ GetPrimary(f)
  \/ Execute(f)
  \/ Recheck(f)
  \/ RecheckPrimary(f)
  \/ ReadGeneration(f)
  \/ Query(f)
  \/ QueryFails(f)
  \/ Store(f)
  \/ Return(f)
  \/ Flight(f)

Next ==
  \/ \E f \in Finders : Lookup(f)
  \/ \E m \in Mutators :
       \/ \E k \in Keys : \E to \in {{}} \cup {{r} : r \in Rows} : Commit(m, k, to)
       \/ Complete(m)
       \/ Abandon(m)
  \/ \E k \in Keys : InvalidateKey(k) \/ Evict(k)
  \/ \E i \in Indexes : InvalidateIndex(i) \/ EvictIndex(i)

Spec == Init /\ [][Next]_vars

-----------------------------------------------------------------------------
(* Properties                                                              *)

\* A cached record is the current one unless its row changed and no invalidation of the key has
\* happened since: once a mutation has completed, no lookup that began before it, by primary or
\* by secondary key, restores what the mutation replaced.
CacheCoherent ==
  \A k \in Keys \ stale.keys : cache[k] \subseteq {ByKey(k)}

\* A cached mapping leads to the record that has the secondary key, and a cached absence means
\* that no record has it, unless a mutation that has not invalidated yet changed that.
IndexCoherent ==
  \A i \in Indexes : \A ks \in indexes[i] :
    \/ ks = PrimaryOf(ByIndex(i))
    \/ ks \cap stale.keys # {}
    \/ ks = {} /\ i \in stale.indexes
=============================================================================
