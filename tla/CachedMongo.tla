---------------------------- MODULE CachedMongo -----------------------------
(***************************************************************************)
(* CachedMongoCollection (core/src/stores_mongo.rs): the lookups and the   *)
(* invalidations of CachedSqlStore, step by step the same, under writes of *)
(* its own: an ordered insert_many that fails half way has already         *)
(* inserted, and MongoStore::bulk_insert writes in batches past the cache. *)
(***************************************************************************)
EXTENDS Naturals, FiniteSets

CONSTANTS Keys, Indexes, Payloads, Finders, Mutators, NotFoundTtl, MaxGeneration,
  MaxBatch    \* bound: documents of one insert_many

VARIABLES
  db, cache, indexes, generation, flights, waiters, pc, key, taken, result,
  step, primary, gen, loaded, pending, stale

C == INSTANCE CachedSqlStore

lookups == <<flights, waiters, pc, key, taken, result, step, primary, gen, loaded>>
vars == <<db, cache, indexes, generation, pending, stale, lookups>>
TypeOK == C!TypeOK
Init == C!Init

find(f) == key[f] \in Keys /\ C!Lookup(f)

find_by_index(f) == key[f] \in Indexes /\ C!Lookup(f)

\* Documents with new primary and secondary keys, unique among themselves.
Insertable(docs) ==
  /\ \A d \in docs : C!ByKey(d.key) = {} /\ C!ByIndex(d.index) = {}
  /\ \A c, d \in docs : c.key = d.key \/ c.index = d.index => c = d

\* execute_indexed's operation: the database changes, and what the caller names
\* for invalidation is remembered.
Insert(m, docs, named) ==
  /\ pending[m] = C!Nothing
  /\ docs # {} /\ Insertable(docs)
  /\ db' = db \cup docs
  /\ pending' = [pending EXCEPT ![m] = named]
  /\ stale' = [keys    |-> stale.keys \cup {d.key : d \in docs},
               indexes |-> stale.indexes \cup {d.index : d \in docs}]
  /\ UNCHANGED <<cache, indexes, generation, lookups>>

Named(docs) == [keys |-> {d.key : d \in docs}, indexes |-> {d.index : d \in docs}]

insert_one(m, d) == Insert(m, {d}, Named({d}))

\* The whole list, or the part before the document that fails: then `?`
\* returns without the invalidation.
insert_many(m, docs) ==
  \/ Insert(m, docs, Named(docs))
  \/ \E done \in SUBSET docs : done # docs /\ Insert(m, done, C!Nothing)

\* update_one and replace_one keep the primary key
update_one(m, k, to) == C!ByKey(k) # {} /\ to # {} /\ C!Commit(m, k, to)

delete_one(m, k) == C!ByKey(k) # {} /\ C!Commit(m, k, {})

\* Fault: only the keys are forgotten, not the learned mappings to them.
invalidate_records(m) ==
  /\ pending[m] # C!Nothing
  /\ C!InvalidateKeysOnly(pending[m].keys, pending[m].indexes)
  /\ pending' = [pending EXCEPT ![m] = C!Nothing]

invalidate_related(m) == C!Complete(m)

execute_fails(m) == C!Abandon(m)

invalidate(k) == C!InvalidateKey(k)

invalidate_index(i) == C!InvalidateIndex(i)

\* MongoStore::bulk_insert: batch after batch, no cache involved; an error
\* leaves the earlier batches in.
bulk_insert(m, docs) == Insert(m, docs, C!Nothing)

Next ==
  \/ \E f \in Finders : find(f) \/ find_by_index(f)
  \/ \E m \in Mutators :
       \/ \E d \in C!Rows : insert_one(m, d)
       \/ \E docs \in {s \in SUBSET C!Rows : Cardinality(s) <= MaxBatch} : insert_many(m, docs) \/ bulk_insert(m, docs)
       \/ \E k \in Keys : delete_one(m, k) \/ \E d \in C!Rows : update_one(m, k, {d})
       \/ invalidate_related(m) \/ execute_fails(m)
  \/ \E k \in Keys : invalidate(k) \/ C!Evict(k)
  \/ \E i \in Indexes : invalidate_index(i) \/ C!EvictIndex(i)

Spec == Init /\ [][Next]_vars
=============================================================================
