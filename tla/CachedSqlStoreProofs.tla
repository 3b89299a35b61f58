------------------------ MODULE CachedSqlStoreProofs ------------------------
(***************************************************************************)
(* The coherence of CachedSqlStore's two caches, for any set of keys, any  *)
(* number of lookups and mutations, and whatever the coalescing does.      *)
(*                                                                         *)
(* The caches are coherent because a load may write to them only while the *)
(* generation it read before its query is still the current one.  So the   *)
(* invariant speaks of loads too: rows that a load may still store are as  *)
(* good as rows that are cached already.                                   *)
(***************************************************************************)
EXTENDS CachedSqlStore, TLAPS

\* rows may be cached for k: they are what the table holds, or an invalidation of k is due.
RowsOk(k, rows) == k \in stale.keys \/ rows = ByKey(k)

\* The mapping of i to ks may be cached.
MappingOk(i, ks) ==
  \/ ks = PrimaryOf(ByIndex(i))
  \/ ks \cap stale.keys # {}
  \/ ks = {} /\ i \in stale.indexes

\* rows may be stored as the answer to a lookup of x.
LoadOk(x, rows) ==
  /\ x \in Keys => RowsOk(x, rows)
  /\ x \in Indexes => MappingOk(x, PrimaryOf(rows)) /\ \A k \in PrimaryOf(rows) : RowsOk(k, rows)

LoadsCoherent ==
  \A f \in Finders : step[f] = "store" /\ gen[f] = generation => LoadOk(key[f], loaded[f])

\* Primary and secondary keys are unique in the table.
UniqueKeys == \A r, s \in db : r.key = s.key \/ r.index = s.index => r = s

Steps == {"get", "get_primary", "execute", "recheck", "recheck_primary", "generation", "query",
          "store", "return"}

Shape ==
  /\ db \subseteq Rows
  /\ cache \in [Keys -> SUBSET SUBSET Rows]
  /\ indexes \in [Indexes -> SUBSET SUBSET Keys]
  /\ generation \in Nat
  /\ key \in [Finders -> Keys \cup Indexes]
  /\ step \in [Finders -> Steps]
  /\ gen \in [Finders -> Nat]
  /\ loaded \in [Finders -> SUBSET Rows]
  /\ primary \in [Finders -> SUBSET Keys]

\* A load reads a generation that exists.
GenerationsRead == \A f \in Finders : gen[f] <= generation

IInv ==
  Shape /\ UniqueKeys /\ GenerationsRead /\ LoadsCoherent /\ CacheCoherent /\ IndexCoherent

-----------------------------------------------------------------------------

LEMMA CacheCoherentRows ==
  CacheCoherent <=> \A k \in Keys : \A rows \in cache[k] : RowsOk(k, rows)
  BY DEF CacheCoherent, RowsOk

LEMMA IndexCoherentMappings ==
  IndexCoherent <=> \A i \in Indexes : \A ks \in indexes[i] : MappingOk(i, ks)
  BY DEF IndexCoherent, MappingOk

LEMMA RowFields ==
  ASSUME NEW r \in Rows
  PROVE  r.key \in Keys /\ r.index \in Indexes
  BY DEF Rows

LEMMA PrimaryOfRows ==
  ASSUME NEW rows \in SUBSET Rows
  PROVE  PrimaryOf(rows) \in SUBSET Keys
  BY RowFields DEF PrimaryOf

LEMMA InitInv == Init => IInv
<1> SUFFICES ASSUME Init PROVE IInv
  OBVIOUS
<1>1. Shape
  <2>1. key \in [Finders -> Keys \cup Indexes]
    BY DEF Init, SF!Init
  <2>2. db \subseteq Rows /\ generation \in Nat
    BY DEF Init
  <2>3. cache \in [Keys -> SUBSET SUBSET Rows] /\ indexes \in [Indexes -> SUBSET SUBSET Keys]
    BY DEF Init
  <2>4. step \in [Finders -> Steps] /\ gen \in [Finders -> Nat]
        /\ loaded \in [Finders -> SUBSET Rows] /\ primary \in [Finders -> SUBSET Keys]
    BY DEF Init, Steps
  <2> QED
    BY <2>1, <2>2, <2>3, <2>4 DEF Shape
<1>2. UniqueKeys /\ GenerationsRead /\ LoadsCoherent
  BY DEF Init, UniqueKeys, GenerationsRead, LoadsCoherent
<1>3. CacheCoherent /\ IndexCoherent
  BY DEF Init, CacheCoherent, IndexCoherent
<1> QED
  BY <1>1, <1>2, <1>3 DEF IInv

-----------------------------------------------------------------------------
(* Lookups                                                                 *)

\* What the table holds is a coherent answer.
LEMMA QueryCoherent ==
  ASSUME Shape, UniqueKeys, NEW x \in Keys \cup Indexes
  PROVE  LoadOk(x, IF x \in Keys THEN ByKey(x) ELSE ByIndex(x))
<1>1. CASE x \in Keys
  BY <1>1, StoreConfig DEF LoadOk, RowsOk
<1>2. CASE x \notin Keys
  <2>1. ASSUME NEW k \in PrimaryOf(ByIndex(x)) PROVE ByIndex(x) = ByKey(k)
    BY <2>1 DEF PrimaryOf, ByIndex, ByKey, UniqueKeys
  <2> QED
    BY <1>2, <2>1 DEF LoadOk, MappingOk, RowsOk
<1> QED
  BY <1>1, <1>2

\* A step of a lookup that leaves the shared state alone is harmless if every load that is about
\* to store was so before, or has just read a coherent answer.
LEMMA LookupStep ==
  ASSUME IInv, Shape', UNCHANGED <<db, cache, indexes, generation, stale, key>>,
         \A f \in Finders : gen'[f] <= generation,
         \A f \in Finders : step'[f] = "store" =>
           \/ step[f] = "store" /\ gen'[f] = gen[f] /\ loaded'[f] = loaded[f]
           \/ LoadOk(key[f], loaded'[f])
  PROVE  IInv'
<1>1. UniqueKeys' /\ GenerationsRead' /\ CacheCoherent' /\ IndexCoherent'
  BY DEF IInv, UniqueKeys, GenerationsRead, CacheCoherent, IndexCoherent, ByKey, ByIndex
<1>2. \A x, rows : LoadOk(x, rows) => LoadOk(x, rows)'
  BY DEF LoadOk, RowsOk, MappingOk, ByKey, ByIndex
<1>3. LoadsCoherent'
  BY <1>2 DEF IInv, LoadsCoherent
<1> QED
  BY <1>1, <1>3 DEF IInv

\* The steps that only read a cache, run the coalescing or end the lookup.
LEMMA ReadInv ==
  ASSUME IInv, NEW f \in Finders,
         \/ GetCached(f) \/ GetIndex(f) \/ GetPrimary(f) \/ Execute(f)
         \/ Recheck(f) \/ RecheckPrimary(f) \/ QueryFails(f) \/ Return(f) \/ Flight(f)
  PROVE  IInv'
<1>1. UNCHANGED <<db, cache, indexes, generation, stale, gen>>
  BY DEF GetCached, GetIndex, GetPrimary, Execute, Recheck, RecheckPrimary, QueryFails, Return,
         Flight, ReturnCached, Continue, Answer, store_vars, lookup_vars
<1>2. key' = key
  BY DEF GetCached, GetIndex, GetPrimary, Execute, Recheck, RecheckPrimary, QueryFails, Return,
         Flight, ReturnCached, Continue, Answer, flight_vars,
         SF!Lead, SF!Join, SF!Land, SF!Notify, SF!Deliver, SF!CancelLeader, SF!CancelWaiter
<1>3. \/ UNCHANGED <<step, loaded>>
      \/ \E s \in Steps \ {"store"} : step' = [step EXCEPT ![f] = s] /\ loaded' = loaded
      \/ \E rows \in SUBSET Rows : /\ step' = [step EXCEPT ![f] = "return"]
                                   /\ loaded' = [loaded EXCEPT ![f] = rows]
  <2>1. \A k \in Keys : \A rows \in cache[k] : rows \in SUBSET Rows
    BY DEF IInv, Shape
  <2>2. \A rows \in SUBSET Rows : Answer(f, rows) =>
          step' = [step EXCEPT ![f] = "return"] /\ loaded' = [loaded EXCEPT ![f] = rows]
    BY DEF Answer, Goto
  <2>3. CASE Recheck(f)
    BY <2>1, <2>2, <2>3 DEF Recheck, Continue, Goto, Steps
  <2>4. CASE RecheckPrimary(f)
    BY <2>1, <2>2, <2>4 DEF RecheckPrimary, Continue, Goto, Steps, IInv, Shape
  <2> QED
    BY <2>3, <2>4 DEF GetCached, GetIndex, GetPrimary, Execute, QueryFails, Return, Flight,
                      ReturnCached, Continue, Goto, lookup_vars, Steps
<1>4. primary' \in [Finders -> SUBSET Keys]
  <2>1. \/ primary' = primary
        \/ \E k \in Keys : primary' = [primary EXCEPT ![f] = {k}]
    BY DEF GetCached, GetIndex, GetPrimary, Execute, Recheck, RecheckPrimary, QueryFails, Return,
           Flight, ReturnCached, Continue, Answer, lookup_vars
  <2> QED
    BY <2>1 DEF IInv, Shape
<1>5. step' \in [Finders -> Steps] /\ loaded' \in [Finders -> SUBSET Rows]
  BY <1>3 DEF IInv, Shape, Steps
<1>6. Shape'
  BY <1>1, <1>2, <1>4, <1>5 DEF IInv, Shape
<1>7. \A g \in Finders : step'[g] = "store" =>
        step[g] = "store" /\ gen'[g] = gen[g] /\ loaded'[g] = loaded[g]
  BY <1>1, <1>3 DEF IInv, Shape
<1>8. \A g \in Finders : gen'[g] <= generation
  BY <1>1 DEF IInv, GenerationsRead
<1> QED
  BY <1>1, <1>2, <1>6, <1>7, <1>8, LookupStep

LEMMA QueryInv ==
  ASSUME IInv, NEW f \in Finders, ReadGeneration(f) \/ Query(f)
  PROVE  IInv'
<1>1. UNCHANGED <<db, cache, indexes, generation, stale, key, primary>>
  BY DEF ReadGeneration, Query, store_vars, flight_vars
<1>2. CASE ReadGeneration(f)
  <2>1. step' = [step EXCEPT ![f] = "query"] /\ gen' = [gen EXCEPT ![f] = generation]
        /\ loaded' = loaded
    BY <1>2 DEF ReadGeneration, Goto
  <2>2. Shape' /\ \A g \in Finders : gen'[g] <= generation
    BY <1>1, <2>1 DEF IInv, Shape, Steps, GenerationsRead
  <2>3. \A g \in Finders : step'[g] = "store" =>
          step[g] = "store" /\ gen'[g] = gen[g] /\ loaded'[g] = loaded[g]
    BY <2>1 DEF IInv, Shape
  <2> QED
    BY <1>1, <2>2, <2>3, LookupStep
<1>3. CASE Query(f)
  <2> DEFINE rows == IF key[f] \in Keys THEN ByKey(key[f]) ELSE ByIndex(key[f])
  <2>1. step' = [step EXCEPT ![f] = "store"] /\ gen' = gen
        /\ loaded' = [loaded EXCEPT ![f] = rows]
    BY <1>3 DEF Query, Goto
  <2>2. rows \in SUBSET Rows /\ LoadOk(key[f], rows)
    <3>1. key[f] \in Keys \cup Indexes
      BY DEF IInv, Shape
    <3>2. rows \in SUBSET Rows
      BY DEF IInv, Shape, ByKey, ByIndex
    <3> QED
      BY <3>1, <3>2, QueryCoherent DEF IInv
  <2> HIDE DEF rows
  <2>3. Shape' /\ \A g \in Finders : gen'[g] <= generation
    BY <1>1, <2>1, <2>2 DEF IInv, Shape, Steps, GenerationsRead
  <2>4. \A g \in Finders : step'[g] = "store" =>
          \/ step[g] = "store" /\ gen'[g] = gen[g] /\ loaded'[g] = loaded[g]
          \/ LoadOk(key[g], loaded'[g])
    BY <2>1, <2>2 DEF IInv, Shape
  <2> QED
    BY <1>1, <2>3, <2>4, LookupStep
<1> QED
  BY <1>2, <1>3

\* A load writes only what LoadsCoherent vouches for.
LEMMA StoreInv ==
  ASSUME IInv, NEW f \in Finders, Store(f)
  PROVE  IInv'
<1>1. /\ UNCHANGED <<db, generation, stale, key, primary, loaded>>
      /\ step[f] = "store" /\ step' = [step EXCEPT ![f] = "return"]
      /\ gen' = [gen EXCEPT ![f] = 0]
  BY DEF Store, Goto, flight_vars
<1>2. key[f] \in Keys \cup Indexes /\ loaded[f] \in SUBSET Rows
  BY DEF IInv, Shape
<1>3. /\ cache' \in [Keys -> SUBSET SUBSET Rows]
      /\ \A k \in Keys : \A rows \in cache'[k] : rows \in cache[k] \/ RowsOk(k, rows)
      /\ indexes' \in [Indexes -> SUBSET SUBSET Keys]
      /\ \A i \in Indexes : \A ks \in indexes'[i] : ks \in indexes[i] \/ MappingOk(i, ks)
  <2>1. CASE UNCHANGED <<cache, indexes>>
    BY <2>1 DEF IInv, Shape
  <2>2. CASE gen[f] = generation /\ Remember(f, loaded[f])
    <3>1. LoadOk(key[f], loaded[f])
      BY <1>1, <2>2 DEF IInv, LoadsCoherent
    <3>2. PrimaryOf(loaded[f]) \in SUBSET Keys
      BY <1>2, PrimaryOfRows
    <3>3. cache' \in [Keys -> SUBSET SUBSET Rows] /\ indexes' \in [Indexes -> SUBSET SUBSET Keys]
      BY <1>2, <2>2, <3>2 DEF Remember, IInv, Shape
    <3>4. \A k \in Keys : \A rows \in cache'[k] : rows \in cache[k] \/ RowsOk(k, rows)
      BY <1>2, <2>2, <3>1 DEF Remember, LoadOk, IInv, Shape
    <3>5. \A i \in Indexes : \A ks \in indexes'[i] : ks \in indexes[i] \/ MappingOk(i, ks)
      BY <1>2, <2>2, <3>1 DEF Remember, LoadOk, IInv, Shape
    <3> QED
      BY <3>3, <3>4, <3>5
  <2> QED
    BY <2>1, <2>2 DEF Store
<1>4. Shape' /\ UniqueKeys' /\ GenerationsRead'
  BY <1>1, <1>3 DEF IInv, Shape, Steps, UniqueKeys, GenerationsRead
<1>5. \A x, rows : /\ RowsOk(x, rows)' <=> RowsOk(x, rows)
                   /\ MappingOk(x, rows)' <=> MappingOk(x, rows)
                   /\ LoadOk(x, rows)' <=> LoadOk(x, rows)
  BY <1>1 DEF RowsOk, MappingOk, LoadOk, ByKey, ByIndex
<1>6. CacheCoherent'
  <2>1. \A k \in Keys : \A rows \in cache'[k] : RowsOk(k, rows)
    BY <1>3, CacheCoherentRows DEF IInv
  <2>2. \A k \in Keys \ stale.keys : cache'[k] \subseteq {ByKey(k)}
    BY <2>1 DEF RowsOk
  <2>3. \A k : ByKey(k)' = ByKey(k)
    BY <1>1 DEF ByKey
  <2> QED
    BY <1>1, <2>2, <2>3 DEF CacheCoherent
<1>7. IndexCoherent'
  <2>1. \A i \in Indexes : \A ks \in indexes'[i] : MappingOk(i, ks)
    BY <1>3, IndexCoherentMappings DEF IInv
  <2>2. \A i : ByIndex(i)' = ByIndex(i)
    BY <1>1 DEF ByIndex
  <2> QED
    BY <1>1, <2>1, <2>2 DEF IndexCoherent, MappingOk, PrimaryOf
<1>8. LoadsCoherent'
  BY <1>1, <1>5 DEF IInv, Shape, LoadsCoherent
<1> QED
  BY <1>4, <1>6, <1>7, <1>8 DEF IInv

-----------------------------------------------------------------------------
(* Mutations                                                               *)

\* A mutation makes stale whatever it makes wrong.
LEMMA CommitKeeps ==
  ASSUME Shape, NEW m \in Mutators, NEW k \in Keys,
         NEW to \in {{}} \cup {{r} : r \in Rows}, Commit(m, k, to)
  PROVE  /\ \A j \in Keys, rows \in SUBSET Rows : RowsOk(j, rows) => RowsOk(j, rows)'
         /\ \A i \in Indexes, ks \in SUBSET Keys : MappingOk(i, ks) => MappingOk(i, ks)'
<1>1. /\ db' = (db \ ByKey(k)) \cup to
      /\ \A r \in to : r.key = k /\ ByIndex(r.index) \subseteq ByKey(k)
      /\ stale'.keys = stale.keys \cup {k}
      /\ stale'.indexes = stale.indexes \cup Introduced(k, to)
  BY DEF Commit
<1>2. ASSUME NEW j \in Keys, NEW rows \in SUBSET Rows, RowsOk(j, rows)
      PROVE  RowsOk(j, rows)'
  <2>1. CASE j \in stale'.keys
    BY <2>1 DEF RowsOk
  <2>2. CASE j \notin stale'.keys
    <3>1. j # k /\ rows = ByKey(j)
      BY <1>1, <1>2, <2>2 DEF RowsOk
    <3>2. ByKey(j)' = ByKey(j)
      BY <1>1, <3>1 DEF ByKey
    <3> QED
      BY <3>1, <3>2 DEF RowsOk
  <2> QED
    BY <2>1, <2>2
<1>3. ASSUME NEW i \in Indexes, NEW ks \in SUBSET Keys, MappingOk(i, ks)
      PROVE  MappingOk(i, ks)'
  <2>1. CASE ks \cap stale'.keys # {}
    BY <2>1 DEF MappingOk
  <2>2. CASE ks = {} /\ i \in stale'.indexes
    BY <2>2 DEF MappingOk
  <2>3. CASE ks \cap stale'.keys = {} /\ ~(ks = {} /\ i \in stale'.indexes)
    <3>1. ks = PrimaryOf(ByIndex(i)) /\ k \notin ks
      BY <1>1, <1>3, <2>3 DEF MappingOk
    <3>2. \A r \in ByKey(k) : r.index # i
      BY <3>1 DEF PrimaryOf, ByIndex, ByKey
    <3>3. \A r \in to : r.index # i
      <4> SUFFICES ASSUME NEW r \in to, r.index = i PROVE FALSE
        OBVIOUS
      <4>1. i \in Introduced(k, to)
        BY <3>2 DEF Introduced
      <4>2. ByIndex(i) = {}
        BY <1>1, <3>2 DEF ByIndex
      <4>3. ks = {}
        BY <3>1, <4>2 DEF PrimaryOf
      <4> QED
        BY <1>1, <2>3, <4>1, <4>3
    <3>4. ByIndex(i)' = ByIndex(i)
      BY <1>1, <3>2, <3>3 DEF ByIndex
    <3> QED
      BY <3>1, <3>4 DEF MappingOk, PrimaryOf
  <2> QED
    BY <2>1, <2>2, <2>3
<1> QED
  BY <1>2, <1>3

LEMMA CommitInv ==
  ASSUME IInv, NEW m \in Mutators, NEW k \in Keys,
         NEW to \in {{}} \cup {{r} : r \in Rows}, Commit(m, k, to)
  PROVE  IInv'
<1>1. UNCHANGED <<cache, indexes, generation, key, step, primary, gen, loaded>>
  BY DEF Commit, flight_vars, lookup_vars
<1>2. /\ \A j \in Keys, rows \in SUBSET Rows : RowsOk(j, rows) => RowsOk(j, rows)'
      /\ \A i \in Indexes, ks \in SUBSET Keys : MappingOk(i, ks) => MappingOk(i, ks)'
  BY CommitKeeps DEF IInv
<1>3. Shape' /\ GenerationsRead'
  BY <1>1 DEF IInv, Shape, GenerationsRead, Commit
<1>4. UniqueKeys'
  BY DEF Commit, IInv, UniqueKeys, ByKey, ByIndex
<1>5. CacheCoherent'
  <2>1. \A j \in Keys : \A rows \in cache'[j] : RowsOk(j, rows)'
    BY <1>1, <1>2, CacheCoherentRows DEF IInv, Shape
  <2> QED
    BY <2>1 DEF CacheCoherent, RowsOk
<1>6. IndexCoherent'
  <2>1. \A i \in Indexes : \A ks \in indexes'[i] : MappingOk(i, ks)'
    BY <1>1, <1>2, IndexCoherentMappings DEF IInv, Shape
  <2> QED
    BY <2>1 DEF IndexCoherent, MappingOk
<1>7. LoadsCoherent'
  <2> SUFFICES ASSUME NEW f \in Finders, step[f] = "store", gen[f] = generation
               PROVE  LoadOk(key[f], loaded[f])'
    BY <1>1 DEF LoadsCoherent
  <2>1. LoadOk(key[f], loaded[f]) /\ loaded[f] \in SUBSET Rows
    BY DEF IInv, LoadsCoherent, Shape
  <2>2. PrimaryOf(loaded[f]) \in SUBSET Keys
    BY <2>1, PrimaryOfRows
  <2>3. ASSUME key[f] \in Keys PROVE RowsOk(key[f], loaded[f])'
    BY <1>1, <1>2, <2>1, <2>3 DEF LoadOk, RowsOk, ByKey
  <2>4. ASSUME key[f] \in Indexes PROVE MappingOk(key[f], PrimaryOf(loaded[f]))'
    BY <1>1, <1>2, <2>1, <2>2, <2>4 DEF LoadOk, MappingOk, PrimaryOf
  <2>5. ASSUME key[f] \in Indexes, NEW j \in PrimaryOf(loaded[f])
        PROVE  RowsOk(j, loaded[f])'
    BY <1>1, <1>2, <2>1, <2>2, <2>5 DEF LoadOk, RowsOk, ByKey
  <2> QED
    BY <1>1, <2>3, <2>4, <2>5 DEF LoadOk, PrimaryOf
<1> QED
  BY <1>3, <1>4, <1>5, <1>6, <1>7 DEF IInv

\* An invalidation clears what is no longer stale, and leaves no load that may still store.
LEMMA InvalidateInv ==
  ASSUME IInv, NEW ks, NEW is, Invalidate(ks, is)
  PROVE  IInv'
<1>1. /\ UNCHANGED <<db, key, step, primary, gen, loaded>>
      /\ generation' = generation + 1
      /\ cache' = [k \in Keys |-> IF k \in ks THEN {} ELSE cache[k]]
      /\ indexes' = [i \in Indexes |-> IF i \in is THEN {} ELSE {o \in indexes[i] : o \cap ks = {}}]
      /\ stale'.keys = stale.keys \ ks /\ stale'.indexes = stale.indexes \ is
  BY DEF Invalidate, flight_vars, lookup_vars
<1>2. Shape'
  BY <1>1 DEF IInv, Shape
<1>3. GenerationsRead' /\ LoadsCoherent'
  BY <1>1 DEF IInv, Shape, GenerationsRead, LoadsCoherent
<1>4. UniqueKeys'
  BY <1>1 DEF IInv, UniqueKeys
<1>5. CacheCoherent'
  BY <1>1 DEF IInv, CacheCoherent, ByKey
<1>6. IndexCoherent'
  <2> SUFFICES ASSUME NEW i \in Indexes, NEW o \in indexes'[i] PROVE MappingOk(i, o)'
    BY DEF IndexCoherent, MappingOk
  <2>1. i \notin is /\ o \in indexes[i] /\ o \cap ks = {}
    BY <1>1
  <2>2. MappingOk(i, o)
    BY <2>1, IndexCoherentMappings DEF IInv
  <2> QED
    BY <1>1, <2>1, <2>2 DEF MappingOk, PrimaryOf, ByIndex
<1> QED
  BY <1>2, <1>3, <1>4, <1>5, <1>6 DEF IInv

\* Forgetting an entry, or a mutation, takes nothing away from the coherence of the rest.
LEMMA ForgetInv ==
  ASSUME IInv,
         \/ \E m \in Mutators : Abandon(m)
         \/ \E k \in Keys : Evict(k)
         \/ \E i \in Indexes : EvictIndex(i)
         \/ UNCHANGED vars
  PROVE  IInv'
<1>1. /\ UNCHANGED <<db, generation, stale, key, step, primary, gen, loaded>>
      /\ cache' = cache \/ \E k \in Keys : cache' = [cache EXCEPT ![k] = {}]
      /\ indexes' = indexes \/ \E i \in Indexes : indexes' = [indexes EXCEPT ![i] = {}]
  BY DEF Abandon, Evict, EvictIndex, vars, store_vars, flight_vars, lookup_vars
<1>2. Shape'
  BY <1>1 DEF IInv, Shape
<1>3. UniqueKeys' /\ GenerationsRead'
  BY <1>1 DEF IInv, UniqueKeys, GenerationsRead
<1>4. CacheCoherent'
  BY <1>1 DEF IInv, Shape, CacheCoherent, ByKey
<1>5. IndexCoherent'
  BY <1>1 DEF IInv, Shape, IndexCoherent, PrimaryOf, ByIndex
<1>6. LoadsCoherent'
  <2>1. \A x, rows : LoadOk(x, rows) => LoadOk(x, rows)'
    BY <1>1 DEF LoadOk, RowsOk, MappingOk, ByKey, ByIndex
  <2> QED
    BY <1>1, <2>1 DEF IInv, LoadsCoherent
<1> QED
  BY <1>2, <1>3, <1>4, <1>5, <1>6 DEF IInv

LEMMA NextInv == IInv /\ [Next]_vars => IInv'
<1> SUFFICES ASSUME IInv, [Next]_vars PROVE IInv'
  OBVIOUS
<1>1. ASSUME NEW f \in Finders, Lookup(f) PROVE IInv'
  BY <1>1, ReadInv, QueryInv, StoreInv DEF Lookup
<1>2. ASSUME NEW m \in Mutators, NEW k \in Keys, NEW to \in {{}} \cup {{r} : r \in Rows},
             Commit(m, k, to)
      PROVE  IInv'
  BY <1>2, CommitInv
<1>3. ASSUME NEW m \in Mutators, Complete(m) PROVE IInv'
  BY <1>3, InvalidateInv DEF Complete
<1>4. ASSUME NEW k \in Keys, InvalidateKey(k) PROVE IInv'
  BY <1>4, InvalidateInv DEF InvalidateKey
<1>5. ASSUME NEW i \in Indexes, InvalidateIndex(i) PROVE IInv'
  BY <1>5, InvalidateInv DEF InvalidateIndex
<1>6. CASE \/ \E m \in Mutators : Abandon(m)
           \/ \E k \in Keys : Evict(k)
           \/ \E i \in Indexes : EvictIndex(i)
           \/ UNCHANGED vars
  BY <1>6, ForgetInv
<1> QED
  BY <1>1, <1>2, <1>3, <1>4, <1>5, <1>6 DEF Next

-----------------------------------------------------------------------------

\* The inductive invariant holds of every behaviour.
THEOREM InductiveInvariant == Spec => []IInv
  BY InitInv, NextInv, PTL DEF Spec

\* After a completed mutation find never serves what the mutation replaced from the cache: a load
\* that read the old row finds the generation advanced when it comes to store it.
THEOREM RecordsStayCoherent == Spec => []CacheCoherent
<1>1. IInv => CacheCoherent
  BY DEF IInv
<1> QED
  BY <1>1, InductiveInvariant, PTL

\* The same for the secondary index: a cached mapping, or a cached absence, that find_by_index
\* relies on is right unless a mutation that changed it has yet to invalidate.
THEOREM MappingsStayCoherent == Spec => []IndexCoherent
<1>1. IInv => IndexCoherent
  BY DEF IInv
<1> QED
  BY <1>1, InductiveInvariant, PTL
=============================================================================
