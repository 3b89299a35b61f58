----------------------------- MODULE MCStores -----------------------------
(***************************************************************************)
(* The cached SQL store and the cached Mongo collection, which has the     *)
(* same variables; a behaviour is about one of them, chosen initially.     *)
(* CacheCoherent and IndexCoherent are checked of both.                    *)
(***************************************************************************)
EXTENDS CachedSqlStore, TLC

VARIABLE focus  \* the component this behaviour is about

Mongo == INSTANCE CachedMongo WITH Finders <- {"f1"}, MaxBatch <- 2

StoreSymmetry == Permutations(Finders) \cup Permutations(Keys) \cup Permutations(Indexes)

MCInit ==
  \/ focus = "sql" /\ Init
  \/ focus = "mongo" /\ Mongo!Init
MCNext ==
  \/ focus = "sql" /\ Next /\ UNCHANGED focus
  \/ focus = "mongo" /\ Mongo!Next /\ UNCHANGED focus
MCSpec == MCInit /\ [][MCNext]_<<focus, vars>>
-----------------------------------------------------------------------------
\* The component in focus keeps its types.
TypesOK ==
  /\ focus = "sql" => TypeOK
  /\ focus = "mongo" => Mongo!TypeOK
=============================================================================
