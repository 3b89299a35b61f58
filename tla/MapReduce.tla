------------------------------ MODULE MapReduce -----------------------------
(***************************************************************************)
(* The executor of mapreduce/src/mapreduce.rs.  The map phase spawns a job *)
(* for each input, joining one first when max_concurrent_tasks are in the  *)
(* set; the results are grouped by key in the order in which jobs were     *)
(* joined; the reduce phase does the same with a job per key.  A job may   *)
(* panic, which ends the execution, and the caller may drop it.            *)
(***************************************************************************)
EXTENDS Naturals, Sequences, FiniteSets, Functions

CONSTANTS
  Inputs,        \* the input, a sequence of items
  Mapped,        \* what map_fn gives for an item, a sequence of [key, value]
  MaxConcurrent

VARIABLES
  phase,     \* "map", "reduce", "ok", "panicked" or "dropped"
  pending,   \* items or keys that have no job yet
  running,   \* jobs that run
  finished,  \* jobs that have ended and are not joined yet: [job, ok]
  mapped,    \* what the joined map jobs gave
  grouped,   \* shuffle_phase's groups: key -> values
  reduced    \* key -> the values it was reduced from

vars == <<phase, pending, running, finished, mapped, grouped, reduced>>

jobs == Cardinality(running) + Cardinality(finished)
KeysOf(s) == {s[i].key : i \in 1..Len(s)}
InSomeOrder(S) == CHOOSE f \in [1..Cardinality(S) -> S] : IsInjective(f)
Without(s, i) == SubSeq(s, 1, i - 1) \o SubSeq(s, i + 1, Len(s))

\* the values of a key, in the order they were pushed
shuffle_phase(s) ==
  [k \in KeysOf(s) |->
     LET of == SelectSeq(s, LAMBDA e : e.key = k) IN [i \in 1..Len(of) |-> of[i].value]]

-----------------------------------------------------------------------------
\* Fault: the set is joined only once it is over the limit.
Full_late == jobs > MaxConcurrent
Full == jobs = MaxConcurrent

\* the next item or key gets a job when there is room
spawn_map ==
  /\ phase = "map" /\ pending # <<>> /\ ~Full
  /\ running' = running \cup {Head(pending)} /\ pending' = Tail(pending)
  /\ UNCHANGED <<phase, finished, mapped, grouped, reduced>>
\* the groups are taken in the order of a hash map
spawn_reduce ==
  /\ phase = "reduce" /\ pending # <<>> /\ ~Full
  /\ \E i \in 1..Len(pending) :
       running' = running \cup {pending[i]} /\ pending' = Without(pending, i)
  /\ UNCHANGED <<phase, finished, mapped, grouped, reduced>>

Finish(j) ==
  /\ j \in running /\ running' = running \ {j}
  /\ \E ok \in BOOLEAN :
       finished' = IF phase \in {"map", "reduce"} THEN finished \cup {[job |-> j, ok |-> ok]} ELSE finished
  /\ UNCHANGED <<phase, pending, mapped, grouped, reduced>>

\* join_next is awaited when the set is full, and for all once nothing is pending
Joins(e) == e \in finished /\ (Full \/ pending = <<>>)

\* The `?` on a panicked job drops the set: what is not joined is lost.
Stop(p) ==
  /\ phase' = p /\ pending' = <<>> /\ finished' = {}
  /\ UNCHANGED <<running, mapped, grouped, reduced>>

\* Fault: only the last entry of a job's output is kept.
join_map_last(e) ==
  /\ phase = "map" /\ Joins(e)
  /\ IF ~e.ok THEN Stop("panicked")
     ELSE /\ finished' = finished \ {e}
          /\ mapped' = IF Mapped[e.job] = <<>> THEN mapped ELSE Append(mapped, Mapped[e.job][Len(Mapped[e.job])])
          /\ UNCHANGED <<phase, pending, running, grouped, reduced>>

join_map(e) ==
  /\ phase = "map" /\ Joins(e)
  /\ IF ~e.ok THEN Stop("panicked")
     ELSE /\ finished' = finished \ {e} /\ mapped' = mapped \o Mapped[e.job]
          /\ UNCHANGED <<phase, pending, running, grouped, reduced>>
join_reduce(e) ==
  /\ phase = "reduce" /\ Joins(e)
  /\ IF ~e.ok THEN Stop("panicked")
     ELSE /\ finished' = finished \ {e}
          /\ reduced' = [k \in DOMAIN reduced \cup {e.job} |-> IF k = e.job THEN grouped[k] ELSE reduced[k]]
          /\ UNCHANGED <<phase, pending, running, mapped, grouped>>

\* execute goes from one phase to the next when every job is joined
execute ==
  /\ pending = <<>> /\ jobs = 0 /\ UNCHANGED <<running, finished, mapped, reduced>>
  /\ \/ /\ phase = "map" /\ phase' = "reduce" /\ grouped' = shuffle_phase(mapped)
        /\ pending' = InSomeOrder(KeysOf(mapped))
     \/ phase = "reduce" /\ phase' = "ok" /\ UNCHANGED <<pending, grouped>>
\* the caller drops the future
Drop == phase \in {"map", "reduce"} /\ Stop("dropped")

Init ==
  /\ phase = "map" /\ pending = Inputs /\ running = {} /\ finished = {}
  /\ mapped = <<>> /\ grouped = <<>> /\ reduced = <<>>
Next ==
  \/ spawn_map \/ spawn_reduce \/ execute \/ Drop
  \/ \E j \in running : Finish(j)
  \/ \E e \in finished : join_map(e) \/ join_reduce(e)
Spec == Init /\ [][Next]_vars

-----------------------------------------------------------------------------
TypeOK ==
  /\ phase \in {"map", "reduce", "ok", "panicked", "dropped"}
  /\ Len(pending) <= Len(Inputs) + Cardinality(DOMAIN grouped)

\* Never more than max_concurrent_tasks jobs run or wait to be joined.
JobsBounded == phase \in {"map", "reduce"} => jobs <= MaxConcurrent

\* What execute returns is what a sequential run gives: every key of every output,
\* reduced from each of its values exactly as often as they were emitted, in
\* whatever order the jobs ended.
ResultExact ==
  phase = "ok" =>
    LET all == FoldFunction(LAMBDA a, b : b \o a, <<>>, [i \in 1..Len(Inputs) |-> Mapped[Inputs[i]]]) IN
    /\ DOMAIN reduced = KeysOf(all)
    /\ \A k \in KeysOf(all) : \A v \in {all[i].value : i \in 1..Len(all)} :
         Cardinality({i \in 1..Len(reduced[k]) : reduced[k][i] = v})
           = Cardinality({i \in 1..Len(all) : all[i] = [key |-> k, value |-> v]})
=============================================================================
