---------------------------- MODULE LoadShedder ----------------------------
(***************************************************************************)
(* AdaptiveShedder of core/src/load.rs.                                    *)
(*                                                                         *)
(* in_flight is an atomic outside the mutex that protects the rest, so     *)
(* try_acquire is four steps with other threads in between: load           *)
(* in_flight, decide under the lock, compare-and-swap, and average the     *)
(* new load under the lock again.  Dropping a permit is two.               *)
(*                                                                         *)
(* Durations are integers.  The clock is abstracted to what the code reads *)
(* from it: how many bucket widths have passed when buckets are rotated,   *)
(* how long a permit lived, and when a cooldown is over.  CPU usage is an  *)
(* input of every decision.                                                *)
(***************************************************************************)
EXTENDS Integers, Sequences, FiniteSets, FiniteSetsExt

CONSTANTS
  Requests,        \* threads that call try_acquire and drop permits
  Modes,           \* the LoadShedderMode a shedder may be configured with
  MaxConcurrency, TargetLatency, SampleWindow, BucketDuration, BucketCount,
  Latencies,       \* how long a permit may live
  MaxCompleted     \* bound: completions counted in one bucket

ASSUME ShedderConfig ==
  /\ IsFiniteSet(Requests)
  /\ Modes \subseteq {"Latency", "CpuThroughput"}
  /\ {MaxConcurrency, TargetLatency, SampleWindow, BucketDuration, BucketCount} \subseteq Nat \ {0}
  /\ Latencies \subseteq Nat

VARIABLES
  mode,           \* of the configuration, fixed when the shedder is built
  in_flight,      \* AtomicUsize
  current_limit, sample_count, total_latency, buckets, smoothed_in_flight,
  cooling_down,   \* cooldown_until lies in the future
  pc,             \* where each thread is
  active          \* the in_flight each thread last saw

state == <<current_limit, sample_count, total_latency, buckets, smoothed_in_flight, cooling_down>>
vars == <<mode, in_flight, state, pc, active>>

EmptyBucket == [completed |-> 0, minimum_latency |-> {}]  \* {} is None, {d} is Some(d)

\* Threads whose increment of in_flight has not been undone.
Holders == {r \in Requests : pc[r] \in {"reserved", "running"}}

TypeOK ==
  /\ mode \in Modes
  /\ in_flight \in 0..MaxConcurrency
  /\ current_limit \in 1..MaxConcurrency
  /\ sample_count \in 0..(SampleWindow - 1)
  /\ total_latency \in Nat
  /\ buckets # <<>> /\ Len(buckets) <= BucketCount
  /\ \A i \in DOMAIN buckets : /\ buckets[i].completed \in 0..MaxCompleted
                               /\ buckets[i].minimum_latency \subseteq Latencies
  /\ smoothed_in_flight \in 0..MaxConcurrency
  /\ cooling_down \in BOOLEAN
  /\ pc \in [Requests -> {"idle", "loaded", "checked", "reserved", "running", "released"}]
  /\ active \in [Requests -> 0..MaxConcurrency]

Init ==
  /\ mode \in Modes
  /\ in_flight = 0
  /\ current_limit = MaxConcurrency
  /\ sample_count = 0
  /\ total_latency = 0
  /\ buckets = <<EmptyBucket>>
  /\ smoothed_in_flight = 0
  /\ cooling_down = FALSE
  /\ pc = [r \in Requests |-> "idle"]
  /\ active = [r \in Requests |-> 0]

-----------------------------------------------------------------------------
(* Helpers that run under the lock                                         *)

\* rotate_buckets when steps bucket widths have passed since the latest bucket began; a longer
\* gap has the effect of BucketCount.
Rotated(bs, steps) ==
  IF steps >= BucketCount
  THEN <<EmptyBucket>>
  ELSE LET grown == bs \o [i \in 1..steps |-> EmptyBucket]
           excess == Max({0, Len(grown) - BucketCount})
       IN SubSeq(grown, excess + 1, Len(grown))

\* Fault: the guard against a limit of zero is missing.
production_limit_unguarded(bs) ==
  LET latencies == UNION {bs[i].minimum_latency : i \in DOMAIN bs}
      completed == Max({bs[i].completed : i \in DOMAIN bs})
  IN IF latencies = {} THEN MaxConcurrency
     ELSE Min({MaxConcurrency, (completed * Min(latencies)) \div BucketDuration})

\* ceil(throughput * minimum_latency), at least 1 and at most max_concurrency, of the best
\* throughput and the lowest latency that any bucket remembers (rolling_capacity).
production_limit(bs) ==
  LET latencies == UNION {bs[i].minimum_latency : i \in DOMAIN bs}
      completed == Max({bs[i].completed : i \in DOMAIN bs})
      capacity  == (completed * Min(latencies) + BucketDuration - 1) \div BucketDuration
  IN IF latencies = {} THEN MaxConcurrency ELSE Min({MaxConcurrency, Max({1, capacity})})

\* alpha * sample + (1 - alpha) * smoothed, whatever alpha in (0, 1] is: the integer part lies
\* between those of its arguments, and only the integer part is compared with a limit.
Smooth(sample) ==
  smoothed_in_flight' \in Min({sample, smoothed_in_flight})..Max({sample, smoothed_in_flight})

-----------------------------------------------------------------------------
(* try_acquire                                                             *)

Load(r) ==
  /\ pc[r] = "idle"
  /\ pc' = [pc EXCEPT ![r] = "loaded"]
  /\ active' = [active EXCEPT ![r] = in_flight]
  /\ UNCHANGED <<in_flight, state>>

\* rotate_buckets and the limit, which both outcomes of the decision store.
Refresh(steps) ==
  /\ buckets' = Rotated(buckets, steps)
  /\ current_limit' = IF mode = "Latency" THEN current_limit ELSE production_limit(buckets')

Exhausted(r, cpu_overloaded) ==
  \/ active[r] >= MaxConcurrency
  \/ mode = "Latency" /\ active[r] >= current_limit'
  \/ /\ mode = "CpuThroughput"
     /\ cpu_overloaded \/ cooling_down
     /\ active[r] >= current_limit'
     /\ smoothed_in_flight >= current_limit'

\* Fault: the fixed capacity is only compared with the limit of the mode.
AdmitWithoutCeiling(r, steps, cpu_overloaded) ==
  /\ pc[r] = "loaded"
  /\ Refresh(steps)
  /\ ~(mode = "Latency" /\ active[r] >= current_limit')
  /\ pc' = [pc EXCEPT ![r] = "checked"]
  /\ UNCHANGED <<in_flight, sample_count, total_latency, smoothed_in_flight, cooling_down, active>>

Admit(r, steps, cpu_overloaded) ==
  /\ pc[r] = "loaded"
  /\ Refresh(steps)
  /\ ~Exhausted(r, cpu_overloaded)
  /\ pc' = [pc EXCEPT ![r] = "checked"]
  /\ UNCHANGED <<in_flight, sample_count, total_latency, smoothed_in_flight, cooling_down, active>>

Shed(r, steps, cpu_overloaded) ==
  /\ pc[r] = "loaded"
  /\ Refresh(steps)
  /\ Exhausted(r, cpu_overloaded)
  /\ cooling_down' = (cooling_down \/ cpu_overloaded)
  /\ pc' = [pc EXCEPT ![r] = "idle"]
  /\ active' = [active EXCEPT ![r] = 0]
  /\ UNCHANGED <<in_flight, sample_count, total_latency, smoothed_in_flight>>

\* Fault: a store instead of a compare-and-swap.
ReserveBlindly(r) ==
  /\ pc[r] = "checked"
  /\ in_flight' = active[r] + 1
  /\ pc' = [pc EXCEPT ![r] = "reserved"]
  /\ UNCHANGED <<state, active>>

Reserve(r) ==
  /\ pc[r] = "checked"
  /\ in_flight = active[r]
  /\ in_flight' = active[r] + 1
  /\ pc' = [pc EXCEPT ![r] = "reserved"]
  /\ UNCHANGED <<state, active>>

\* compare_exchange_weak fails, perhaps spuriously, and the loop loads in_flight again.
Retry(r) ==
  /\ pc[r] = "checked"
  /\ pc' = [pc EXCEPT ![r] = "loaded"]
  /\ active' = [active EXCEPT ![r] = in_flight]
  /\ UNCHANGED <<in_flight, state>>

Average(r) ==
  /\ pc[r] = "reserved"
  /\ Smooth(active[r] + 1)
  /\ pc' = [pc EXCEPT ![r] = "running"]
  /\ active' = [active EXCEPT ![r] = 0]
  /\ UNCHANGED <<in_flight, current_limit, sample_count, total_latency, buckets, cooling_down>>

-----------------------------------------------------------------------------
(* Drop of ShedPermit                                                      *)

Release(r) ==
  /\ pc[r] = "running"
  /\ in_flight' = in_flight - 1
  /\ pc' = [pc EXCEPT ![r] = "released"]
  /\ active' = [active EXCEPT ![r] = in_flight - 1]
  /\ UNCHANGED state

Finished(r) ==
  /\ pc[r] = "released"
  /\ pc' = [pc EXCEPT ![r] = "idle"]
  /\ active' = [active EXCEPT ![r] = 0]
  /\ UNCHANGED in_flight

RecordThroughput(r, steps, elapsed) ==
  LET rotated == Rotated(buckets, steps)
      last    == rotated[Len(rotated)]
  IN /\ mode = "CpuThroughput"
     /\ last.completed < MaxCompleted
     /\ buckets' = [rotated EXCEPT ![Len(rotated)] =
                      [completed       |-> last.completed + 1,
                       minimum_latency |-> {Min(last.minimum_latency \cup {elapsed})}]]
     /\ Smooth(active[r])
     /\ current_limit' = production_limit(buckets')
     /\ Finished(r)
     /\ UNCHANGED <<sample_count, total_latency, cooling_down>>

AdjustedLimit(average) ==
  IF average > TargetLatency THEN Max({(current_limit * 9) \div 10, 1})
                             ELSE Min({current_limit + 1, MaxConcurrency})

RecordLatency(r, elapsed) ==
  /\ mode = "Latency"
  /\ IF sample_count + 1 < SampleWindow
     THEN /\ sample_count' = sample_count + 1
          /\ total_latency' = total_latency + elapsed
          /\ UNCHANGED current_limit
     ELSE /\ sample_count' = 0
          /\ total_latency' = 0
          /\ current_limit' = AdjustedLimit((total_latency + elapsed) \div (sample_count + 1))
  /\ Finished(r)
  /\ UNCHANGED <<buckets, smoothed_in_flight, cooling_down>>

-----------------------------------------------------------------------------

\* snapshot rotates the buckets and reports; the limit is left for the next decision.
Snapshot(steps) ==
  /\ buckets' = Rotated(buckets, steps)
  /\ UNCHANGED <<in_flight, current_limit, sample_count, total_latency, smoothed_in_flight,
                 cooling_down, pc, active>>

CooldownEnds ==
  /\ cooling_down
  /\ cooling_down' = FALSE
  /\ UNCHANGED <<in_flight, current_limit, sample_count, total_latency, buckets,
                 smoothed_in_flight, pc, active>>

Step ==
  \/ CooldownEnds
  \/ \E steps \in 0..BucketCount : Snapshot(steps)
  \/ \E r \in Requests :
       \/ Load(r)
       \/ Reserve(r)
       \/ Retry(r)
       \/ Average(r)
       \/ Release(r)
       \/ \E steps \in 0..BucketCount :
            \/ \E cpu_overloaded \in BOOLEAN :
                 Admit(r, steps, cpu_overloaded) \/ Shed(r, steps, cpu_overloaded)
            \/ \E elapsed \in Latencies : RecordThroughput(r, steps, elapsed)
       \/ \E elapsed \in Latencies : RecordLatency(r, elapsed)

Next == Step /\ UNCHANGED mode

Spec == Init /\ [][Next]_vars

-----------------------------------------------------------------------------
(* Properties                                                              *)

\* At most max_concurrency permits exist, although try_acquire decides from a value of
\* in_flight that other threads may have changed since: the compare-and-swap revalidates it.
PermitsWithinCapacity == Cardinality(Holders) <= MaxConcurrency

\* in_flight() is exactly the number of reservations: no race of try_acquire with the drop of
\* permits loses an increment or a decrement.
InFlightExact == in_flight = Cardinality(Holders)

\* try_acquire turns a request away only if it saw another one in flight, in both modes: no
\* history of latencies or throughput drives the limit to a value that rejects everything.
ShedUnderLoad ==
  \A r \in Requests : pc[r] = "loaded" /\ pc'[r] = "idle" => active[r] >= 1
ShedsOnlyUnderLoad == [][ShedUnderLoad]_vars
=============================================================================
