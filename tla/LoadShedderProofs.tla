------------------------- MODULE LoadShedderProofs -------------------------
(***************************************************************************)
(* The capacity of the adaptive shedder for any number of threads, in both *)
(* modes.  The argument does not depend on how the limit adapts: what      *)
(* keeps the capacity is that a thread past its decision saw a value of    *)
(* in_flight below max_concurrency, and that the compare-and-swap reserves *)
(* only from that value.                                                   *)
(***************************************************************************)
EXTENDS LoadShedder, FiniteSetTheorems, TLAPS

Steps == {"idle", "loaded", "checked", "reserved", "running", "released"}

\* A thread that passed the decision saw room for one more.
CheckedSawRoom == \A r \in Requests : pc[r] = "checked" => active[r] < MaxConcurrency

IInv ==
  /\ pc \in [Requests -> Steps]
  /\ active \in [Requests -> Nat]
  /\ in_flight \in Nat /\ in_flight <= MaxConcurrency
  /\ CheckedSawRoom
  /\ InFlightExact

-----------------------------------------------------------------------------

LEMMA HoldersFinite == IsFiniteSet(Holders) /\ Cardinality(Holders) \in Nat
<1>1. Holders \in SUBSET Requests
  BY DEF Holders
<1> QED
  BY <1>1, ShedderConfig, FS_Subset, FS_CardinalityType

\* How the set of holders changes when one thread moves to step v.
LEMMA ThreadMoves ==
  ASSUME pc \in [Requests -> Steps], NEW r \in Requests, NEW v \in Steps,
         pc' = [pc EXCEPT ![r] = v]
  PROVE  /\ pc' \in [Requests -> Steps]
         /\ pc[r] \notin {"reserved", "running"} /\ v \notin {"reserved", "running"}
              => Holders' = Holders
         /\ pc[r] \in {"reserved", "running"} /\ v \in {"reserved", "running"}
              => Holders' = Holders
         /\ pc[r] \notin {"reserved", "running"} /\ v \in {"reserved", "running"}
              => Cardinality(Holders') = Cardinality(Holders) + 1
         /\ pc[r] \in {"reserved", "running"} /\ v \notin {"reserved", "running"}
              => Cardinality(Holders') = Cardinality(Holders) - 1 /\ Cardinality(Holders) >= 1
<1>1. r \in Holders <=> pc[r] \in {"reserved", "running"}
  BY DEF Holders
<1>2. Holders' = IF v \in {"reserved", "running"} THEN Holders \cup {r} ELSE Holders \ {r}
  BY DEF Holders, Steps
<1>3. /\ Cardinality(Holders \cup {r}) = IF r \in Holders THEN Cardinality(Holders)
                                         ELSE Cardinality(Holders) + 1
      /\ Cardinality(Holders \ {r}) = IF r \in Holders THEN Cardinality(Holders) - 1
                                      ELSE Cardinality(Holders)
  BY HoldersFinite, FS_AddElement, FS_RemoveElement
<1>4. r \in Holders => Cardinality(Holders) >= 1
  BY HoldersFinite, FS_EmptySet
<1>5. pc' \in [Requests -> Steps]
  OBVIOUS
<1> QED
  BY <1>1, <1>2, <1>3, <1>4, <1>5

LEMMA InitInv == Init => IInv
<1> SUFFICES ASSUME Init PROVE IInv
  OBVIOUS
<1>1. Holders = {}
  BY DEF Init, Holders
<1>2. MaxConcurrency \in Nat
  BY ShedderConfig
<1> QED
  BY <1>1, <1>2, FS_EmptySet DEF Init, IInv, Steps, CheckedSawRoom, InFlightExact

\* A step that neither reserves nor releases, and that marks a thread as checked only if it saw
\* room, keeps the invariant.
LEMMA QuietStep ==
  ASSUME IInv, NEW r \in Requests, NEW v \in Steps,
         pc' = [pc EXCEPT ![r] = v], in_flight' = in_flight,
         pc[r] \in {"reserved", "running"} <=> v \in {"reserved", "running"},
         NEW a \in Nat, active' = [active EXCEPT ![r] = a],
         v = "checked" => a < MaxConcurrency
  PROVE  IInv'
<1>1. pc' \in [Requests -> Steps] /\ Holders' = Holders
  BY ThreadMoves DEF IInv
<1>2. active' \in [Requests -> Nat]
  BY DEF IInv
<1>3. CheckedSawRoom'
  BY DEF IInv, CheckedSawRoom
<1>4. InFlightExact'
  BY <1>1 DEF IInv, InFlightExact
<1> QED
  BY <1>1, <1>2, <1>3, <1>4 DEF IInv

LEMMA AcquireInv ==
  ASSUME IInv, NEW r \in Requests, NEW steps, NEW cpu_overloaded,
         \/ Load(r) \/ Admit(r, steps, cpu_overloaded) \/ Shed(r, steps, cpu_overloaded)
         \/ Retry(r) \/ Average(r)
  PROVE  IInv'
<1>1. CASE Load(r)
  <2>1. in_flight \in Nat /\ "loaded" \in Steps
    BY DEF IInv, Steps
  <2> QED
    BY <1>1, <2>1, QuietStep DEF Load
<1>2. CASE Admit(r, steps, cpu_overloaded)
  <2>1. active[r] \in Nat /\ active' = [active EXCEPT ![r] = active[r]] /\ "checked" \in Steps
    BY <1>2 DEF Admit, IInv, Steps
  <2>2. active[r] < MaxConcurrency
    BY <1>2, <2>1, ShedderConfig DEF Admit, Exhausted
  <2> QED
    BY <1>2, <2>1, <2>2, QuietStep DEF Admit
<1>3. CASE Shed(r, steps, cpu_overloaded)
  <2>1. "idle" \in Steps /\ 0 \in Nat
    BY DEF Steps
  <2> QED
    BY <1>3, <2>1, QuietStep DEF Shed
<1>4. CASE Retry(r)
  <2>1. in_flight \in Nat /\ "loaded" \in Steps
    BY DEF IInv, Steps
  <2> QED
    BY <1>4, <2>1, QuietStep DEF Retry
<1>5. CASE Average(r)
  <2>1. "running" \in Steps /\ 0 \in Nat
    BY DEF Steps
  <2> QED
    BY <1>5, <2>1, QuietStep DEF Average
<1> QED
  BY <1>1, <1>2, <1>3, <1>4, <1>5

\* The compare-and-swap succeeds only from the value that the decision was made for.
LEMMA ReserveInv ==
  ASSUME IInv, NEW r \in Requests, Reserve(r)
  PROVE  IInv'
<1>1. /\ pc[r] = "checked" /\ "reserved" \in Steps /\ pc' = [pc EXCEPT ![r] = "reserved"]
      /\ in_flight = active[r] /\ in_flight' = in_flight + 1 /\ active' = active
  BY DEF Reserve, Steps
<1>2. pc' \in [Requests -> Steps] /\ Cardinality(Holders') = Cardinality(Holders) + 1
  BY <1>1, ThreadMoves DEF IInv
<1>3. in_flight' \in Nat /\ in_flight' <= MaxConcurrency
  BY <1>1, ShedderConfig DEF IInv, CheckedSawRoom
<1>4. CheckedSawRoom'
  BY <1>1 DEF IInv, CheckedSawRoom
<1>5. InFlightExact'
  BY <1>1, <1>2, HoldersFinite DEF IInv, InFlightExact
<1> QED
  BY <1>1, <1>2, <1>3, <1>4, <1>5 DEF IInv

LEMMA ReleaseInv ==
  ASSUME IInv, NEW r \in Requests, Release(r)
  PROVE  IInv'
<1>1. /\ pc[r] = "running" /\ "released" \in Steps /\ pc' = [pc EXCEPT ![r] = "released"]
      /\ in_flight' = in_flight - 1 /\ active' = [active EXCEPT ![r] = in_flight - 1]
  BY DEF Release, Steps
<1>2. /\ pc' \in [Requests -> Steps]
      /\ Cardinality(Holders') = Cardinality(Holders) - 1 /\ Cardinality(Holders) >= 1
  BY <1>1, ThreadMoves DEF IInv
<1>3. in_flight - 1 \in Nat /\ in_flight' <= MaxConcurrency
  BY <1>1, <1>2, ShedderConfig DEF IInv, InFlightExact
<1>4. active' \in [Requests -> Nat]
  BY <1>1, <1>3 DEF IInv
<1>5. CheckedSawRoom'
  BY <1>1 DEF IInv, CheckedSawRoom
<1>6. InFlightExact'
  BY <1>1, <1>2, HoldersFinite DEF IInv, InFlightExact
<1> QED
  BY <1>1, <1>2, <1>3, <1>4, <1>5, <1>6 DEF IInv

LEMMA FinishedInv ==
  ASSUME IInv, NEW r \in Requests, Finished(r)
  PROVE  IInv'
<1>1. "idle" \in Steps /\ 0 \in Nat
  BY DEF Steps
<1> QED
  BY <1>1, QuietStep DEF Finished

LEMMA NextInv == IInv /\ [Next]_vars => IInv'
<1> SUFFICES ASSUME IInv, [Next]_vars PROVE IInv'
  OBVIOUS
<1>1. CASE CooldownEnds \/ (\E steps \in 0..BucketCount : Snapshot(steps)) \/ UNCHANGED vars
  <2>1. UNCHANGED <<pc, active, in_flight>>
    BY <1>1 DEF CooldownEnds, Snapshot, vars
  <2>2. Holders' = Holders
    BY <2>1 DEF Holders
  <2> QED
    BY <2>1, <2>2 DEF IInv, CheckedSawRoom, InFlightExact
<1>2. ASSUME NEW r \in Requests, Load(r) \/ Retry(r) \/ Average(r) PROVE IInv'
  BY <1>2, AcquireInv
<1>3. ASSUME NEW r \in Requests, NEW steps \in 0..BucketCount, NEW cpu_overloaded \in BOOLEAN,
             Admit(r, steps, cpu_overloaded) \/ Shed(r, steps, cpu_overloaded)
      PROVE  IInv'
  BY <1>3, AcquireInv
<1>4. ASSUME NEW r \in Requests, Reserve(r) PROVE IInv'
  BY <1>4, ReserveInv
<1>5. ASSUME NEW r \in Requests, Release(r) PROVE IInv'
  BY <1>5, ReleaseInv
<1>6. ASSUME NEW r \in Requests, NEW steps \in 0..BucketCount, NEW elapsed \in Latencies,
             RecordThroughput(r, steps, elapsed) \/ RecordLatency(r, elapsed)
      PROVE  IInv'
  BY <1>6, FinishedInv DEF RecordThroughput, RecordLatency
<1>7. ASSUME NEW r \in Requests, NEW elapsed \in Latencies, RecordLatency(r, elapsed)
      PROVE  IInv'
  BY <1>7, FinishedInv DEF RecordLatency
<1> QED
  BY <1>1, <1>2, <1>3, <1>4, <1>5, <1>6, <1>7 DEF Next, Step

-----------------------------------------------------------------------------

\* The inductive invariant holds of every behaviour.
THEOREM InductiveInvariant == Spec => []IInv
  BY InitInv, NextInv, PTL DEF Spec

\* in_flight() is the number of reservations under every interleaving of try_acquire with the
\* drop of permits.
THEOREM InFlightIsExact == Spec => []InFlightExact
<1>1. IInv => InFlightExact
  BY DEF IInv
<1> QED
  BY <1>1, InductiveInvariant, PTL

\* try_acquire never hands out more than max_concurrency permits, in either mode and for every
\* history of latencies, throughput and CPU load.
THEOREM CapacityHolds == Spec => []PermitsWithinCapacity
<1>1. IInv => PermitsWithinCapacity
  BY DEF IInv, InFlightExact, PermitsWithinCapacity
<1> QED
  BY <1>1, InductiveInvariant, PTL
=============================================================================
