-------------------------- MODULE ResilienceProofs --------------------------
(***************************************************************************)
(* The safety of the components that protect calls and run background work *)
(* for every value of their constants: the consecutive-failure breaker,    *)
(* map-reduce, single flight, the delayed executors and the continuous     *)
(* profiler, one section each; with the invariant of the batch executors,  *)
(* which their module proves, all of them together at the end.             *)
(*                                                                         *)
(* No property of the breaker is inductive: a half-open circuit at its     *)
(* limit must owe its attempts to calls that are still outstanding, a      *)
(* closed circuit must have counted the failures it has added up, and the  *)
(* probes of a half-open one are its attempts and cancelled ones.          *)
(***************************************************************************)
EXTENDS CircuitBreaker, Sequences, FiniteSetTheorems, TLAPS

Failing == {c \in Calls : call[c] = "Failure"}

\* The fields that a variant of ConsecutiveState does not carry are 0.
VariantFields ==
  /\ status # "Closed" => consecutive_failures = 0
  /\ status # "HalfOpen" => attempts = 0 /\ successes = 0

\* Every attempt of a half-open circuit has succeeded or is still outstanding.  The converse
\* fails: calls admitted before the circuit opened are outstanding too.
AttemptsOwed == attempts <= successes + Cardinality(Outstanding)

\* The failures added up, with those counted and not yet recorded, were counted.
FailuresCounted == consecutive_failures + Cardinality(Failing) <= counters["Failure"]

IInv == TypeOK /\ VariantFields /\ AttemptsOwed /\ FailuresCounted /\ TripsAreCounted

-----------------------------------------------------------------------------

LEMMA SubsetsFinite ==
  ASSUME NEW S \in SUBSET Calls
  PROVE  IsFiniteSet(S) /\ Cardinality(S) \in Nat
  BY BreakerConfig, FS_Subset, FS_CardinalityType

LEMMA InitInv == Init => IInv
<1> SUFFICES ASSUME Init PROVE IInv
  OBVIOUS
<1>1. TypeOK
  <2>1. MaxFailures - 1 \in Nat /\ HalfOpenMaxCalls - 1 \in Nat
    BY BreakerConfig
  <2>2. elapsed \in BOOLEAN
    BY DEF Init
  <2> QED
    BY <2>1, <2>2, BreakerConfig DEF Init, TypeOK, Progress
<1>2. VariantFields /\ TripsAreCounted
  BY DEF Init, VariantFields, TripsAreCounted
<1>3. AttemptsOwed
  <2>1. Cardinality(Outstanding) \in Nat
    BY SubsetsFinite DEF Outstanding
  <2> QED
    BY <2>1 DEF Init, AttemptsOwed
<1>4. FailuresCounted
  <2>1. Failing = {}
    BY DEF Init, Failing
  <2> QED
    BY <2>1, FS_EmptySet DEF Init, FailuresCounted
<1> QED
  BY <1>1, <1>2, <1>3, <1>4 DEF IInv

\* How the two sets that the invariant counts change when one call moves on.
LEMMA CallMoves ==
  ASSUME TypeOK, NEW c \in Calls, NEW v \in Progress, call' = [call EXCEPT ![c] = v]
  PROVE  /\ Cardinality(Outstanding) \in Nat /\ Cardinality(Outstanding)' \in Nat
         /\ Cardinality(Failing) \in Nat /\ Cardinality(Failing)' \in Nat
         /\ call[c] \in {"idle", "done"} /\ v \in {"idle", "done"}
              => Cardinality(Outstanding)' = Cardinality(Outstanding)
         /\ call[c] \notin {"idle", "done"} /\ v \notin {"idle", "done"}
              => Cardinality(Outstanding)' = Cardinality(Outstanding)
         /\ call[c] \in {"idle", "done"} /\ v \notin {"idle", "done"}
              => Cardinality(Outstanding)' = Cardinality(Outstanding) + 1
         /\ call[c] \notin {"idle", "done"} /\ v \in {"idle", "done"}
              => Cardinality(Outstanding)' = Cardinality(Outstanding) - 1
         /\ call[c] # "Failure" /\ v # "Failure"
              => Cardinality(Failing)' = Cardinality(Failing)
         /\ call[c] # "Failure" /\ v = "Failure"
              => Cardinality(Failing)' = Cardinality(Failing) + 1
         /\ call[c] = "Failure" /\ v # "Failure"
              => Cardinality(Failing)' = Cardinality(Failing) - 1
              /\ Cardinality(Failing) >= 1
<1>1. call \in [Calls -> Progress]
  BY DEF TypeOK
<1>2. /\ Outstanding \in SUBSET Calls /\ Outstanding' \in SUBSET Calls
      /\ Failing \in SUBSET Calls /\ Failing' \in SUBSET Calls
  BY DEF Outstanding, Failing
<1>3. /\ IsFiniteSet(Outstanding) /\ IsFiniteSet(Failing)
      /\ Cardinality(Outstanding) \in Nat /\ Cardinality(Outstanding') \in Nat
      /\ Cardinality(Failing) \in Nat /\ Cardinality(Failing') \in Nat
  BY <1>2, SubsetsFinite
<1>4. /\ Outstanding' = IF v \in {"idle", "done"} THEN Outstanding \ {c} ELSE Outstanding \cup {c}
      /\ c \in Outstanding <=> call[c] \notin {"idle", "done"}
  BY <1>1 DEF Outstanding, Progress, Outcomes
<1>5. /\ Failing' = IF v = "Failure" THEN Failing \cup {c} ELSE Failing \ {c}
      /\ c \in Failing <=> call[c] = "Failure"
  BY <1>1 DEF Failing
<1>6. /\ Cardinality(Outstanding \cup {c}) = IF c \in Outstanding THEN Cardinality(Outstanding)
                                             ELSE Cardinality(Outstanding) + 1
      /\ Cardinality(Outstanding \ {c}) = IF c \in Outstanding THEN Cardinality(Outstanding) - 1
                                          ELSE Cardinality(Outstanding)
      /\ Cardinality(Failing \cup {c}) = IF c \in Failing THEN Cardinality(Failing)
                                         ELSE Cardinality(Failing) + 1
      /\ Cardinality(Failing \ {c}) = IF c \in Failing THEN Cardinality(Failing) - 1
                                      ELSE Cardinality(Failing)
  BY <1>3, FS_AddElement, FS_RemoveElement
<1>7. c \in Failing => Cardinality(Failing) >= 1
  BY <1>3, FS_EmptySet
<1> QED
  BY <1>3, <1>4, <1>5, <1>6, <1>7

\* Every action but Record leaves the counts of the locked state alone, except AdmitProbe, which
\* adds an attempt together with the call that owes it.
LEMMA AdmitInv ==
  ASSUME IInv, NEW c \in Calls, AdmitClosed(c) \/ AdmitProbe(c) \/ Reject(c)
  PROVE  IInv'
<1>1. CASE AdmitClosed(c)
  <2>1. "admitted" \in Progress /\ call[c] = "idle" /\ call' = [call EXCEPT ![c] = "admitted"]
    BY <1>1 DEF AdmitClosed, Progress
  <2>2. /\ Cardinality(Outstanding) \in Nat /\ Cardinality(Failing) \in Nat
        /\ Cardinality(Outstanding)' = Cardinality(Outstanding) + 1
        /\ Cardinality(Failing)' = Cardinality(Failing)
    BY <2>1, CallMoves DEF IInv
  <2>3. TypeOK' /\ VariantFields' /\ TripsAreCounted'
    BY <1>1, <2>1 DEF IInv, AdmitClosed, TypeOK, VariantFields, TripsAreCounted, state
  <2>4. AttemptsOwed' /\ FailuresCounted'
    BY <1>1, <2>2 DEF IInv, AdmitClosed, TypeOK, AttemptsOwed, FailuresCounted, state
  <2> QED
    BY <2>3, <2>4 DEF IInv
<1>2. CASE AdmitProbe(c)
  <2>1. "admitted" \in Progress /\ call[c] = "idle" /\ call' = [call EXCEPT ![c] = "admitted"]
    BY <1>2 DEF AdmitProbe, Progress
  <2>2. /\ Cardinality(Outstanding) \in Nat /\ Cardinality(Failing) \in Nat
        /\ Cardinality(Outstanding)' = Cardinality(Outstanding) + 1
        /\ Cardinality(Failing)' = Cardinality(Failing)
    BY <2>1, CallMoves DEF IInv
  <2>3. /\ AttemptsSeen = attempts /\ attempts' = attempts + 1 /\ attempts < HalfOpenMaxCalls
        /\ status \in {"Open", "HalfOpen"} /\ status' = "HalfOpen" /\ elapsed' = FALSE
        /\ UNCHANGED <<consecutive_failures, successes, counters>>
    BY <1>2 DEF AdmitProbe, AttemptsSeen, Probing, IInv, VariantFields
  <2>4. TypeOK'
    <3>1. elapsed' \in BOOLEAN
      BY <2>3
    <3>2. probes' \in SUBSET Calls
      BY <1>2 DEF AdmitProbe, IInv, TypeOK
    <3>3. attempts' \in 0..HalfOpenMaxCalls
      BY <2>3, BreakerConfig DEF IInv, TypeOK
    <3> QED
      BY <2>1, <2>3, <3>1, <3>2, <3>3 DEF IInv, TypeOK
  <2>5. VariantFields' /\ TripsAreCounted'
    BY <2>3 DEF IInv, VariantFields, TripsAreCounted
  <2>6. AttemptsOwed' /\ FailuresCounted'
    BY <2>2, <2>3 DEF IInv, TypeOK, AttemptsOwed, FailuresCounted
  <2> QED
    BY <2>4, <2>5, <2>6 DEF IInv
<1>3. CASE Reject(c)
  <2>1. "done" \in Progress /\ call[c] = "idle" /\ call' = [call EXCEPT ![c] = "done"]
    BY <1>3 DEF Reject, Progress
  <2>2. /\ Cardinality(Outstanding)' = Cardinality(Outstanding)
        /\ Cardinality(Failing)' = Cardinality(Failing)
    BY <2>1, CallMoves DEF IInv
  <2>3. /\ counters' \in [{"Success", "Failure", "Cancellation", "Rejection"} -> Nat]
        /\ counters'["Failure"] = counters["Failure"]
    BY <1>3 DEF Reject, IInv, TypeOK
  <2>4. TypeOK' /\ VariantFields' /\ TripsAreCounted'
    BY <1>3, <2>1, <2>3 DEF IInv, Reject, TypeOK, VariantFields, TripsAreCounted, state
  <2>5. AttemptsOwed' /\ FailuresCounted'
    BY <1>3, <2>2, <2>3 DEF IInv, Reject, AttemptsOwed, FailuresCounted, state
  <2> QED
    BY <2>4, <2>5 DEF IInv
<1> QED
  BY <1>1, <1>2, <1>3

\* A counted failure is owed to the locked state; any other outcome is not counted as one.
LEMMA CountInv ==
  ASSUME IInv, NEW c \in Calls, NEW o \in Outcomes, Count(c, o)
  PROVE  IInv'
<1>1. o \in Progress /\ call[c] = "admitted" /\ call' = [call EXCEPT ![c] = o]
  BY DEF Count, Progress
<1>2. /\ Cardinality(Failing) \in Nat
      /\ Cardinality(Outstanding)' = Cardinality(Outstanding)
      /\ Cardinality(Failing)' = IF o = "Failure" THEN Cardinality(Failing) + 1
                                 ELSE Cardinality(Failing)
  BY <1>1, CallMoves DEF IInv, Outcomes
<1>3. /\ counters' \in [{"Success", "Failure", "Cancellation", "Rejection"} -> Nat]
      /\ counters["Failure"] \in Nat
      /\ counters'["Failure"] = IF o = "Failure" THEN counters["Failure"] + 1
                                ELSE counters["Failure"]
  BY DEF Count, IInv, TypeOK, Outcomes
<1>4. TypeOK'
  BY <1>1, <1>3 DEF IInv, Count, TypeOK, state
<1>5. VariantFields' /\ TripsAreCounted'
  BY <1>3, BreakerConfig DEF IInv, Count, VariantFields, TripsAreCounted, state
<1>6. AttemptsOwed' /\ FailuresCounted'
  BY <1>2, <1>3 DEF IInv, TypeOK, Count, AttemptsOwed, FailuresCounted, state
<1> QED
  BY <1>4, <1>5, <1>6 DEF IInv

\* An outcome that is recorded pays for at most one attempt, and a recorded failure was counted.
LEMMA RecordInv ==
  ASSUME IInv, NEW c \in Calls, Record(c)
  PROVE  IInv'
<1>1. /\ "done" \in Progress /\ call[c] \in Outcomes
      /\ call' = [call EXCEPT ![c] = "done"] /\ UNCHANGED <<counters, probes>>
  BY DEF Record, Progress
<1>2. /\ Cardinality(Outstanding) \in Nat /\ Cardinality(Failing) \in Nat
      /\ Cardinality(Outstanding)' \in Nat /\ Cardinality(Failing)' \in Nat
      /\ Cardinality(Outstanding)' = Cardinality(Outstanding) - 1
      /\ call[c] # "Failure" => Cardinality(Failing)' = Cardinality(Failing)
      /\ call[c] = "Failure" => /\ Cardinality(Failing)' = Cardinality(Failing) - 1
                                /\ Cardinality(Failing) >= 1
  <2>1. call[c] \notin {"idle", "done"}
    BY <1>1 DEF Outcomes
  <2> QED
    BY <1>1, <2>1, CallMoves DEF IInv
<1>3. call' \in [Calls -> Progress] /\ counters' = counters /\ counters["Failure"] \in Nat
      /\ probes' \in SUBSET Calls
  BY <1>1 DEF IInv, TypeOK
<1>4. /\ status \in {"Closed", "Open", "HalfOpen"} /\ elapsed \in BOOLEAN
      /\ consecutive_failures \in Nat /\ consecutive_failures < MaxFailures
      /\ attempts \in Nat /\ attempts <= HalfOpenMaxCalls
      /\ successes \in Nat /\ successes < HalfOpenMaxCalls
      /\ MaxFailures \in Nat /\ HalfOpenMaxCalls \in Nat
  BY BreakerConfig DEF IInv, TypeOK
<1>5. CASE call[c] = "Success" /\ RecordSuccess
  <2>1. elapsed' \in BOOLEAN
    BY <1>4, <1>5 DEF RecordSuccess, Close, state
  <2>2. /\ status' \in {"Closed", status}
        /\ consecutive_failures' \in {0, consecutive_failures}
        /\ status' # "Closed" => consecutive_failures' = consecutive_failures
        /\ \/ attempts' = 0 /\ successes' = 0
           \/ status' = "HalfOpen" /\ attempts' = attempts
              /\ successes' = successes + 1 /\ successes' < HalfOpenMaxCalls
    BY <1>4, <1>5 DEF RecordSuccess, Close, state, IInv, VariantFields
  <2>3. TypeOK' /\ VariantFields'
    BY <1>3, <1>4, <2>1, <2>2 DEF TypeOK, VariantFields, IInv
  <2>4. AttemptsOwed' /\ FailuresCounted' /\ TripsAreCounted'
    BY <1>2, <1>3, <1>4, <1>5, <2>2 DEF IInv, AttemptsOwed, FailuresCounted, TripsAreCounted
  <2> QED
    BY <2>3, <2>4 DEF IInv
<1>6. CASE call[c] = "Failure" /\ RecordFailure
  <2>1. /\ elapsed' \in BOOLEAN /\ attempts' = 0 /\ successes' = 0
        /\ \/ /\ status = "Closed" /\ status' = "Closed"
              /\ consecutive_failures' = consecutive_failures + 1
              /\ consecutive_failures' < MaxFailures
           \/ /\ status' = "Open" /\ consecutive_failures' = 0
              /\ status = "Closed" => consecutive_failures + 1 >= MaxFailures
    BY <1>4, <1>6 DEF RecordFailure, Open, state, IInv, VariantFields
  <2>2. TypeOK' /\ VariantFields'
    BY <1>3, <1>4, <2>1 DEF TypeOK, VariantFields, IInv
  <2>3. AttemptsOwed' /\ FailuresCounted' /\ TripsAreCounted'
    BY <1>2, <1>3, <1>4, <1>6, <2>1
       DEF IInv, AttemptsOwed, FailuresCounted, TripsAreCounted
  <2> QED
    BY <2>2, <2>3 DEF IInv
<1>7. CASE call[c] = "Cancellation" /\ RecordCancellation
  <2>1. /\ UNCHANGED <<status, consecutive_failures, successes, elapsed>>
        /\ attempts' = IF attempts = 0 THEN 0 ELSE attempts - 1
    BY <1>4, <1>7 DEF RecordCancellation, state, IInv, VariantFields
  <2>2. TypeOK' /\ VariantFields'
    BY <1>3, <1>4, <2>1 DEF TypeOK, VariantFields, IInv
  <2>3. AttemptsOwed' /\ FailuresCounted' /\ TripsAreCounted'
    BY <1>2, <1>3, <1>4, <1>7, <2>1 DEF IInv, AttemptsOwed, FailuresCounted, TripsAreCounted
  <2> QED
    BY <2>2, <2>3 DEF IInv
<1> QED
  BY <1>5, <1>6, <1>7 DEF Record

LEMMA NextInv == IInv /\ [Next]_vars => IInv'
<1> SUFFICES ASSUME IInv, [Next]_vars PROVE IInv'
  OBVIOUS
<1>1. CASE ResetTimeout
  <2>1. elapsed' \in BOOLEAN
    BY <1>1 DEF ResetTimeout
  <2>2. Outstanding' = Outstanding /\ Failing' = Failing
    BY <1>1 DEF ResetTimeout, Outstanding, Failing
  <2> QED
    BY <1>1, <2>1, <2>2 DEF ResetTimeout, IInv, TypeOK, VariantFields, AttemptsOwed,
                            FailuresCounted, TripsAreCounted
<1>2. ASSUME NEW c \in Calls, AdmitClosed(c) \/ AdmitProbe(c) \/ Reject(c)
      PROVE  IInv'
  BY <1>2, AdmitInv
<1>3. ASSUME NEW c \in Calls, NEW o \in Outcomes, Count(c, o)
      PROVE  IInv'
  BY <1>3, CountInv
<1>4. ASSUME NEW c \in Calls, Record(c)
      PROVE  IInv'
  BY <1>4, RecordInv
<1>5. CASE UNCHANGED vars
  <2>1. Outstanding' = Outstanding /\ Failing' = Failing
    BY <1>5 DEF vars, Outstanding, Failing
  <2> QED
    BY <1>5, <2>1 DEF vars, state, IInv, TypeOK, VariantFields, AttemptsOwed,
                      FailuresCounted, TripsAreCounted
<1> QED
  BY <1>1, <1>2, <1>3, <1>4, <1>5 DEF Next

-----------------------------------------------------------------------------

\* The inductive invariant holds of every behaviour.
THEOREM InductiveInvariant == Spec => []IInv
  BY InitInv, NextInv, PTL DEF Spec

\* The fields of ConsecutiveState stay within the limits of the configuration, whatever order
\* before_call and record_outcome run in.
THEOREM TypeCorrect == Spec => []TypeOK
<1>1. IInv => TypeOK
  BY DEF IInv
<1> QED
  BY <1>1, InductiveInvariant, PTL

\* A half-open circuit never turns callers away with no outcome left to move it: before_consecutive
\* rejects at half_open_max_calls attempts only while record_consecutive is still to be called.
THEOREM NeverStuckHalfOpen == Spec => []RejectingMeansWaiting
<1>1. IInv => RejectingMeansWaiting
  <2> SUFFICES ASSUME IInv, status = "HalfOpen", attempts >= HalfOpenMaxCalls, Outstanding = {}
               PROVE  FALSE
    BY DEF RejectingMeansWaiting
  <2>1. Cardinality(Outstanding) = 0
    BY FS_EmptySet
  <2>2. attempts <= successes /\ attempts \in Nat /\ successes \in Nat
        /\ successes < HalfOpenMaxCalls /\ HalfOpenMaxCalls \in Nat
    BY <2>1, BreakerConfig DEF IInv, TypeOK, AttemptsOwed
  <2> QED
    BY <2>2
<1> QED
  BY <1>1, InductiveInvariant, PTL

-----------------------------------------------------------------------------
(* The probes of a half-open circuit                                       *)

Running == {c \in probes : call[c] = "admitted"}

Cancelling == {c \in Calls : call[c] = "Cancellation"}

\* Cancelled calls that are not yet recorded were counted.
CancelsCounted == Cardinality(Cancelling) <= counters["Cancellation"]

\* The probes that run, and the cancelled calls that will give an attempt back, are attempts or
\* calls that were cancelled.
ProbesOwed ==
  status = "HalfOpen" =>
    Cardinality(Running) + Cardinality(Cancelling) <= attempts + counters["Cancellation"]

ProbeInv == CancelsCounted /\ ProbesOwed

\* How the two sets change when one call moves on.
LEMMA ProbeMoves ==
  ASSUME TypeOK, NEW c \in Calls, NEW v \in Progress, call' = [call EXCEPT ![c] = v]
  PROVE  /\ Cardinality(Running) \in Nat /\ Cardinality(Cancelling) \in Nat
         /\ probes' \in SUBSET Calls => Cardinality(Running') \in Nat
         /\ Cardinality(Cancelling') \in Nat
         /\ call[c] # "Cancellation" /\ v # "Cancellation"
              => Cardinality(Cancelling') = Cardinality(Cancelling)
         /\ v = "Cancellation" => Cardinality(Cancelling') <= Cardinality(Cancelling) + 1
         /\ call[c] = "Cancellation" /\ v # "Cancellation"
              => Cardinality(Cancelling') = Cardinality(Cancelling) - 1
         /\ probes' = probes /\ v # "admitted" => Cardinality(Running') <= Cardinality(Running)
         /\ probes' = probes \cup {c} => Cardinality(Running') <= Cardinality(Running) + 1
         /\ probes' = {c} => Cardinality(Running') <= 1
<1>1. call \in [Calls -> Progress] /\ probes \in SUBSET Calls
  BY DEF TypeOK
<1>2. /\ Running \in SUBSET Calls
      /\ probes' \in SUBSET Calls => Running' \in SUBSET Calls
      /\ Cancelling \in SUBSET Calls /\ Cancelling' \in SUBSET Calls
  BY <1>1 DEF Running, Cancelling
<1>3. /\ IsFiniteSet(Running) /\ IsFiniteSet(Cancelling)
      /\ Cardinality(Running) \in Nat /\ Cardinality(Cancelling) \in Nat
      /\ probes' \in SUBSET Calls => Cardinality(Running') \in Nat
      /\ Cardinality(Cancelling') \in Nat
  <2>1. IsFiniteSet(Running) /\ Cardinality(Running) \in Nat
    BY <1>2, SubsetsFinite
  <2>2. IsFiniteSet(Cancelling) /\ Cardinality(Cancelling) \in Nat /\ Cardinality(Cancelling') \in Nat
    BY <1>2, SubsetsFinite
  <2>3. ASSUME probes' \in SUBSET Calls PROVE Cardinality(Running') \in Nat
    BY <1>2, <2>3, SubsetsFinite
  <2>4. QED
    BY <2>1, <2>2, <2>3
<1>4. /\ Cancelling' = IF v = "Cancellation" THEN Cancelling \cup {c} ELSE Cancelling \ {c}
      /\ c \in Cancelling <=> call[c] = "Cancellation"
  BY <1>1 DEF Cancelling
<1>5. /\ Cardinality(Cancelling \cup {c}) = IF c \in Cancelling THEN Cardinality(Cancelling)
                                            ELSE Cardinality(Cancelling) + 1
      /\ Cardinality(Cancelling \ {c}) = IF c \in Cancelling THEN Cardinality(Cancelling) - 1
                                         ELSE Cardinality(Cancelling)
      /\ Cardinality(Running \cup {c}) = IF c \in Running THEN Cardinality(Running)
                                         ELSE Cardinality(Running) + 1
      /\ IsFiniteSet(Running \cup {c}) /\ IsFiniteSet({c}) /\ Cardinality({c}) = 1
  BY <1>3, FS_AddElement, FS_RemoveElement, FS_Singleton
<1>6. /\ probes' = probes /\ v # "admitted" => Running' \in SUBSET Running
      /\ probes' = probes \cup {c} => Running' \in SUBSET (Running \cup {c})
      /\ probes' = {c} => Running' \in SUBSET {c}
  BY <1>1 DEF Running
<1>7. /\ probes' = probes /\ v # "admitted" => Cardinality(Running') <= Cardinality(Running)
      /\ probes' = probes \cup {c} => Cardinality(Running') <= Cardinality(Running \cup {c})
      /\ probes' = {c} => Cardinality(Running') <= Cardinality({c})
  BY <1>3, <1>5, <1>6, FS_Subset
<1>8. probes' = probes \cup {c} => Cardinality(Running') <= Cardinality(Running) + 1
  <2>1. ASSUME probes' = probes \cup {c} PROVE Cardinality(Running') <= Cardinality(Running) + 1
    <3>1. Cardinality(Running') \in Nat
      BY <1>1, <1>3, <2>1
    <3>2. QED
      BY <1>3, <1>5, <1>7, <2>1, <3>1
  <2>2. QED
    BY <2>1
<1>9. QED
  BY <1>3, <1>4, <1>5, <1>7, <1>8

LEMMA InitProbes == Init => ProbeInv
<1> SUFFICES ASSUME Init PROVE ProbeInv
  OBVIOUS
<1>1. Cancelling = {}
  BY DEF Init, Cancelling
<1>2. QED
  BY <1>1, FS_EmptySet DEF Init, ProbeInv, CancelsCounted, ProbesOwed

\* before_call adds an attempt with every probe; the first probe of a half-open circuit finds
\* only cancellations that were counted.
LEMMA AdmitProbes ==
  ASSUME IInv, ProbeInv, NEW c \in Calls, AdmitClosed(c) \/ AdmitProbe(c) \/ Reject(c)
  PROVE  ProbeInv'
<1> USE DEF ProbeInv, CancelsCounted, ProbesOwed
<1>1. attempts \in Nat /\ counters["Cancellation"] \in Nat
  BY BreakerConfig DEF IInv, TypeOK
<1>2. CASE AdmitClosed(c)
  <2>1. call[c] = "idle" /\ "admitted" \in Progress /\ call' = [call EXCEPT ![c] = "admitted"]
        /\ UNCHANGED counters /\ status' = "Closed"
    BY <1>2 DEF AdmitClosed, Progress, state
  <2>2. Cardinality(Cancelling') = Cardinality(Cancelling)
    BY <2>1, ProbeMoves DEF IInv
  <2>3. QED
    BY <2>1, <2>2
<1>3. CASE AdmitProbe(c)
  <2>1. /\ call[c] = "idle" /\ "admitted" \in Progress /\ call' = [call EXCEPT ![c] = "admitted"]
        /\ UNCHANGED counters
        /\ \/ status = "HalfOpen" /\ attempts' = attempts + 1 /\ probes' = probes \cup {c}
           \/ status # "HalfOpen" /\ attempts' = 1 /\ probes' = {c}
    BY <1>3 DEF AdmitProbe, AttemptsSeen, Progress
  <2>2. Cardinality(Cancelling') = Cardinality(Cancelling)
    BY <2>1, ProbeMoves DEF IInv
  <2>3. /\ Cardinality(Running) \in Nat /\ Cardinality(Cancelling) \in Nat
        /\ probes' = probes \cup {c} => Cardinality(Running') <= Cardinality(Running) + 1
        /\ probes' = {c} => Cardinality(Running') <= 1
    BY <2>1, ProbeMoves DEF IInv
  <2>4. Cardinality(Running') \in Nat
    BY <2>1, ProbeMoves DEF IInv, TypeOK
  <2>5. QED
    BY <1>1, <2>1, <2>2, <2>3, <2>4
<1>4. CASE Reject(c)
  <2>1. call[c] = "idle" /\ "done" \in Progress /\ call' = [call EXCEPT ![c] = "done"]
        /\ probes' = probes /\ UNCHANGED <<status, attempts>>
    BY <1>4 DEF Reject, Progress, state
  <2>2. counters'["Cancellation"] = counters["Cancellation"]
    BY <1>4 DEF Reject, IInv, TypeOK
  <2>3. /\ Cardinality(Running) \in Nat /\ Cardinality(Cancelling) \in Nat
        /\ Cardinality(Running') <= Cardinality(Running)
        /\ Cardinality(Cancelling') = Cardinality(Cancelling)
    BY <2>1, ProbeMoves DEF IInv
  <2>4. Cardinality(Running') \in Nat
    BY <2>1, ProbeMoves DEF IInv, TypeOK
  <2>5. QED
    BY <1>1, <2>1, <2>2, <2>3, <2>4
<1>5. QED
  BY <1>2, <1>3, <1>4

\* record_outcome counts a cancellation before it gives the attempt back.
LEMMA FinishProbes ==
  ASSUME IInv, ProbeInv, NEW c \in Calls, (\E o \in Outcomes : Count(c, o)) \/ Record(c)
  PROVE  ProbeInv'
<1> USE DEF ProbeInv, CancelsCounted, ProbesOwed
<1>1. attempts \in Nat /\ counters["Cancellation"] \in Nat
  BY BreakerConfig DEF IInv, TypeOK
<1>2. ASSUME NEW o \in Outcomes, Count(c, o) PROVE ProbeInv'
  <2>1. call[c] = "admitted" /\ o \in Progress /\ o # "admitted" /\ call' = [call EXCEPT ![c] = o]
        /\ probes' = probes /\ UNCHANGED <<status, attempts>>
    BY <1>2 DEF Count, Progress, Outcomes, state
  <2>2. counters'["Cancellation"] = IF o = "Cancellation" THEN counters["Cancellation"] + 1
                                    ELSE counters["Cancellation"]
    BY <1>2 DEF Count, IInv, TypeOK
  <2>3. /\ Cardinality(Running) \in Nat /\ Cardinality(Cancelling) \in Nat
        /\ Cardinality(Cancelling') \in Nat
        /\ Cardinality(Running') <= Cardinality(Running)
        /\ o = "Cancellation" => Cardinality(Cancelling') <= Cardinality(Cancelling) + 1
        /\ o # "Cancellation" => Cardinality(Cancelling') = Cardinality(Cancelling)
    BY <2>1, ProbeMoves DEF IInv
  <2>4. Cardinality(Running') \in Nat
    BY <2>1, ProbeMoves DEF IInv, TypeOK
  <2>5. QED
    BY <1>1, <2>1, <2>2, <2>3, <2>4
<1>3. CASE Record(c)
  <2>1. call[c] \in Outcomes /\ "done" \in Progress /\ call' = [call EXCEPT ![c] = "done"]
        /\ probes' = probes /\ UNCHANGED counters
    BY <1>3 DEF Record, Progress
  <2>2. /\ Cardinality(Running) \in Nat /\ Cardinality(Cancelling) \in Nat
        /\ Cardinality(Cancelling') \in Nat
        /\ Cardinality(Running') <= Cardinality(Running)
        /\ call[c] = "Cancellation" => Cardinality(Cancelling') = Cardinality(Cancelling) - 1
        /\ call[c] # "Cancellation" => Cardinality(Cancelling') = Cardinality(Cancelling)
    BY <2>1, ProbeMoves DEF IInv
  <2>3. Cardinality(Running') \in Nat
    BY <2>1, ProbeMoves DEF IInv, TypeOK
  <2>4. status' = "HalfOpen" =>
          /\ status = "HalfOpen"
          /\ call[c] # "Cancellation" => attempts' = attempts
          /\ call[c] = "Cancellation" => attempts' = IF attempts = 0 THEN 0 ELSE attempts - 1
    BY <1>3 DEF Record, RecordSuccess, RecordFailure, RecordCancellation, Close, Open, state
  <2>5. QED
    BY <1>1, <2>1, <2>2, <2>3, <2>4
<1>4. QED
  BY <1>2, <1>3

LEMMA NextProbes == IInv /\ ProbeInv /\ [Next]_vars => ProbeInv'
<1> SUFFICES ASSUME IInv, ProbeInv, [Next]_vars PROVE ProbeInv'
  OBVIOUS
<1>1. CASE ResetTimeout \/ UNCHANGED vars
  <2>1. Running' = Running /\ Cancelling' = Cancelling
        /\ UNCHANGED <<status, attempts, counters>>
    BY <1>1 DEF ResetTimeout, vars, state, Running, Cancelling
  <2>2. QED
    BY <2>1 DEF ProbeInv, CancelsCounted, ProbesOwed
<1>2. QED
  BY <1>1, AdmitProbes, FinishProbes DEF Next

\* A snapshot of a circuit that is not closed shows at least max_failures failures, because
\* record_outcome counts a failure before it records it; and of the probes of a half-open circuit
\* more than half_open_max_calls run at once only by as many calls as were cancelled.
THEOREM CountsAreExplained == Spec => []CountsExplained
<1>1. IInv /\ ProbeInv => CountsExplained
  <2> SUFFICES ASSUME IInv, ProbeInv, status = "HalfOpen"
               PROVE  Cardinality(Running) <= HalfOpenMaxCalls + counters["Cancellation"]
    BY DEF CountsExplained, IInv, ProbesPaidFor, Running
  <2>1. Cardinality(Running) \in Nat /\ Cardinality(Cancelling) \in Nat
    BY SubsetsFinite DEF Running, Cancelling, IInv, TypeOK
  <2>2. attempts \in Nat /\ attempts <= HalfOpenMaxCalls /\ HalfOpenMaxCalls \in Nat
        /\ counters["Cancellation"] \in Nat
    BY BreakerConfig DEF IInv, TypeOK
  <2>3. QED
    BY <2>1, <2>2 DEF ProbeInv, ProbesOwed
<1>2. QED
  BY <1>1, InductiveInvariant, InitProbes, NextProbes, PTL DEF Spec

-----------------------------------------------------------------------------
(* MapReduce.  Every job in the set is running or waits to be joined, and  *)
(* a phase gives out no more jobs than it has inputs or groups.            *)

CONSTANTS Inputs, Mapped, MaxConcurrent

VARIABLES phase, pending, map_running, finished, mapped, grouped, reduced

Map == INSTANCE MapReduce WITH running <- map_running

mapVars == <<phase, pending, map_running, finished, mapped, grouped, reduced>>

Emitted == UNION {{Mapped[t][n] : n \in DOMAIN Mapped[t]} : t \in DOMAIN Mapped}

\* max_concurrent_tasks is at least one, and an input is named by its position.
MapConfig ==
  /\ MaxConcurrent \in Nat \ {0}
  /\ \A t \in DOMAIN Mapped : Mapped[t] \in Seq(Emitted)
  /\ Inputs \in Seq(DOMAIN Mapped)
  /\ \A i, j \in DOMAIN Inputs : Inputs[i] = Inputs[j] => i = j

Mapping ==
  phase = "map" =>
    /\ pending \in Seq(DOMAIN Mapped) /\ Len(pending) <= Len(Inputs)
    /\ map_running \subseteq DOMAIN Mapped /\ \A e \in finished : e.job \in DOMAIN Mapped

Reducing ==
  phase = "reduce" =>
    pending \in Seq(DOMAIN grouped) /\ Len(pending) <= Cardinality(DOMAIN grouped)

MapInv ==
  /\ MapConfig
  /\ phase \in {"map", "reduce", "ok", "panicked", "dropped"}
  /\ IsFiniteSet(map_running) /\ IsFiniteSet(finished) /\ IsFiniteSet(DOMAIN grouped)
  /\ mapped \in Seq(Emitted)
  /\ Mapping /\ Reducing
  /\ phase \notin {"map", "reduce"} => pending = <<>>
  /\ Map!JobsBounded

\* MapReduce counts jobs and keys with its own instance of FiniteSets.
LEMMA MapCounts == \A S : Map!Cardinality(S) = Cardinality(S)
<1>1. \A S : Map!IsFiniteSet(S) <=> IsFiniteSet(S)
  BY DEF Map!IsFiniteSet, IsFiniteSet
<1>2. QED
  BY <1>1 DEF Map!Cardinality, Cardinality

\* The jobs of the set, in numbers.
LEMMA MapJobs ==
  ASSUME MapInv
  PROVE  /\ Map!jobs = Cardinality(map_running) + Cardinality(finished)
         /\ Map!jobs' = Cardinality(map_running') + Cardinality(finished')
         /\ Cardinality(map_running) \in Nat /\ Cardinality(finished) \in Nat
<1>1. Cardinality(map_running) \in Nat /\ Cardinality(finished) \in Nat
  BY FS_CardinalityType DEF MapInv
<1>2. QED
  BY <1>1, MapCounts DEF Map!jobs

\* Nothing is spawned yet.
LEMMA InitMap == MapConfig /\ Map!Init => MapInv
<1> SUFFICES ASSUME MapConfig, Map!Init PROVE MapInv
  OBVIOUS
<1>1. /\ phase = "map" /\ pending = Inputs /\ map_running = {} /\ finished = {}
      /\ mapped = <<>> /\ grouped = <<>>
  BY DEF Map!Init
<1>2. DOMAIN grouped = {} /\ mapped \in Seq(Emitted) /\ Len(Inputs) \in Nat
  BY <1>1 DEF MapConfig
<1>3. IsFiniteSet({}) /\ Cardinality({}) = 0
  BY FS_EmptySet
<1>4. Map!jobs = 0
  <2>1. Cardinality(map_running) = 0 /\ Cardinality(finished) = 0
    BY <1>1, <1>3, Zenon
  <2>2. QED
    BY <2>1, MapCounts DEF Map!jobs
<1>5. QED
  BY <1>1, <1>2, <1>3, <1>4 DEF MapInv, Mapping, Reducing, Map!JobsBounded, MapConfig

\* A job is spawned only below the limit; in the reduce phase for any of the groups that are left.
LEMMA SpawnMap ==
  ASSUME MapInv, Map!spawn_map \/ Map!spawn_reduce
  PROVE  MapInv'
<1>1. PICK S : /\ S \in {DOMAIN Mapped, DOMAIN grouped} /\ (phase = "map" => S = DOMAIN Mapped)
               /\ (phase = "reduce" => S = DOMAIN grouped) /\ pending \in Seq(S)
  BY DEF Map!spawn_map, Map!spawn_reduce, MapInv, Mapping, Reducing
<1>2. PICK j \in S : map_running' = map_running \cup {j}
  <2>1. CASE Map!spawn_map
    BY <1>1, <2>1 DEF Map!spawn_map
  <2>2. CASE Map!spawn_reduce
    BY <1>1, <2>2 DEF Map!spawn_reduce
  <2>3. QED
    BY <2>1, <2>2
<1>3. pending' \in Seq(S) /\ Len(pending') <= Len(pending)
  <2>1. CASE Map!spawn_map
    BY <1>1, <2>1 DEF Map!spawn_map
  <2>2. CASE Map!spawn_reduce
    <3>1. PICK i \in 1..Len(pending) : pending' = Map!Without(pending, i)
      BY <2>2 DEF Map!spawn_reduce
    <3>2. pending' = SubSeq(pending, 1, i - 1) \o SubSeq(pending, i + 1, Len(pending))
      BY <3>1 DEF Map!Without
    <3>3. /\ SubSeq(pending, 1, i - 1) \in Seq(S) /\ Len(SubSeq(pending, 1, i - 1)) = i - 1
          /\ SubSeq(pending, i + 1, Len(pending)) \in Seq(S)
          /\ Len(SubSeq(pending, i + 1, Len(pending))) = Len(pending) - i
      BY <1>1, <3>1
    <3>4. QED
      BY <1>1, <3>1, <3>2, <3>3
  <2>3. QED
    BY <2>1, <2>2
<1>4. /\ UNCHANGED <<phase, finished, mapped, grouped>> /\ phase \in {"map", "reduce"} /\ ~Map!Full
  BY DEF Map!spawn_map, Map!spawn_reduce
<1>5. /\ IsFiniteSet(map_running')
      /\ Cardinality(map_running') \in Nat /\ Cardinality(map_running') <= Cardinality(map_running) + 1
  <2>1. IsFiniteSet(map_running \cup {j}) /\ Cardinality(map_running) \in Nat
        /\ Cardinality(map_running \cup {j}) \in {Cardinality(map_running), Cardinality(map_running) + 1}
    BY FS_AddElement, FS_CardinalityType DEF MapInv
  <2>2. IsFiniteSet(map_running')
        /\ Cardinality(map_running') \in {Cardinality(map_running), Cardinality(map_running) + 1}
    BY <1>2, <2>1, Zenon
  <2>3. QED
    BY <2>1, <2>2
<1>6. Map!JobsBounded'
  <2>1. Cardinality(finished') = Cardinality(finished)
    BY <1>4
  <2>2. Map!jobs < MaxConcurrent
    <3>1. Map!jobs <= MaxConcurrent /\ Map!jobs # MaxConcurrent /\ MaxConcurrent \in Nat
      BY <1>4 DEF MapInv, Map!JobsBounded, Map!Full, MapConfig
    <3>2. Map!jobs \in Nat
      BY MapJobs
    <3>3. QED
      BY <3>1, <3>2
  <2>3. Map!jobs' <= MaxConcurrent
    BY <1>5, <2>1, <2>2, MapJobs DEF MapInv, MapConfig
  <2>4. QED
    BY <2>3 DEF Map!JobsBounded
<1>7. Mapping'
  BY <1>1, <1>2, <1>3, <1>4 DEF MapInv, Mapping, MapConfig
<1>8. Reducing'
  <2>1. CASE phase = "reduce"
    <3>1. Cardinality(DOMAIN grouped) \in Nat /\ Cardinality((DOMAIN grouped)') = Cardinality(DOMAIN grouped)
      BY <1>4, FS_CardinalityType, Zenon DEF MapInv
    <3>2. QED
      BY <1>1, <1>3, <1>4, <2>1, <3>1 DEF MapInv, Reducing
  <2>2. QED
    BY <1>4, <2>1 DEF Reducing
<1>9. QED
  BY <1>4, <1>5, <1>6, <1>7, <1>8 DEF MapInv

\* A job that ends stays in the set until it is joined.
LEMMA FinishMap ==
  ASSUME MapInv, NEW j \in map_running, Map!Finish(j)
  PROVE  MapInv'
<1>1. /\ UNCHANGED <<phase, pending, mapped, grouped>> /\ map_running' = map_running \ {j}
      /\ finished' = finished
         \/ (phase \in {"map", "reduce"} /\ \E ok \in BOOLEAN : finished' = finished \cup {[job |-> j, ok |-> ok]})
  BY DEF Map!Finish
<1>2. /\ IsFiniteSet(map_running') /\ Cardinality(map_running') = Cardinality(map_running) - 1
  <2>1. IsFiniteSet(map_running \ {j}) /\ Cardinality(map_running \ {j}) = Cardinality(map_running) - 1
    BY FS_RemoveElement DEF MapInv
  <2>2. QED
    BY <1>1, <2>1, Zenon
<1>3. /\ IsFiniteSet(finished') /\ Cardinality(finished') \in {Cardinality(finished), Cardinality(finished) + 1}
  <2>1. CASE finished' = finished
    BY <2>1, Zenon DEF MapInv
  <2>2. ASSUME NEW x, finished' = finished \cup {x} PROVE <1>3
    <3>1. IsFiniteSet(finished \cup {x})
          /\ Cardinality(finished \cup {x}) \in {Cardinality(finished), Cardinality(finished) + 1}
      BY FS_AddElement, FS_CardinalityType DEF MapInv
    <3>2. QED
      BY <2>2, <3>1, Zenon
  <2>3. QED
    BY <1>1, <2>1, <2>2, Zenon
<1>4. Map!JobsBounded'
  BY <1>1, <1>2, <1>3, MapJobs DEF MapInv, Map!JobsBounded, MapConfig
<1>5. Mapping'
  BY <1>1 DEF MapInv, Mapping
<1>6. Reducing'
  BY <1>1, Zenon DEF MapInv, Reducing
<1>7. QED
  BY <1>1, <1>2, <1>3, <1>4, <1>5, <1>6 DEF MapInv

\* A joined job leaves the set; a panic, or the caller, ends the execution.
LEMMA JoinMap ==
  ASSUME MapInv, Map!Drop \/ \E e \in finished : Map!join_map(e) \/ Map!join_reduce(e)
  PROVE  MapInv'
<1>1. ASSUME Map!Stop("panicked") \/ Map!Stop("dropped") PROVE MapInv'
  <2>1. /\ phase' \in {"panicked", "dropped"} /\ pending' = <<>> /\ finished' = {}
        /\ UNCHANGED <<map_running, mapped, grouped>>
    BY <1>1 DEF Map!Stop
  <2>2. IsFiniteSet({})
    BY FS_EmptySet
  <2>3. QED
    BY <2>1, <2>2 DEF MapInv, Mapping, Reducing, Map!JobsBounded
<1>2. ASSUME NEW e \in finished, finished' = finished \ {e}, mapped' \in Seq(Emitted),
             UNCHANGED <<phase, pending, map_running, grouped>>
      PROVE  MapInv'
  <2>1. IsFiniteSet(finished') /\ Cardinality(finished') = Cardinality(finished) - 1
    <3>1. IsFiniteSet(finished \ {e}) /\ Cardinality(finished \ {e}) = Cardinality(finished) - 1
      BY FS_RemoveElement DEF MapInv
    <3>2. QED
      BY <1>2, <3>1, Zenon
  <2>2. Map!JobsBounded'
    <3>1. Cardinality(map_running') = Cardinality(map_running)
      BY <1>2, Zenon
    <3>2. QED
      BY <1>2, <2>1, <3>1, MapJobs DEF MapInv, Map!JobsBounded, MapConfig
  <2>3. Mapping'
    BY <1>2 DEF MapInv, Mapping
  <2>4. Reducing'
    BY <1>2, Zenon DEF MapInv, Reducing
  <2>5. QED
    BY <1>2, <2>1, <2>2, <2>3, <2>4 DEF MapInv
<1>3. ASSUME NEW e \in finished, Map!join_map(e) PROVE MapInv'
  <2>1. CASE ~e.ok
    BY <1>1, <1>3, <2>1 DEF Map!join_map
  <2>2. CASE e.ok
    <3>1. mapped \o Mapped[e.job] \in Seq(Emitted)
      BY <1>3 DEF Map!join_map, MapInv, Mapping, MapConfig
    <3>2. QED
      BY <1>2, <1>3, <2>2, <3>1 DEF Map!join_map
  <2>3. QED
    BY <2>1, <2>2
<1>4. ASSUME NEW e \in finished, Map!join_reduce(e) PROVE MapInv'
  <2>1. CASE ~e.ok
    BY <1>1, <1>4, <2>1 DEF Map!join_reduce
  <2>2. CASE e.ok
    BY <1>2, <1>4, <2>2 DEF Map!join_reduce, MapInv
  <2>3. QED
    BY <2>1, <2>2
<1>5. QED
  BY <1>1, <1>3, <1>4 DEF Map!Drop

\* A finite set is laid out as a sequence of its elements, as long as it is large.
LEMMA KeysInOrder ==
  ASSUME NEW S, IsFiniteSet(S)
  PROVE  Map!InSomeOrder(S) \in Seq(S) /\ Len(Map!InSomeOrder(S)) = Cardinality(S)
<1>1. Cardinality(S) \in Nat /\ Cardinality(S) = Cardinality(S)
      /\ \E f \in [1..Cardinality(S) -> S] : \A a, b \in 1..Cardinality(S) : f[a] = f[b] => a = b
  BY FS_CardinalityType DEF ExistsBijection, Bijection, Injection, IsInjective
<1>2. Map!Cardinality(S) = Cardinality(S)
  BY MapCounts
<1>3. \E f \in [1..Map!Cardinality(S) -> S] : Map!IsInjective(f)
  BY <1>1, <1>2 DEF Map!IsInjective
<1>4. Map!InSomeOrder(S) \in [1..Map!Cardinality(S) -> S]
  BY <1>3, Zenon DEF Map!InSomeOrder
<1>5. QED
  BY <1>1, <1>2, <1>4

\* The reduce phase begins with the groups that shuffle_phase made.
LEMMA ExecuteMap == MapInv /\ Map!execute => MapInv'
<1> SUFFICES ASSUME MapInv, Map!execute PROVE MapInv'
  OBVIOUS
<1>1. /\ UNCHANGED <<map_running, finished, mapped>> /\ Map!jobs = 0
  BY DEF Map!execute
<1>2. Map!jobs' = 0
  BY <1>1 DEF Map!jobs
<1>3. CASE phase = "reduce" /\ phase' = "ok" /\ UNCHANGED <<pending, grouped>>
  BY <1>1, <1>3 DEF MapInv, Mapping, Reducing, Map!JobsBounded, Map!execute
<1>4. CASE /\ phase = "map" /\ phase' = "reduce" /\ grouped' = Map!shuffle_phase(mapped)
           /\ pending' = Map!InSomeOrder(Map!KeysOf(mapped))
  <2>1. DOMAIN grouped' = Map!KeysOf(mapped)
    BY <1>4 DEF Map!shuffle_phase
  <2>2. IsFiniteSet(Map!KeysOf(mapped))
    <3> DEFINE f == [i \in 1..Len(mapped) |-> mapped[i].key]
    <3>1. Len(mapped) \in Nat
      BY DEF MapInv
    <3>2. IsFiniteSet(1..Len(mapped))
      BY <3>1, FS_Interval
    <3>3. f \in Surjection(1..Len(mapped), Map!KeysOf(mapped))
      BY DEF Map!KeysOf, Surjection
    <3>4. QED
      BY <3>2, <3>3, FS_Surjection
  <2>3. /\ pending' \in Seq(DOMAIN grouped') /\ Len(pending') = Cardinality(DOMAIN grouped')
    BY <1>4, <2>1, <2>2, KeysInOrder, Zenon
  <2>4. Cardinality(DOMAIN grouped') \in Nat
    BY <2>1, <2>2, FS_CardinalityType, Zenon
  <2>5. QED
    BY <1>1, <1>2, <1>4, <2>1, <2>2, <2>3, <2>4 DEF MapInv, Mapping, Reducing, Map!JobsBounded, MapConfig
<1>5. QED
  BY <1>3, <1>4 DEF Map!execute

\* No spawn, join, panic or drop exceeds max_concurrent_tasks.
LEMMA NextMap == MapInv /\ [Map!Next]_mapVars => MapInv'
<1> SUFFICES ASSUME MapInv, [Map!Next]_mapVars PROVE MapInv'
  OBVIOUS
<1>1. CASE UNCHANGED mapVars
  <2>1. Map!jobs' = Map!jobs
    BY <1>1 DEF mapVars, Map!jobs
  <2>2. QED
    BY <1>1, <2>1, Zenon DEF mapVars, MapInv, Mapping, Reducing, Map!JobsBounded
<1>2. QED
  BY <1>1, SpawnMap, FinishMap, JoinMap, ExecuteMap, Zenon DEF Map!Next

\* A phase has no more jobs to give out than inputs or groups.
LEMMA MapTypes == MapInv => Map!TypeOK
<1> SUFFICES ASSUME MapInv PROVE Map!TypeOK
  OBVIOUS
<1>1. /\ Map!Cardinality(DOMAIN grouped) = Cardinality(DOMAIN grouped)
      /\ Cardinality(DOMAIN grouped) \in Nat /\ Len(Inputs) \in Nat
  BY MapCounts, FS_CardinalityType DEF MapInv, MapConfig
<1>2. QED
  BY <1>1 DEF MapInv, Mapping, Reducing, Map!TypeOK

-----------------------------------------------------------------------------
(* SingleFlight.  The invariant says who may still answer a caller that    *)
(* waits: the leader of its flight while the flight is in the map, and the *)
(* one caller that took it out afterwards.                                 *)

CONSTANTS Callers, Keys, Results, LeaderCancelled

VARIABLES flights, waiters, pc, key, taken, result

Flight == INSTANCE SingleFlight

flightVars == <<flights, waiters, pc, key, taken, result>>

FlightTyped ==
  /\ flights \subseteq Keys
  /\ waiters \in [Keys -> SUBSET Callers]
  /\ pc \in [Callers -> {"idle", "leading", "waiting", "landing", "done", "dropped"}]
  /\ key \in [Callers -> Keys]
  /\ taken \in [Callers -> SUBSET Callers]
  /\ result \in [Callers -> {{}} \cup {{r} : r \in Flight!Outcomes}]

\* The flights in the map are those of the leaders, one each.
Led ==
  /\ \A c \in Callers : pc[c] = "leading" => key[c] \in flights
  /\ \A k \in flights : \E c \in Callers : pc[c] = "leading" /\ key[c] = k
  /\ \A c, d \in Callers : pc[c] = "leading" /\ pc[d] = "leading" /\ key[c] = key[d] => c = d

\* Who is with a flight in the map asked for its key and has not been answered.
Boarded ==
  /\ \A k \in Keys : k \notin flights => waiters[k] = {}
  /\ \A k \in Keys : \A w \in waiters[k] : key[w] = k /\ pc[w] \in {"waiting", "dropped"}

\* So has who was taken out of the map, by one caller only.
Released ==
  /\ \A c \in Callers : pc[c] = "landing" =>
       \A w \in taken[c] : pc[w] \in {"waiting", "dropped"} /\ w \notin waiters[key[w]]
  /\ \A c, d \in Callers : pc[c] = "landing" /\ pc[d] = "landing" /\ c # d => taken[c] \cap taken[d] = {}

\* Nobody waits elsewhere.
Awaited ==
  \A w \in Callers : pc[w] = "waiting" =>
    \/ w \in waiters[key[w]]
    \/ \E c \in Callers : pc[c] = "landing" /\ w \in taken[c]

FlightInv == FlightTyped /\ Led /\ Boarded /\ Released /\ Awaited

\* The initial states satisfy the invariant: nobody has called yet.
LEMMA InitFlight == Flight!Init => FlightInv
BY DEF Flight!Init, FlightInv, FlightTyped, Led, Boarded, Released, Awaited

\* Registering as leader or as waiter, under the map's lock, keeps the invariant.
LEMMA EnterFlight ==
  ASSUME FlightInv, NEW c \in Callers, Flight!Lead(c) \/ Flight!Join(c)
  PROVE  FlightInv'
<1>1. CASE Flight!Lead(c)
  <2>1. FlightTyped'
    BY <1>1 DEF Flight!Lead, FlightInv, FlightTyped
  <2>2. Led'
    BY <1>1 DEF Flight!Lead, FlightInv, FlightTyped, Led
  <2>3. waiters' = waiters
    BY <1>1 DEF Flight!Lead, FlightInv, FlightTyped, Boarded
  <2>4. Boarded' /\ Released' /\ Awaited'
    BY <1>1, <2>3 DEF Flight!Lead, FlightInv, FlightTyped, Boarded, Released, Awaited
  <2>5. QED
    BY <2>1, <2>2, <2>4 DEF FlightInv
<1>2. CASE Flight!Join(c)
  <2>1. FlightTyped' /\ Led'
    BY <1>2 DEF Flight!Join, FlightInv, FlightTyped, Led
  <2>2. Boarded'
    BY <1>2 DEF Flight!Join, FlightInv, FlightTyped, Boarded
  <2>3. Released'
    BY <1>2 DEF Flight!Join, FlightInv, FlightTyped, Released
  <2>4. Awaited'
    BY <1>2 DEF Flight!Join, FlightInv, FlightTyped, Awaited
  <2>5. QED
    BY <2>1, <2>2, <2>3, <2>4 DEF FlightInv
<1>3. QED
  BY <1>1, <1>2

\* When the operation returns, its flight leaves the map and its waiters go with the leader.
LEMMA LandFlight ==
  ASSUME FlightInv, NEW c \in Callers, NEW r \in Results, Flight!Land(c, r)
  PROVE  FlightInv'
<1>1. FlightTyped'
  BY DEF Flight!Land, Flight!Remove, FlightInv, FlightTyped, Flight!Outcomes
<1>2. Led'
  BY DEF Flight!Land, Flight!Remove, FlightInv, FlightTyped, Led
<1>3. Boarded'
  BY DEF Flight!Land, Flight!Remove, FlightInv, FlightTyped, Boarded
<1>4. Released'
  BY DEF Flight!Land, Flight!Remove, FlightInv, FlightTyped, Boarded, Released
<1>5. Awaited'
  BY DEF Flight!Land, Flight!Remove, FlightInv, FlightTyped, Boarded, Awaited
<1>6. QED
  BY <1>1, <1>2, <1>3, <1>4, <1>5 DEF FlightInv

\* Sending the result answers those the leader took, and nobody else.
LEMMA NotifyFlight ==
  ASSUME FlightInv, NEW c \in Callers, Flight!Notify(c)
  PROVE  FlightInv'
<1>1. FlightTyped' /\ Led'
  BY DEF Flight!Notify, Flight!Deliver, FlightInv, FlightTyped, Led, Released
<1>2. Boarded'
  BY DEF Flight!Notify, Flight!Deliver, FlightInv, FlightTyped, Boarded, Released
<1>3. Released'
  BY DEF Flight!Notify, Flight!Deliver, FlightInv, FlightTyped, Released
<1>4. Awaited'
  BY DEF Flight!Notify, Flight!Deliver, FlightInv, FlightTyped, Released, Awaited
<1>5. QED
  BY <1>1, <1>2, <1>3, <1>4 DEF FlightInv

\* The guard of a dropped leader removes the flight and answers its waiters.
LEMMA CancelFlight ==
  ASSUME FlightInv, NEW c \in Callers, Flight!CancelLeader(c)
  PROVE  FlightInv'
<1>1. FlightTyped'
  BY DEF Flight!CancelLeader, Flight!Remove, FlightInv, FlightTyped, Flight!Outcomes
<1>2. Led'
  BY DEF Flight!CancelLeader, Flight!Remove, FlightInv, FlightTyped, Led, Boarded
<1>3. Boarded'
  BY DEF Flight!CancelLeader, Flight!Remove, FlightInv, FlightTyped, Boarded
<1>4. Released'
  BY DEF Flight!CancelLeader, Flight!Remove, FlightInv, FlightTyped, Boarded, Released
<1>5. Awaited'
  BY DEF Flight!CancelLeader, Flight!Remove, FlightInv, FlightTyped, Boarded, Released, Awaited
<1>6. QED
  BY <1>1, <1>2, <1>3, <1>4, <1>5 DEF FlightInv

\* Every step of execute, and every drop of a future, keeps the invariant.
LEMMA NextFlight == FlightInv /\ [Flight!Next]_flightVars => FlightInv'
<1> SUFFICES ASSUME FlightInv, [Flight!Next]_flightVars PROVE FlightInv'
  OBVIOUS
<1>1. CASE UNCHANGED flightVars
  BY <1>1 DEF flightVars, FlightInv, FlightTyped, Led, Boarded, Released, Awaited
<1>2. ASSUME NEW c \in Callers, Flight!CancelWaiter(c) PROVE FlightInv'
  BY <1>2 DEF Flight!CancelWaiter, FlightInv, FlightTyped, Led, Boarded, Released, Awaited
<1>3. QED
  BY <1>1, <1>2, EnterFlight, LandFlight, NotifyFlight, CancelFlight DEF Flight!Next

\* SingleFlight counts as FiniteSets does.
LEMMA FlightCounts == \A S : Flight!Cardinality(S) = Cardinality(S)
<1>1. \A S : Flight!IsFiniteSet(S) <=> IsFiniteSet(S)
  BY DEF Flight!IsFiniteSet, IsFiniteSet
<1>2. QED
  BY <1>1 DEF Flight!Cardinality, Cardinality

\* No call has two results.
LEMMA OneResult == FlightInv => Flight!TypeOK
<1> SUFFICES ASSUME FlightInv, NEW c \in Callers
             PROVE  result[c] \subseteq Flight!Outcomes /\ Flight!Cardinality(result[c]) <= 1
  BY DEF FlightInv, FlightTyped, Flight!TypeOK
<1>1. result[c] = {} \/ \E r \in Flight!Outcomes : result[c] = {r}
  BY DEF FlightInv, FlightTyped
<1>2. CASE result[c] = {}
  <2>1. Flight!Cardinality(result[c]) = 0
    BY <1>2, FlightCounts, FS_EmptySet, Zenon
  <2>2. QED
    BY <1>2, <2>1
<1>3. ASSUME NEW r \in Flight!Outcomes, result[c] = {r}
      PROVE  result[c] \subseteq Flight!Outcomes /\ Flight!Cardinality(result[c]) <= 1
  <2>1. Cardinality({r}) = 1
    BY FS_Singleton
  <2>2. Flight!Cardinality(result[c]) = 1
    BY <1>3, <2>1, FlightCounts, Zenon
  <2>3. QED
    BY <1>3, <2>2
<1>4. QED
  BY <1>1, <1>2, <1>3

\* A flight in the map has exactly one leader, and a leader's flight is in the map.
LEMMA OneOperationPerKey == FlightInv => Flight!OneLeaderPerFlight
<1> SUFFICES ASSUME FlightInv, NEW k \in Keys
             PROVE  Flight!Cardinality(Flight!Leaders(k)) = (IF k \in flights THEN 1 ELSE 0)
  BY DEF Flight!OneLeaderPerFlight
<1>1. CASE k \in flights
  <2>1. PICK c \in Callers : pc[c] = "leading" /\ key[c] = k
    BY <1>1 DEF FlightInv, Led
  <2>2. Flight!Leaders(k) = {c}
    BY <2>1 DEF FlightInv, Led, Flight!Leaders
  <2>3. Flight!Cardinality(Flight!Leaders(k)) = 1
    BY <2>2, FlightCounts, FS_Singleton, Zenon
  <2>4. QED
    BY <1>1, <2>3
<1>2. CASE k \notin flights
  <2>1. Flight!Leaders(k) = {}
    BY <1>2 DEF FlightInv, Led, Flight!Leaders
  <2>2. Flight!Cardinality(Flight!Leaders(k)) = 0
    BY <2>1, FlightCounts, FS_EmptySet, Zenon
  <2>3. QED
    BY <1>2, <2>2
<1>3. QED
  BY <1>1, <1>2

\* A caller that waits is with a flight that has a leader, or with the one caller that is about
\* to answer it.
LEMMA NobodyWaitsAlone == FlightInv => Flight!WaitersHaveALeader
<1> SUFFICES ASSUME FlightInv, NEW w \in Callers, pc[w] = "waiting"
             PROVE  LET holders == {c \in Callers : pc[c] = "landing" /\ w \in taken[c]}
                    IN  IF w \in waiters[key[w]] THEN Flight!Leaders(key[w]) # {} /\ holders = {}
                                                 ELSE Flight!Cardinality(holders) = 1
  BY DEF Flight!WaitersHaveALeader
<1> DEFINE holders == {c \in Callers : pc[c] = "landing" /\ w \in taken[c]}
<1>1. CASE w \in waiters[key[w]]
  <2>1. holders = {}
    BY <1>1 DEF FlightInv, Released
  <2>2. Flight!Leaders(key[w]) # {}
    BY <1>1 DEF FlightInv, FlightTyped, Led, Boarded, Flight!Leaders
  <2>3. QED
    BY <1>1, <2>1, <2>2
<1>2. CASE w \notin waiters[key[w]]
  <2>1. PICK c \in Callers : pc[c] = "landing" /\ w \in taken[c]
    BY <1>2 DEF FlightInv, Awaited
  <2>2. holders = {c}
    BY <2>1 DEF FlightInv, Released
  <2>3. Flight!Cardinality(holders) = 1
    BY <2>2, FlightCounts, FS_Singleton, Zenon
  <2>4. QED
    BY <1>2, <2>3
<1>3. QED
  BY <1>1, <1>2

-----------------------------------------------------------------------------
(* DelayExecutor, PeriodicExecutor and LessExecutor.  The time a           *)
(* LessExecutor keeps is that of its latest job, so a job that may run is  *)
(* more than the threshold after all of them.                              *)

CONSTANTS Takers, Threshold, MaxTriggers, MaxClock

\* A threshold is a Duration.
ASSUME DelayConfig == Threshold \in Nat /\ MaxTriggers \in Nat /\ MaxClock \in Nat

VARIABLES delay_kind, triggered, sent, caller, delay_worker, delay_owner, delay_count, owed, clock,
  delay_now, last, ran

Delay == INSTANCE DelayExecutor WITH
  Callers <- Takers, kind <- delay_kind, worker <- delay_worker, owner <- delay_owner,
  count <- delay_count, now <- delay_now

delayVars == <<delay_kind, triggered, sent, caller, delay_worker, delay_owner, delay_count, owed,
  clock, delay_now, last, ran>>

\* `last` is the time of the latest job.
LatestKept ==
  /\ (last = {} /\ ran = {}) \/ \E t \in 0..MaxClock : last = {t}
  /\ ran \subseteq Takers \X (0..MaxClock)
  /\ \A a \in ran, t \in last : a[2] <= t

DelayInv ==
  /\ Delay!TypeOK /\ clock \in 0..MaxClock
  /\ Delay!QuietAfterShutdown /\ LatestKept /\ Delay!LessSpaced

\* No job has run yet.
LEMMA InitDelay == Delay!Init => DelayInv
<1> SUFFICES ASSUME Delay!Init PROVE DelayInv
  OBVIOUS
<1>1. triggered \in BOOLEAN /\ sent \in BOOLEAN /\ owed \in BOOLEAN
  BY Zenon DEF Delay!Init
<1>2. QED
  BY <1>1, DelayConfig DEF Delay!Init, DelayInv, Delay!TypeOK, Delay!QuietAfterShutdown, LatestKept,
    Delay!LessSpaced

\* The flag and the message of a trigger do not revive a worker, and leave LessExecutor alone.
LEMMA TriggerKeeps ==
  ASSUME DelayInv, NEW c \in Takers, Delay!TriggerClaim(c) \/ Delay!TriggerSend(c)
  PROVE  DelayInv'
<1>1. /\ UNCHANGED <<delay_kind, delay_worker, delay_owner, clock, delay_now, last, ran>>
      /\ caller' \in [Takers -> {"idle", "claimed", "timed"}]
  BY DEF Delay!TriggerClaim, Delay!TriggerSend, Delay!less_vars, DelayInv, Delay!TypeOK
<1>2. triggered' \in BOOLEAN /\ sent' \in BOOLEAN /\ owed' \in BOOLEAN
  <2>1. triggered \in BOOLEAN /\ sent \in BOOLEAN /\ owed \in BOOLEAN
    BY Zenon DEF DelayInv, Delay!TypeOK
  <2>2. CASE Delay!TriggerClaim(c)
    BY <2>1, <2>2, Zenon DEF Delay!TriggerClaim
  <2>3. CASE Delay!TriggerSend(c)
    BY <2>1, <2>3, Zenon DEF Delay!TriggerSend
  <2>4. QED
    BY <2>2, <2>3, Zenon
<1>3. QED
  BY <1>1, <1>2 DEF DelayInv, Delay!TypeOK, Delay!QuietAfterShutdown, LatestKept, Delay!LessSpaced

\* A step of the worker or of shutdown leaves a worker that has ended as it is.
LEMMA WorkerKeeps ==
  ASSUME DelayInv,
         \/ Delay!Worker \/ Delay!JobEnds \/ Delay!shutdown \/ Delay!drop
         \/ Delay!WorkerJoined \/ Delay!Deadline
  PROVE  DelayInv'
<1> USE DEF Delay!Worker, Delay!Receive, Delay!Slept, Delay!StartJob, Delay!Stop, Delay!JobEnds,
      Delay!shutdown, Delay!drop, Delay!WorkerJoined, Delay!Deadline, Delay!Alive, Delay!less_vars
<1>1. UNCHANGED <<delay_kind, caller, clock, delay_now, last, ran>>
  OBVIOUS
<1>2. /\ delay_worker' \in {"select", "sleeping", "cleared", "running", "ended", "failed"}
      /\ delay_owner' \in {"open", "stopping", "dropped", "Ok", "Job", "TimedOut"}
      /\ Delay!QuietAfterShutdown'
  BY DEF DelayInv, Delay!TypeOK, Delay!QuietAfterShutdown
<1>3. triggered' \in BOOLEAN /\ sent' \in BOOLEAN /\ owed' \in BOOLEAN
  <2>1. triggered \in BOOLEAN /\ sent \in BOOLEAN /\ owed \in BOOLEAN
    BY Zenon DEF DelayInv, Delay!TypeOK
  <2>2. triggered' = triggered \/ triggered' = FALSE
    BY Zenon
  <2>3. sent' = sent \/ sent' = FALSE
    BY Zenon
  <2>4. owed' = owed \/ owed' = FALSE \/ owed' = (owed /\ delay_worker' = "select")
    BY Zenon
  <2>5. QED
    BY <2>1, <2>2, <2>3, <2>4, Zenon
<1>4. QED
  BY <1>1, <1>2, <1>3 DEF DelayInv, Delay!TypeOK, LatestKept, Delay!LessSpaced

\* do_or_discard lets a job run only more than the threshold after the latest one, whenever its
\* caller read the clock.
LEMMA DoOrDiscardKeeps ==
  ASSUME DelayInv, NEW c \in Takers, Delay!do_or_discard(c)
  PROVE  DelayInv'
<1>1. /\ UNCHANGED <<delay_kind, triggered, sent, delay_worker, delay_owner, owed, clock, delay_now>>
      /\ caller' \in [Takers -> {"idle", "claimed", "timed"}]
  BY DEF Delay!do_or_discard, DelayInv, Delay!TypeOK
<1>2. CASE Delay!Discarded(c)
  BY <1>1, <1>2 DEF Delay!do_or_discard, DelayInv, Delay!TypeOK, Delay!QuietAfterShutdown,
    LatestKept, Delay!LessSpaced
<1>3. CASE ~Delay!Discarded(c)
  <2>1. /\ last' = {delay_now[c]} /\ ran' = ran \cup {<<c, delay_now[c]>>}
        /\ delay_now[c] \in 0..MaxClock
    BY <1>3 DEF Delay!do_or_discard, DelayInv, Delay!TypeOK
  <2>2. \A t \in last : t \in 0..MaxClock /\ t + Threshold < delay_now[c]
    BY <1>3, <2>1, DelayConfig DEF Delay!Discarded, Delay!Since, DelayInv, Delay!TypeOK
  <2>3. \A a \in ran : a \in Takers \X (0..MaxClock) /\ a[2] + Threshold < delay_now[c]
    <3>1. ASSUME NEW a \in ran PROVE a[2] + Threshold < delay_now[c]
      <4>1. PICK t \in 0..MaxClock : last = {t}
        BY DEF DelayInv, LatestKept
      <4>2. a[2] \in 0..MaxClock /\ a[2] <= t /\ t + Threshold < delay_now[c]
        BY <2>2, <4>1 DEF DelayInv, LatestKept
      <4>3. QED
        BY <2>1, <4>2, DelayConfig
    <3>2. QED
      BY <3>1 DEF DelayInv, LatestKept
  <2>4. LatestKept'
    BY <2>1, <2>3, DelayConfig DEF LatestKept
  <2>5. Delay!LessSpaced'
    <3> SUFFICES ASSUME NEW a \in ran', NEW b \in ran', a # b
                 PROVE  a[2] > b[2] + Threshold \/ b[2] > a[2] + Threshold
      BY DEF Delay!LessSpaced
    <3>1. CASE a \in ran /\ b \in ran
      BY <3>1 DEF DelayInv, Delay!LessSpaced
    <3>2. CASE a = <<c, delay_now[c]>> /\ b \in ran
      BY <2>1, <2>3, <3>2, DelayConfig
    <3>3. CASE b = <<c, delay_now[c]>> /\ a \in ran
      BY <2>1, <2>3, <3>3, DelayConfig
    <3>4. QED
      BY <2>1, <3>1, <3>2, <3>3
  <2>6. QED
    BY <1>1, <2>1, <2>4, <2>5 DEF DelayInv, Delay!TypeOK, Delay!QuietAfterShutdown
<1>4. QED
  BY <1>2, <1>3

\* No step of a trigger, the worker, shutdown, drop or do_or_discard breaks the invariant.
LEMMA NextDelay == DelayInv /\ [Delay!Next]_delayVars => DelayInv'
<1> SUFFICES ASSUME DelayInv, [Delay!Next]_delayVars PROVE DelayInv'
  OBVIOUS
<1>1. CASE UNCHANGED delayVars
  BY <1>1 DEF delayVars, DelayInv, Delay!TypeOK, Delay!QuietAfterShutdown, LatestKept, Delay!LessSpaced
<1>2. ASSUME NEW c \in Takers, Delay!ReadClock(c) PROVE DelayInv'
  BY <1>2 DEF Delay!ReadClock, DelayInv, Delay!TypeOK, Delay!QuietAfterShutdown, LatestKept,
    Delay!LessSpaced
<1>3. CASE Delay!Advance
  BY <1>3, DelayConfig DEF Delay!Advance, DelayInv, Delay!TypeOK, Delay!QuietAfterShutdown, LatestKept,
    Delay!LessSpaced
<1>4. CASE Delay!Delay \/ Delay!Periodic
  <2>1. Delay!Worker \/ Delay!JobEnds
    BY <1>4, Zenon DEF Delay!Delay, Delay!Periodic, Delay!Worker
  <2>2. QED
    BY <2>1, WorkerKeeps
<1>5. QED
  BY <1>1, <1>2, <1>3, <1>4, TriggerKeeps, WorkerKeeps, DoOrDiscardKeeps, Zenon DEF Delay!Next

-----------------------------------------------------------------------------
(* ContinuousProfiler.  A thread that waits began to before its interval   *)
(* was over, and left no agent behind whose window had passed then.        *)

CONSTANTS Interval, Duration, MaxProfile

\* Milliseconds; validate refuses a zero.
ASSUME ProfilerConfig == Interval \in Nat /\ Duration \in Nat /\ MaxProfile \in Nat

VARIABLES profiler_clock, config, handle, profiler_worker, woken, stop, agent, profiler_result

Profiler == INSTANCE ContinuousProfiler WITH
  MaxClock <- MaxProfile, clock <- profiler_clock, worker <- profiler_worker,
  result <- profiler_result

profilerVars == <<profiler_clock, config, handle, profiler_worker, woken, stop, agent,
  profiler_result>>

\* Only validated settings start a thread, the thread keeps its times, and it leaves nothing
\* behind.
Profiled ==
  /\ woken \in Nat /\ woken <= profiler_clock
  /\ agent = {} \/ \E s \in Nat : agent = {s} /\ s <= profiler_clock
  /\ profiler_worker # "none" => config.interval = Interval /\ config.duration = Duration /\ Duration > 0
  /\ profiler_worker = "none" => handle \in {"none", "refused"} /\ agent = {}
  /\ profiler_worker # "none" => handle \notin {"none", "refused"}
  /\ profiler_worker \in {"waiting", "awake", "leaving"} => profiler_clock <= woken + Interval
  /\ \A s \in agent : woken - s < Duration /\ profiler_clock - s <= Duration + Interval
  /\ profiler_worker = "ended" <=> profiler_result # {}
  /\ profiler_worker = "ended" => agent = {}
  /\ handle = "joined" => profiler_worker = "ended"

ProfilerInv == Profiler!TypeOK /\ config \in Profiler!Configs /\ Profiled

\* No thread has been started.
LEMMA InitProfiler == Profiler!Init => ProfilerInv
BY ProfilerConfig DEF Profiler!Init, Profiler!None, ProfilerInv, Profiled, Profiler!TypeOK

\* Every wake-up of the thread looks at the window, so that an agent is never more than one check
\* late, and the thread stops it on every way out.
LEMMA NextProfiler == ProfilerInv /\ [Profiler!Next]_profilerVars => ProfilerInv'
<1> SUFFICES ASSUME ProfilerInv, [Profiler!Next]_profilerVars PROVE ProfilerInv'
  OBVIOUS
<1> USE ProfilerConfig DEF ProfilerInv, Profiled, Profiler!TypeOK, Profiler!None, Profiler!Some
<1>1. CASE Profiler!start
  BY <1>1 DEF Profiler!start, Profiler!validate, Profiler!Configs
<1>2. CASE Profiler!recv_timeout
  BY <1>2 DEF Profiler!recv_timeout, Profiler!Leave
<1>3. CASE Profiler!check
  BY <1>3 DEF Profiler!check, Profiler!Wait, Profiler!End
<1>4. CASE Profiler!leave
  BY <1>4 DEF Profiler!leave, Profiler!End
<1>5. CASE Profiler!shutdown
  BY <1>5 DEF Profiler!shutdown
<1>6. CASE Profiler!join_worker
  BY <1>6 DEF Profiler!join_worker
<1>7. CASE Profiler!Tick
  BY <1>7 DEF Profiler!Tick
<1>8. CASE UNCHANGED profilerVars
  BY <1>8 DEF profilerVars
<1>9. QED
  BY <1>1, <1>2, <1>3, <1>4, <1>5, <1>6, <1>7, <1>8, Zenon DEF Profiler!Next

\* An agent stays within its window and one check, and not beyond its thread.
LEMMA ProfilerKeeps == ProfilerInv => Profiler!AgentWithinWindow
BY DEF ProfilerInv, Profiled, Profiler!AgentWithinWindow, Profiler!None

-----------------------------------------------------------------------------
(* All of them together.  They share no state.                             *)

CONSTANTS Items, Weights, Flushers, Limit, BatchCapacity

VARIABLES
  kind, channel, batch, bytes, worker, running, after, flush, owner, accepted, executed, before

Batch == INSTANCE BatchExecutor WITH Capacity <- BatchCapacity

\* A capacity is a usize, max_concurrent_tasks is at least one, and an input is named by its
\* position.
ASSUME WorkConfig == Batch!BatchConfig /\ MapConfig

batchVars == <<kind, channel, batch, bytes, worker, running, after, flush, owner, accepted,
  executed, before>>

Resilience ==
  /\ Init /\ [][Next]_vars
  /\ Flight!Init /\ [][Flight!Next]_flightVars
  /\ Delay!Init /\ [][Delay!Next]_delayVars
  /\ Profiler!Init /\ [][Profiler!Next]_profilerVars
  /\ Batch!Init /\ [][Batch!Next]_batchVars
  /\ Map!Init /\ [][Map!Next]_mapVars

\* Every component keeps its types.
TypesOK ==
  /\ TypeOK /\ Flight!TypeOK /\ Batch!TypeOK
  /\ Delay!TypeOK /\ Profiler!TypeOK /\ Map!TypeOK

\* SingleFlight::execute runs one operation per key at a time, and whoever waits for a flight
\* waits for a leader that has yet to tell it.
FlightsLed == Flight!FlightsLed

\* Background work is done exactly: a batch executor executes what it accepted once and in
\* order and a flush covers what was pushed before it; a delayed executor is quiet after
\* shutdown; a LessExecutor spaces its jobs; map_reduce has at most max_concurrent_tasks jobs;
\* a profiling agent never outlives its window or the handle.
WorkDoneExactly ==
  /\ Batch!ItemsInOrder /\ Batch!FlushCovers
  /\ Delay!QuietAfterShutdown /\ Delay!LessSpaced
  /\ Map!JobsBounded
  /\ Profiler!AgentWithinWindow

\* Each component's invariant, whatever the others do.
LEMMA ComponentsHold ==
  Resilience => [](IInv /\ FlightInv /\ DelayInv /\ ProfilerInv /\ Batch!BatchInv /\ MapInv)
<1>1. Batch!Init => Batch!BatchInv
  BY WorkConfig, Batch!InitBatch
<1>2. Batch!BatchInv /\ [Batch!Next]_batchVars => (Batch!BatchInv)'
  BY Batch!NextBatch DEF batchVars, Batch!vars
<1>3. Map!Init => MapInv
  BY WorkConfig, InitMap
<1>4. QED
  BY <1>1, <1>2, <1>3, InitInv, NextInv, NextMap, InitFlight, NextFlight, InitDelay, NextDelay,
    InitProfiler, NextProfiler, PTL DEF Resilience

\* The breaker's counts stay within its thresholds, a caller of SingleFlight has at most one
\* result, a channel of a batch executor is never over its capacity, and so on.
THEOREM TypesAreKept == Resilience => []TypesOK
<1>1. IInv /\ FlightInv /\ DelayInv /\ ProfilerInv /\ Batch!BatchInv /\ MapInv => TypesOK
  BY OneResult, Batch!BatchTypes, MapTypes DEF TypesOK, IInv, DelayInv, ProfilerInv
<1>2. QED
  BY <1>1, ComponentsHold, PTL

\* For any number of callers and keys, SingleFlight::execute runs one operation per key at a time,
\* and a caller that waits has a leader that will still tell it, whichever calls are dropped.
THEOREM FlightsAreLed == Resilience => []FlightsLed
<1>1. FlightInv => FlightsLed
  BY OneOperationPerKey, NobodyWaitsAlone DEF FlightsLed, Flight!FlightsLed
<1>2. QED
  BY <1>1, ComponentsHold, PTL

\* For any items, batch limit and capacity a batch executor executes what it accepted once and in
\* order, and a flush that returns Ok has covered what was pushed before it; for any threshold a
\* LessExecutor spaces its jobs; for any input and limit map_reduce keeps within
\* max_concurrent_tasks; and for any interval and duration an agent ends with its window.
THEOREM WorkIsDoneExactly == Resilience => []WorkDoneExactly
<1>1. DelayInv /\ ProfilerInv /\ Batch!BatchInv /\ MapInv => WorkDoneExactly
  BY ProfilerKeeps DEF WorkDoneExactly, DelayInv, Batch!BatchInv, MapInv
<1>2. QED
  BY <1>1, ComponentsHold, PTL
=============================================================================
