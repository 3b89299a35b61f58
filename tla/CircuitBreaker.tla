--------------------------- MODULE CircuitBreaker ---------------------------
(***************************************************************************)
(* The consecutive-failure policy of core/src/breaker.rs.                  *)
(*                                                                         *)
(* The mutex-protected enum ConsecutiveState is the variables status,      *)
(* consecutive_failures, attempts and successes; a field that its variant  *)
(* does not carry is 0 here.  The instant opened_at is abstracted to       *)
(* elapsed: whether reset_timeout has passed since the circuit opened.     *)
(*                                                                         *)
(* Each member of Calls is one protected call: execute, execute_async or   *)
(* an acquired CircuitBreakerPermit.  record_outcome first increments a    *)
(* lifetime counter without the lock and then takes the lock, so finishing *)
(* a call is two steps and other calls may run between them.               *)
(***************************************************************************)
EXTENDS Naturals, FiniteSets

CONSTANTS Calls, MaxFailures, HalfOpenMaxCalls

ASSUME BreakerConfig ==
  /\ IsFiniteSet(Calls)
  /\ MaxFailures \in Nat \ {0}
  /\ HalfOpenMaxCalls \in Nat \ {0}

VARIABLES
  status,               \* BreakerState: which variant ConsecutiveState is in
  consecutive_failures, \* of Closed
  attempts,             \* of HalfOpen
  successes,            \* of HalfOpen
  elapsed,              \* of Open: opened_at.elapsed() >= reset_timeout
  call,                 \* progress of each call
  counters,             \* OutcomeCounters
  probes                \* history: the calls admitted since HalfOpen was entered

state == <<status, consecutive_failures, attempts, successes, elapsed>>
vars == <<state, call, counters, probes>>

Outcomes == {"Success", "Failure", "Cancellation"}

\* "admitted": running; an outcome: counted, waiting for the lock.
Progress == {"idle", "admitted", "done"} \cup Outcomes

Outstanding == {c \in Calls : call[c] \in {"admitted"} \cup Outcomes}

TypeOK ==
  /\ status \in {"Closed", "Open", "HalfOpen"}
  /\ consecutive_failures \in 0..(MaxFailures - 1)
  /\ attempts \in 0..HalfOpenMaxCalls
  /\ successes \in 0..(HalfOpenMaxCalls - 1)
  /\ elapsed \in BOOLEAN
  /\ call \in [Calls -> Progress]
  /\ counters \in [{"Success", "Failure", "Cancellation", "Rejection"} -> Nat]
  /\ probes \in SUBSET Calls

Init ==
  /\ status = "Closed"
  /\ consecutive_failures = 0
  /\ attempts = 0
  /\ successes = 0
  /\ elapsed = FALSE
  /\ call = [c \in Calls |-> "idle"]
  /\ counters = [o \in {"Success", "Failure", "Cancellation", "Rejection"} |-> 0]
  /\ probes = {}

-----------------------------------------------------------------------------
(* Transitions of the locked state                                         *)

Close ==
  /\ status' = "Closed"
  /\ consecutive_failures' = 0
  /\ attempts' = 0
  /\ successes' = 0
  /\ elapsed' = FALSE

Open ==
  /\ status' = "Open"
  /\ consecutive_failures' = 0
  /\ attempts' = 0
  /\ successes' = 0
  /\ elapsed' = FALSE

\* reset_timeout passes on the clock that opened_at.elapsed() reads.
ResetTimeout ==
  /\ status = "Open"
  /\ ~elapsed
  /\ elapsed' = TRUE
  /\ UNCHANGED <<status, consecutive_failures, attempts, successes, call, counters, probes>>

-----------------------------------------------------------------------------
(* before_call                                                             *)

\* The attempts that before_consecutive sees: 0 when it turns Open into HalfOpen.
AttemptsSeen == IF status = "HalfOpen" THEN attempts ELSE 0

Probing == status = "HalfOpen" \/ (status = "Open" /\ elapsed)

AdmitClosed(c) ==
  /\ call[c] = "idle"
  /\ status = "Closed"
  /\ call' = [call EXCEPT ![c] = "admitted"]
  /\ UNCHANGED <<state, counters, probes>>

\* Fault: the limit of attempts is compared with one too many.
AdmitProbeOneMore(c) ==
  /\ call[c] = "idle"
  /\ Probing
  /\ AttemptsSeen <= HalfOpenMaxCalls
  /\ status' = "HalfOpen"
  /\ attempts' = AttemptsSeen + 1
  /\ elapsed' = FALSE
  /\ call' = [call EXCEPT ![c] = "admitted"]
  /\ probes' = IF status = "HalfOpen" THEN probes \cup {c} ELSE {c}
  /\ UNCHANGED <<consecutive_failures, successes, counters>>

AdmitProbe(c) ==
  /\ call[c] = "idle"
  /\ Probing
  /\ AttemptsSeen < HalfOpenMaxCalls
  /\ status' = "HalfOpen"
  /\ attempts' = AttemptsSeen + 1
  /\ elapsed' = FALSE
  /\ call' = [call EXCEPT ![c] = "admitted"]
  /\ probes' = IF status = "HalfOpen" THEN probes \cup {c} ELSE {c}
  /\ UNCHANGED <<consecutive_failures, successes, counters>>

\* Neither rejection changes the locked state: HalfOpenMaxCalls > 0, so a circuit that has just
\* become half-open admits.
Reject(c) ==
  /\ call[c] = "idle"
  /\ \/ status = "Open" /\ ~elapsed
     \/ status = "HalfOpen" /\ attempts >= HalfOpenMaxCalls
  /\ call' = [call EXCEPT ![c] = "done"]
  /\ counters' = [counters EXCEPT !["Rejection"] = @ + 1]
  /\ UNCHANGED <<state, probes>>

-----------------------------------------------------------------------------
(* record_outcome.  Cancellation is what the Drop of a CompletionGuard or   *)
(* of a CircuitBreakerPermit records for a call that never finished.        *)

Count(c, o) ==
  /\ call[c] = "admitted"
  /\ call' = [call EXCEPT ![c] = o]
  /\ counters' = [counters EXCEPT ![o] = @ + 1]
  /\ UNCHANGED <<state, probes>>

\* Fault: the half-open branch forgets to count the success.
RecordSuccessUncounted ==
  /\ consecutive_failures' = IF status = "Closed" THEN 0 ELSE consecutive_failures
  /\ UNCHANGED <<status, attempts, successes, elapsed>>

RecordSuccess ==
  \/ /\ status = "Closed"
     /\ consecutive_failures' = 0
     /\ UNCHANGED <<status, attempts, successes, elapsed>>
  \/ /\ status = "Open"
     /\ UNCHANGED state
  \/ /\ status = "HalfOpen"
     /\ successes + 1 = HalfOpenMaxCalls
     /\ Close
  \/ /\ status = "HalfOpen"
     /\ successes + 1 # HalfOpenMaxCalls
     /\ successes' = successes + 1
     /\ UNCHANGED <<status, consecutive_failures, attempts, elapsed>>

\* Fault: the threshold is compared with one failure too many.
RecordFailureEarly ==
  \/ /\ status = "Closed"
     /\ consecutive_failures + 2 < MaxFailures
     /\ consecutive_failures' = consecutive_failures + 1
     /\ UNCHANGED <<status, attempts, successes, elapsed>>
  \/ /\ \/ status = "Closed" /\ consecutive_failures + 2 >= MaxFailures
        \/ status = "HalfOpen"
     /\ Open
  \/ status = "Open" /\ UNCHANGED state

\* Fault: a failed probe leaves the counts of the half-open variant behind.
RecordFailureKeepsCounts ==
  \/ /\ status = "Closed"
     /\ consecutive_failures' = consecutive_failures + 1
     /\ status' = IF consecutive_failures' >= MaxFailures THEN "Open" ELSE "Closed"
     /\ UNCHANGED <<attempts, successes, elapsed>>
  \/ status = "Open" /\ UNCHANGED state
  \/ status = "HalfOpen" /\ Open

RecordFailure ==
  \/ /\ status = "Closed"
     /\ consecutive_failures + 1 < MaxFailures
     /\ consecutive_failures' = consecutive_failures + 1
     /\ UNCHANGED <<status, attempts, successes, elapsed>>
  \/ /\ status = "Closed"
     /\ consecutive_failures + 1 >= MaxFailures
     /\ Open
  \/ /\ status = "Open"
     /\ UNCHANGED state
  \/ /\ status = "HalfOpen"
     /\ Open

\* Fault: a cancelled probe does not give its attempt back.
RecordCancellationIgnored == UNCHANGED state

RecordCancellation ==
  \/ /\ status = "HalfOpen"
     /\ attempts' = IF attempts = 0 THEN 0 ELSE attempts - 1
     /\ UNCHANGED <<status, consecutive_failures, successes, elapsed>>
  \/ /\ status # "HalfOpen"
     /\ UNCHANGED state

Record(c) ==
  /\ call[c] \in Outcomes
  /\ \/ call[c] = "Success" /\ RecordSuccess
     \/ call[c] = "Failure" /\ RecordFailure
     \/ call[c] = "Cancellation" /\ RecordCancellation
  /\ call' = [call EXCEPT ![c] = "done"]
  /\ UNCHANGED <<counters, probes>>

Next ==
  \/ ResetTimeout
  \/ \E c \in Calls :
       \/ AdmitClosed(c)
       \/ AdmitProbe(c)
       \/ Reject(c)
       \/ \E o \in Outcomes : Count(c, o)
       \/ Record(c)

Spec == Init /\ [][Next]_vars

\* Protected calls end: their futures complete or are dropped, and either way the guard takes
\* the lock.  The clock advances.  Nothing is assumed of callers that have not been admitted.
Fairness ==
  /\ WF_vars(ResetTimeout)
  /\ \A c \in Calls : WF_vars(\E o \in Outcomes : Count(c, o)) /\ WF_vars(Record(c))

FairSpec == Spec /\ Fairness

-----------------------------------------------------------------------------
(* Properties                                                              *)

\* A half-open circuit that turns callers away is waiting for an outcome that will reach it:
\* before_consecutive rejects at half_open_max_calls attempts, and only record_consecutive can
\* then move the circuit, so rejecting with no call outstanding would shut it for ever.
\* Outcomes of calls admitted before the circuit opened are recorded against the same counts.
RejectingMeansWaiting ==
  status = "HalfOpen" /\ attempts >= HalfOpenMaxCalls => Outstanding # {}

\* record_outcome counts before it records, so a snapshot taken while the circuit is open or
\* half-open always shows the failures that opened it.
TripsAreCounted ==
  status \in {"Open", "HalfOpen"} => counters["Failure"] >= MaxFailures

\* A half-open circuit at its limit of attempts does not stay there: the outstanding calls end,
\* and their outcomes close it, reopen it or give an attempt back.
HalfOpenResolves ==
  (status = "HalfOpen" /\ attempts >= HalfOpenMaxCalls)
    ~> (status # "HalfOpen" \/ attempts < HalfOpenMaxCalls)

\* Half-open probes are bounded: of the calls admitted since before_consecutive made the circuit
\* half-open, more than half_open_max_calls run at once only by as many as were ever cancelled.
\* (record_consecutive gives an attempt back for a cancelled call that was admitted before the
\* circuit opened, too, so half_open_max_calls alone is not the bound.)
ProbesPaidFor ==
  status = "HalfOpen" =>
    Cardinality({c \in probes : call[c] = "admitted"})
      <= HalfOpenMaxCalls + counters["Cancellation"]

\* The breaker's counts are explained by what happened to its calls: a trip by failures that
\* record_outcome counted, probes beyond half_open_max_calls by cancelled calls.
CountsExplained == TripsAreCounted /\ ProbesPaidFor
=============================================================================
