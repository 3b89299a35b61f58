---------------------------- MODULE ServiceGroup ----------------------------
(***************************************************************************)
(* The supervisor of core/src/service.rs: the services that start spawned  *)
(* into a JoinSet, the ShutdownHandle that any holder may use, and the     *)
(* task that awaits wait or wait_for_signal.                               *)
(*                                                                         *)
(* A service is a task that ends cleanly, with an error or with a panic,   *)
(* on its own or because it saw the shutdown signal.  A select with        *)
(* several ready branches takes any of them.  The supervisor owns the      *)
(* tasks: those that are left when it returns are aborted.                 *)
(***************************************************************************)
EXTENDS Naturals, FiniteSets

CONSTANTS Services, WithSignal  \* WithSignal: wait_for_signal rather than wait

VARIABLES
  shutdown, unseen,     \* the watched flag; has wait's own receiver not seen its change?
  task, joined,         \* of each service; the tasks join_next has returned
  signal,               \* of the process signal: "listening", "received" or "failed"
  pc, service_count, first_error, outcome,  \* of the supervisor
  early                 \* history: the services that ended before shutdown was requested

vars == <<shutdown, unseen, task, joined, signal, pc, service_count, first_error, outcome, early>>

Ended == {"Ok", "Err", "Panic"}
ErrorOf(s) == CASE task[s] = "Ok"    -> <<"UnexpectedExit", s>>
                [] task[s] = "Err"   -> <<"ServiceFailed", s>>
                [] task[s] = "Panic" -> <<"ServicePanicked", s>>
Errors == {"UnexpectedExit", "ServiceFailed", "ServicePanicked"} \X Services
Outcomes == Errors \cup {<<"None">>, <<"Ok">>, <<"Signal">>}
                   \cup {<<"ShutdownTimeout", n>> : n \in 0..Cardinality(Services)}

TypeOK ==
  /\ shutdown \in BOOLEAN /\ unseen \in BOOLEAN
  /\ task \in [Services -> {"running", "aborted"} \cup Ended]
  /\ joined \subseteq {s \in Services : task[s] \in Ended}
  /\ signal \in {"listening", "received", "failed"}
  /\ pc \in {"started", "waiting", "draining", "returned"}
  /\ service_count = Cardinality(Services \ joined)
  /\ first_error \in SUBSET Errors /\ Cardinality(first_error) <= 1
  /\ outcome \in Outcomes
  /\ early \subseteq Services

\* start
Init ==
  /\ shutdown = FALSE /\ unseen = FALSE
  /\ task = [s \in Services |-> "running"] /\ joined = {}
  /\ signal = "listening"
  /\ pc = "started"
  /\ service_count = Cardinality(Services)
  /\ first_error = {} /\ outcome = <<"None">>
  /\ early = {}

supervisor == <<pc, service_count, first_error, outcome>>

\* A service returns Ok or Err, or panics.
Exit(s, how) ==
  /\ task[s] = "running"
  /\ task' = [task EXCEPT ![s] = how]
  /\ early' = IF shutdown THEN early ELSE early \cup {s}
  /\ UNCHANGED <<shutdown, unseen, joined, signal, supervisor>>

\* ShutdownHandle::shutdown by another task.
Shutdown ==
  /\ ~shutdown
  /\ shutdown' = TRUE /\ unseen' = TRUE
  /\ UNCHANGED <<task, joined, signal, supervisor, early>>

\* wait: shutdown may have been requested already.
Wait ==
  /\ pc = "started"
  /\ pc' = IF shutdown THEN "draining" ELSE "waiting"
  /\ UNCHANGED <<shutdown, unseen, task, joined, signal, service_count, first_error, outcome, early>>

\* wait: the branch of receiver.changed().
Requested ==
  /\ pc = "waiting" /\ unseen
  /\ unseen' = FALSE
  /\ pc' = "draining"
  /\ UNCHANGED <<shutdown, task, joined, signal, service_count, first_error, outcome, early>>

Joinable == {s \in Services \ joined : task[s] \in Ended}

\* Fault: the siblings of the service that ended are not asked to stop.
ExitedUnannounced(s) ==
  /\ pc = "waiting" /\ s \in Joinable
  /\ joined' = joined \cup {s}
  /\ service_count' = service_count - 1
  /\ first_error' = {ErrorOf(s)}
  /\ pc' = "draining"
  /\ UNCHANGED <<shutdown, unseen, task, signal, outcome, early>>

\* wait: the branch of join_next asks the siblings to stop.
Exited(s) ==
  /\ pc = "waiting" /\ s \in Joinable
  /\ joined' = joined \cup {s}
  /\ shutdown' = TRUE /\ unseen' = TRUE
  /\ service_count' = service_count - 1
  /\ first_error' = {ErrorOf(s)}
  /\ pc' = "draining"
  /\ UNCHANGED <<task, signal, outcome, early>>

\* wait_for_signal: the signal branch.
Signal(received) ==
  /\ WithSignal /\ signal = "listening" /\ pc # "returned"
  /\ signal' = received
  /\ shutdown' = TRUE /\ unseen' = TRUE
  /\ UNCHANGED <<task, joined, supervisor, early>>


\* Fault: a task that panicked is not counted.
JoinUncounted(s) ==
  /\ pc = "draining" /\ s \in Joinable
  /\ joined' = joined \cup {s}
  /\ service_count' = IF task[s] = "Panic" THEN service_count ELSE service_count - 1
  /\ first_error' = IF task[s] = "Ok" \/ first_error # {} THEN first_error ELSE {ErrorOf(s)}
  /\ UNCHANGED <<shutdown, unseen, task, signal, pc, outcome, early>>

\* drain: join_next returns a task; the first error is kept.
Join(s) ==
  /\ pc = "draining" /\ s \in Joinable
  /\ joined' = joined \cup {s}
  /\ service_count' = service_count - 1
  /\ first_error' = IF task[s] = "Ok" \/ first_error # {} THEN first_error ELSE {ErrorOf(s)}
  /\ UNCHANGED <<shutdown, unseen, task, signal, pc, outcome, early>>

\* wait_for_signal replaces the result of wait when listening failed.
Return(result) ==
  /\ pc' = "returned"
  /\ outcome' = IF signal = "failed" THEN <<"Signal">> ELSE result
  /\ task' = [s \in Services |-> IF task[s] = "running" THEN "aborted" ELSE task[s]]
  /\ UNCHANGED <<shutdown, unseen, joined, signal, service_count, first_error, early>>

\* drain: every task was joined.
Drained ==
  /\ pc = "draining" /\ joined = Services
  /\ Return(IF first_error = {} THEN <<"Ok">> ELSE CHOOSE e \in first_error : TRUE)

\* Fault: after an error the drain is not bounded.
TimeoutIfNoError ==
  /\ pc = "draining" /\ joined # Services /\ Joinable = {} /\ first_error = {}
  /\ Return(<<"ShutdownTimeout", service_count>>)

\* drain: the shutdown timeout.  The drain is polled first, so it has joined
\* every task that has ended.
Timeout ==
  /\ pc = "draining" /\ joined # Services /\ Joinable = {}
  /\ Return(<<"ShutdownTimeout", service_count>>)

Supervise ==
  \/ Wait
  \/ Requested
  \/ \E s \in Services : Exited(s) \/ Join(s)
  \/ Drained
  \/ Timeout

Next ==
  \/ \E s \in Services, how \in Ended : Exit(s, how)
  \/ Shutdown
  \/ \E received \in {"received", "failed"} : Signal(received)
  \/ Supervise

Spec == Init /\ [][Next]_vars

\* The runtime polls the supervisor, and its timeout fires.  A service owes
\* nothing: it may ignore the signal for ever.
Fairness == WF_vars(Supervise)

FairSpec == Spec /\ Fairness

-----------------------------------------------------------------------------
\* When the supervisor starts to drain, every service was asked to stop: a
\* service is never left running unaware that its sibling ended (wait: "all
\* siblings are asked to stop before the error is returned").
SiblingsAsked == pc \in {"draining", "returned"} => shutdown

\* Nothing that went wrong is reported as success: Ok means that every
\* service was joined and returned Ok.
OkMeansClean == outcome = <<"Ok">> => joined = Services /\ \A s \in Services : task[s] = "Ok"

\* A timeout reports the services that were still running, and no others.
TimeoutCounts ==
  outcome[1] = "ShutdownTimeout" =>
    outcome[2] = Cardinality({s \in Services : task[s] = "aborted"})

\* Once shutdown is requested, or a service has ended, the supervisor returns.
SupervisorReturns ==
  (pc # "returned" /\ (shutdown \/ early # {})) ~> pc = "returned"
=============================================================================
