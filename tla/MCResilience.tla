----------------------------- MODULE MCResilience -----------------------------
(***************************************************************************)
(* The components that protect calls and run background work: the circuit   *)
(* breaker, single flight, the batch and delayed executors, the continuous  *)
(* profiler and map-reduce. They share no state; a behaviour is about one   *)
(* of them, chosen initially.                                               *)
(***************************************************************************)
EXTENDS ResilienceProofs, TLC

VARIABLES focus  \* the component this behaviour is about

MCWeights == [i1 |-> 1, i2 |-> 2, i3 |-> 0]
MCInputs == <<"a", "b", "c">>
Emit(k, v) == [key |-> k, value |-> v]
MCMapped == [a |-> <<Emit("k1", 1), Emit("k2", 1)>>, b |-> <<Emit("k1", 2), Emit("k1", 1)>>, c |-> <<>>]

allVars == <<focus, vars, flightVars, batchVars, delayVars, profilerVars, mapVars>>

\* The component in focus moves, the others rest.
On(tag) == focus = tag /\ UNCHANGED focus
moving ==
  CASE focus = "breaker" -> vars
    [] focus = "flight" -> flightVars
    [] focus = "batch" -> batchVars
    [] focus = "delay" -> delayVars
    [] focus = "profiler" -> profilerVars
    [] focus = "map" -> mapVars
\* A component out of focus rests in one of its initial states.
MCInit ==
  /\ focus \in {"breaker", "flight", "batch", "delay", "profiler", "map"}
  /\ Init
  /\ Flight!Init /\ (focus = "flight" \/ key = [c \in Callers |-> "k1"])
  /\ Batch!Init /\ (focus = "batch" \/ kind = "batch")
  /\ Delay!Init /\ (focus = "delay" \/ delay_kind = "delay")
  /\ Profiler!Init /\ (focus = "profiler" \/ config = CHOOSE c \in Profiler!Configs : TRUE)
  /\ Map!Init
MCNext ==
  \/ On("breaker") /\ Next
     /\ UNCHANGED <<flightVars, batchVars, delayVars, profilerVars, mapVars>>
  \/ On("flight") /\ Flight!Next
     /\ UNCHANGED <<vars, batchVars, delayVars, profilerVars, mapVars>>
  \/ On("batch") /\ Batch!Next
     /\ UNCHANGED <<vars, flightVars, delayVars, profilerVars, mapVars>>
  \/ On("delay") /\ Delay!Next
     /\ UNCHANGED <<vars, flightVars, batchVars, profilerVars, mapVars>>
  \/ On("profiler") /\ Profiler!Next
     /\ UNCHANGED <<vars, flightVars, batchVars, delayVars, mapVars>>
  \/ On("map") /\ Map!Next
     /\ UNCHANGED <<vars, flightVars, batchVars, delayVars, profilerVars>>
\* Each component's own fairness.  One component moves in a behaviour, so that one condition
\* on a choice of steps, one of each component, asks of it what a condition on its step would.
MCFairness ==
  /\ \A c \in Calls :
       /\ WF_moving(\/ On("breaker") /\ \E o \in Outcomes : Count(c, o)
                    \/ On("flight") /\ c \in Callers
                       /\ ((\E r \in Results : Flight!Land(c, r)) \/ Flight!CancelLeader(c))
                    \/ On("delay") /\ c \in Takers /\ Delay!TriggerSend(c))
       /\ WF_moving(\/ On("breaker") /\ Record(c)
                    \/ On("flight") /\ c \in Callers /\ Flight!Notify(c))
  /\ WF_moving(\/ On("breaker") /\ ResetTimeout
               \/ On("batch") /\ Batch!Worker
               \/ On("delay") /\ Delay!Worker
               \/ On("profiler") /\ Profiler!recv_timeout)
  /\ WF_moving((On("delay") /\ Delay!WorkerJoined) \/ (On("profiler") /\ Profiler!check))
  /\ WF_moving((On("delay") /\ Delay!Deadline) \/ (On("profiler") /\ Profiler!leave))
  /\ WF_moving(On("profiler") /\ Profiler!join_worker)
MCSpec == MCInit /\ [][MCNext]_allVars /\ MCFairness
-----------------------------------------------------------------------------
\* What MapReduce::execute returns is what a sequential run gives, in whatever order the jobs
\* end: every key reduced from each of its values as often as it was emitted.
ReducedExactly == Map!ResultExact

\* Whoever waits is answered: the callers that a half-open circuit at its limit turns away, the
\* waiters of a flight, the flushers and the owner of a batch executor, a trigger of a delayed
\* executor, the joiner of the profiler's thread; and items accepted by a batch executor are
\* executed without another push.
EveryWaitEnds ==
  /\ HalfOpenResolves
  /\ Flight!WaitersAnswered /\ Batch!CallersAnswered /\ Batch!AcceptedExecuted
  /\ Delay!TriggersHonoured /\ Profiler!ShutdownJoins
=============================================================================
