----------------------------- MODULE MCLifecycle ------------------------------
(***************************************************************************)
(* The components that stop, change or recover while they run: the queue    *)
(* runtime, the service group, the dynamic configuration, the Redis         *)
(* subscription and the Redis period limiter. They share no state; a        *)
(* behaviour is about one of them, chosen initially.                        *)
(* LifecycleProofs, which this module extends, declares them, states the    *)
(* properties of them together and proves them for all constants.           *)
(***************************************************************************)
EXTENDS LifecycleProofs, TLC

VARIABLE focus  \* the component this behaviour is about

periodVars == <<backend_state, probe_due, redis_up, clock, windows, period_pc, key,
  current_window, probing, orphaned, granted, overtaken>>
allVars == <<focus, vars, groupVars, configVars, subscriptionVars, periodVars>>

\* The component in focus moves, the others rest.
On(tag) == focus = tag /\ UNCHANGED focus
moving ==
  CASE focus = "queue" -> vars
    [] focus = "group" -> groupVars
    [] focus = "config" -> configVars
    [] focus = "subscription" -> subscriptionVars
    [] focus = "period" -> periodVars
\* A component out of focus rests in one of its initial states.
MCInit ==
  /\ focus \in {"queue", "group", "config", "subscription", "period"}
  /\ Init
  /\ Group!Init
  /\ Config!Init /\ (focus = "config" \/ snapshot.value = CHOOSE v \in Values : TRUE)
  /\ Subscription!Init /\ (focus = "subscription" \/ subscription_index = 0)
  /\ Period!Init
  /\ focus = "period" \/ (redis_up /\ key = [c \in Takers |-> CHOOSE k \in Identities : TRUE])
MCNext ==
  \/ On("queue") /\ Next
     /\ UNCHANGED <<groupVars, configVars, subscriptionVars, periodVars>>
  \/ On("group") /\ Group!Next
     /\ UNCHANGED <<vars, configVars, subscriptionVars, periodVars>>
  \/ On("config") /\ Config!Next
     /\ UNCHANGED <<vars, groupVars, subscriptionVars, periodVars>>
  \/ On("subscription") /\ Subscription!Next
     /\ UNCHANGED <<vars, groupVars, configVars, periodVars>>
  \/ On("period") /\ Period!Next
     /\ UNCHANGED <<vars, groupVars, configVars, subscriptionVars>>
\* Each component's own fairness: a condition on a choice of steps of several components asks of
\* the one in focus what a condition on its step would.
MCFairness ==
  /\ \A w \in Workers : /\ WF_moving(On("queue") /\ WorkerStep(w))
                        /\ WF_moving(On("queue") /\ JoinNext(w))
  /\ \A c \in Takers : WF_moving(On("period") /\ Period!Step(c))
  /\ WF_moving(\/ On("group") /\ Group!Supervise
               \/ On("subscription") /\ Subscription!SendEvent
               \/ On("period") /\ Period!ProbeInterval)
  /\ WF_moving(On("subscription") /\ Subscription!TakeShutdown)
  /\ WF_moving(On("subscription") /\ Subscription!ReceiverGone)
  /\ WF_moving(On("subscription") /\ receiver = "closing" /\ Subscription!recv)
MCSpec == MCInit /\ [][MCNext]_allVars /\ MCFairness
-----------------------------------------------------------------------------
\* What a caller waits for comes: shutdown and wait of a queue return, the supervisor of a service
\* group once a stop is asked for, close of a subscription; and a period limiter whose Redis
\* stays up returns to it, unless the future of its prober was dropped.
CallsReturn ==
  /\ ShutdownReturns /\ WaitReturns /\ Group!SupervisorReturns /\ Subscription!CloseReturns
  /\ Period!RecoversUnlessOrphaned
=============================================================================
