------------------------- MODULE ContinuousProfiler -------------------------
(***************************************************************************)
(* The profiler of core/src/continuous_profile.rs.  A thread wakes every   *)
(* check interval, or when it is told to stop or its handle is gone;       *)
(* starts an agent when the process is busy and none runs; stops it when   *)
(* its window has passed; and stops it on the way out.  Building, starting *)
(* and stopping the agent may fail, which ends the thread.  The handle     *)
(* sends stop and joins the thread, in shutdown as in its Drop.            *)
(***************************************************************************)
EXTENDS Naturals

CONSTANTS
  Interval, Duration,   \* check_interval_ms and profiling_duration_ms, in ticks
  MaxClock              \* bound

VARIABLES
  clock,
  config,    \* the settings validate looks at
  handle,    \* "none", "refused", "held", "joining", "joined"
  worker,    \* "none", "waiting", "awake", "leaving", "ended"
  woken,     \* when the worker last began to wait
  stop,      \* the stop message is in the channel
  agent,     \* when the running agent was started, an Option
  result     \* what the thread returned: "ok" or "error", an Option

vars == <<clock, config, handle, worker, woken, stop, agent, result>>

None == {}
Some(v) == {v}
Configs ==
  [address : {"http", "blank", "bare"}, named : BOOLEAN, sampled : BOOLEAN, interval : {0, Interval},
   duration : {0, Duration}, threshold : {"inside", "outside"}, user : BOOLEAN, password : BOOLEAN,
   tagged : BOOLEAN]
\* each setting on its own, and the two of the login together
validate(c) ==
  /\ c.address = "http" /\ c.named /\ c.sampled /\ c.interval # 0 /\ c.duration # 0
  /\ c.threshold = "inside" /\ c.user = c.password /\ c.tagged

start ==
  /\ handle = "none" /\ UNCHANGED <<clock, config, stop, agent, result>>
  /\ IF validate(config)
     THEN handle' = "held" /\ worker' = "waiting" /\ woken' = clock
     ELSE handle' = "refused" /\ UNCHANGED <<worker, woken>>

-----------------------------------------------------------------------------
(* the thread                                                              *)

\* The thread is over: its agent, if one is left, is dropped with it.
End(r) == worker' = "ended" /\ result' = Some(r) /\ agent' = None

\* the loop is left for the last stop of the agent
Leave == worker' = "leaving" /\ UNCHANGED <<agent, result>>

\* recv_timeout: a message, or the time is up
recv_timeout ==
  /\ worker = "waiting" /\ UNCHANGED <<clock, config, handle, woken>>
  /\ \/ stop /\ Leave /\ stop' = FALSE
     \/ /\ ~stop /\ clock >= woken + config.interval /\ worker' = "awake"
        /\ UNCHANGED <<stop, agent, result>>

Wait == worker' = "waiting" /\ woken' = clock

\* Fault: the window is looked at only while the process is not busy.
check_busy ==
  /\ worker = "awake" /\ UNCHANGED <<clock, config, handle, stop>>
  /\ \/ agent' = (IF agent = None THEN Some(clock) ELSE agent) /\ Wait /\ UNCHANGED result
     \/ /\ agent' = {s \in agent : clock - s < config.duration}
        /\ Wait /\ UNCHANGED result

check ==
  /\ worker = "awake" /\ UNCHANGED <<clock, config, handle, stop>>
  /\ \/ /\ agent = None                                        \* busy: build and start
        /\ \/ agent' = Some(clock) /\ Wait /\ UNCHANGED result
           \/ End("error") /\ UNCHANGED woken
     \/ agent = None /\ Wait /\ UNCHANGED <<agent, result>>    \* not busy
     \/ /\ \E s \in agent : clock - s >= config.duration       \* the window has passed
        /\ \/ agent' = None /\ Wait /\ UNCHANGED result
           \/ End("error") /\ UNCHANGED woken
     \/ /\ \E s \in agent : clock - s < config.duration
        /\ Wait /\ UNCHANGED <<agent, result>>

\* the agent that still runs is stopped and uploads its last profile
leave ==
  /\ worker = "leaving" /\ UNCHANGED <<clock, config, handle, stop, woken>>
  /\ \/ End("ok")
     \/ agent # None /\ End("error")

-----------------------------------------------------------------------------
(* the handle                                                              *)

\* Fault: the handle joins without a word.
shutdown_silent ==
  /\ handle = "held" /\ handle' = "joining"
  /\ UNCHANGED <<clock, config, worker, woken, stop, agent, result>>
\* shutdown and drop send stop; a thread that has ended does not receive it
shutdown ==
  /\ handle = "held" /\ handle' = "joining" /\ stop' = (worker # "ended")
  /\ UNCHANGED <<clock, config, worker, woken, agent, result>>
join_worker ==
  /\ handle = "joining" /\ worker = "ended" /\ handle' = "joined"
  /\ UNCHANGED <<clock, config, worker, woken, stop, agent, result>>

\* Time passes while the thread has nothing due: it is not kept from running.
Tick ==
  /\ clock < MaxClock /\ clock' = clock + 1
  /\ worker = "waiting" => ~stop /\ clock < woken + config.interval
  /\ worker \notin {"awake", "leaving"}
  /\ UNCHANGED <<config, handle, worker, woken, stop, agent, result>>

Init ==
  /\ config \in Configs
  /\ clock = 0 /\ handle = "none" /\ worker = "none" /\ woken = 0 /\ stop = FALSE
  /\ agent = None /\ result = None
Next == start \/ recv_timeout \/ check \/ leave \/ shutdown \/ join_worker \/ Tick
Fairness == WF_vars(recv_timeout) /\ WF_vars(check) /\ WF_vars(leave) /\ WF_vars(join_worker)
Spec == Init /\ [][Next]_vars /\ Fairness

-----------------------------------------------------------------------------
TypeOK ==
  /\ clock \in 0..MaxClock /\ handle \in {"none", "refused", "held", "joining", "joined"}
  /\ worker \in {"none", "waiting", "awake", "leaving", "ended"}

\* An agent that is running was started at most one window and one check ago, and
\* none runs once the handle has joined the thread, by shutdown or by drop.
AgentWithinWindow ==
  /\ \A s \in agent : clock - s <= Duration + Interval
  /\ handle = "joined" => agent = None /\ result # None

\* A handle that is shut down or dropped is joined, whatever the thread is doing
\* and whether or not it has already ended with an error.
ShutdownJoins == handle = "joining" ~> handle = "joined"
=============================================================================
