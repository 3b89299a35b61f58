--------------------------- MODULE DelayExecutor ----------------------------
(***************************************************************************)
(* DelayExecutor, PeriodicExecutor and LessExecutor (core/src/executor.rs).*)
(* The first two run one job in a worker, after a delay from a trigger or  *)
(* on a ticker, and stop it within a deadline; the third runs the caller's *)
(* job unless one ran within the threshold.  An atomic operation, a send   *)
(* and the reading of the clock are steps of their own.                    *)
(***************************************************************************)
EXTENDS Naturals, FiniteSets

CONSTANTS
  Callers,
  Threshold,          \* LessExecutor's, in ticks
  MaxTriggers, MaxClock   \* bounds

VARIABLES
  kind,       \* "delay", "periodic" or "less"
  triggered,  \* the AtomicBool
  sent,       \* the trigger channel, of capacity one, holds a message
  caller,     \* per caller: "idle", "claimed" or, in a LessExecutor, "timed"
  worker,     \* "select", "sleeping", "cleared", "running", "ended", "failed"
  owner,      \* "open", "stopping", "dropped", "Ok", "Job" (or Worker) or "TimedOut"
  count,      \* triggers and runs, bounded
  owed,       \* history: a trigger call no later run has answered
  clock, now, last,   \* LessExecutor; last is an Option
  ran         \* history: when a LessExecutor let a job run

vars == <<kind, triggered, sent, caller, worker, owner, count, owed, clock, now, last, ran>>
less_vars == <<clock, now, last, ran>>

TypeOK ==
  /\ kind \in {"delay", "periodic", "less"}
  /\ triggered \in BOOLEAN /\ sent \in BOOLEAN /\ owed \in BOOLEAN
  /\ caller \in [Callers -> {"idle", "claimed", "timed"}]
  /\ worker \in {"select", "sleeping", "cleared", "running", "ended", "failed"}
  /\ owner \in {"open", "stopping", "dropped", "Ok", "Job", "TimedOut"}
  /\ now \in [Callers -> 0..MaxClock] /\ last \subseteq 0..MaxClock

Init ==
  /\ kind \in {"delay", "periodic", "less"}
  /\ triggered = FALSE /\ sent = FALSE
  /\ caller = [c \in Callers |-> "idle"]
  /\ worker = "select" /\ owner = "open" /\ count = 0
  /\ owed = FALSE
  /\ clock = 0 /\ now = [c \in Callers |-> 0] /\ last = {} /\ ran = {}

Alive == worker \notin {"ended", "failed"}

-----------------------------------------------------------------------------
(* DelayExecutor::trigger                                                  *)

\* the compare_exchange: a caller that loses it returns false
TriggerClaim(c) ==
  /\ kind = "delay" /\ owner = "open" /\ caller[c] = "idle" /\ count < MaxTriggers
  /\ count' = count + 1
  /\ triggered' = TRUE
  /\ caller' = IF triggered THEN caller ELSE [caller EXCEPT ![c] = "claimed"]
  /\ owed' = (owed \/ Alive)
  /\ UNCHANGED <<kind, sent, worker, owner, less_vars>>

\* try_send; when it fails the flag is given back
TriggerSend(c) ==
  /\ caller[c] = "claimed"
  /\ caller' = [caller EXCEPT ![c] = "idle"]
  /\ IF Alive /\ ~sent THEN sent' = TRUE /\ UNCHANGED triggered
     ELSE triggered' = FALSE /\ UNCHANGED sent
  /\ UNCHANGED <<kind, worker, owner, count, owed, less_vars>>

-----------------------------------------------------------------------------
(* the worker                                                              *)

Receive ==
  /\ kind = "delay" /\ worker = "select" /\ sent
  /\ sent' = FALSE /\ worker' = "sleeping"
  /\ UNCHANGED <<kind, triggered, caller, owner, count, owed, less_vars>>

\* Fault: the flag is left set when the delay is over.
SleptHolding ==
  /\ worker = "sleeping"
  /\ worker' = "cleared"
  /\ UNCHANGED <<kind, triggered, sent, caller, owner, count, owed, less_vars>>

\* "allow a trigger made by the job to schedule another run"
Slept ==
  /\ worker = "sleeping"
  /\ triggered' = FALSE /\ worker' = "cleared"
  /\ UNCHANGED <<kind, sent, caller, owner, count, owed, less_vars>>

StartJob ==
  /\ \/ worker = "cleared" /\ UNCHANGED count
     \/ kind = "periodic" /\ worker = "select" /\ count < MaxTriggers /\ count' = count + 1
  /\ worker' = "running" /\ owed' = FALSE
  /\ UNCHANGED <<kind, triggered, sent, caller, owner, less_vars>>

\* A failed job ends the worker; so does a panic.
JobEnds ==
  /\ worker = "running"
  /\ worker' \in {"select", "failed"}
  /\ owed' = (owed /\ worker' = "select")
  /\ UNCHANGED <<kind, triggered, sent, caller, owner, count, less_vars>>

\* the stopping arms: both selects have one, a running job has none
Stop ==
  /\ owner \in {"stopping", "dropped"} /\ worker \in {"select", "sleeping"}
  /\ worker' = "ended" /\ owed' = FALSE
  /\ UNCHANGED <<kind, triggered, sent, caller, owner, count, less_vars>>

-----------------------------------------------------------------------------
(* shutdown(timeout)                                                       *)

shutdown ==
  /\ kind # "less" /\ owner = "open" /\ \A c \in Callers : caller[c] = "idle"
  /\ owner' = "stopping"
  /\ UNCHANGED <<kind, triggered, sent, caller, worker, count, owed, less_vars>>

\* An executor that is dropped closes both channels and detaches the worker.
drop ==
  /\ kind # "less" /\ owner = "open" /\ \A c \in Callers : caller[c] = "idle"
  /\ owner' = "dropped"
  /\ UNCHANGED <<kind, triggered, sent, caller, worker, count, owed, less_vars>>

WorkerJoined ==
  /\ owner = "stopping" /\ ~Alive
  /\ owner' = IF worker = "ended" THEN "Ok" ELSE "Job"
  /\ UNCHANGED <<kind, triggered, sent, caller, worker, count, owed, less_vars>>

\* Fault: the deadline passes and the worker is left to itself.
DeadlineDetached ==
  /\ owner = "stopping" /\ Alive
  /\ owner' = "TimedOut"
  /\ UNCHANGED <<kind, triggered, sent, caller, worker, count, owed, less_vars>>

\* abort, and await the aborted worker
Deadline ==
  /\ owner = "stopping" /\ Alive
  /\ owner' = "TimedOut" /\ worker' = "ended" /\ owed' = FALSE
  /\ UNCHANGED <<kind, triggered, sent, caller, count, less_vars>>

-----------------------------------------------------------------------------
(* LessExecutor::do_or_discard                                             *)

\* Instant::now() comes before the lock
ReadClock(c) ==
  /\ kind = "less" /\ caller[c] = "idle"
  /\ caller' = [caller EXCEPT ![c] = "timed"]
  /\ now' = [now EXCEPT ![c] = clock]
  /\ UNCHANGED <<kind, triggered, sent, worker, owner, count, owed, clock, last, ran>>

Since(c, t) == IF now[c] < t THEN 0 ELSE now[c] - t    \* duration_since saturates

\* Fault: the comparison is strict.
DiscardedStrict(c) == \E t \in last : Since(c, t) < Threshold

Discarded(c) == \E t \in last : Since(c, t) <= Threshold

do_or_discard(c) ==
  /\ caller[c] = "timed"
  /\ caller' = [caller EXCEPT ![c] = "idle"]
  /\ IF Discarded(c) THEN UNCHANGED <<last, ran>>
     ELSE last' = {now[c]} /\ ran' = ran \cup {<<c, now[c]>>}
  /\ UNCHANGED <<kind, triggered, sent, worker, owner, count, owed, clock, now>>

Advance ==
  /\ kind = "less" /\ clock < MaxClock
  /\ clock' = clock + 1
  /\ UNCHANGED <<kind, triggered, sent, caller, worker, owner, count, owed, now, last, ran>>

Worker == Receive \/ Slept \/ StartJob \/ Stop
Periodic == kind = "periodic" /\ (StartJob \/ Stop \/ JobEnds)
Delay == kind = "delay" /\ (Worker \/ JobEnds)
Next ==
  \/ \E c \in Callers : TriggerClaim(c) \/ TriggerSend(c) \/ ReadClock(c) \/ do_or_discard(c)
  \/ Delay \/ Periodic \/ shutdown \/ drop \/ WorkerJoined \/ Deadline \/ Advance

\* The worker is polled, and callers run on; a job need not end, but the
\* deadline of shutdown passes.
Spec ==
  /\ Init /\ [][Next]_vars
  /\ WF_vars(Worker) /\ WF_vars(WorkerJoined) /\ WF_vars(Deadline)
  /\ \A c \in Callers : WF_vars(TriggerSend(c))

-----------------------------------------------------------------------------

\* After a call of trigger, accepted or coalesced, the job is started once
\* more, unless a job has failed or never ends, or the executor is shut down:
\* no interleaving of the flag, the channel and the worker loses a trigger.
TriggersHonoured ==
  []<>(~owed \/ owner # "open") \/ <>[](worker = "running")

\* Once shutdown has returned, whatever it returned, no job is running.
QuietAfterShutdown ==
  owner \in {"Ok", "Job", "TimedOut"} => worker \in {"ended", "failed"}

\* Two jobs a LessExecutor lets run are more than its threshold apart, also
\* when a caller is overtaken between reading the clock and the lock.
LessSpaced ==
  \A a, b \in ran : a # b => a[2] > b[2] + Threshold \/ b[2] > a[2] + Threshold
=============================================================================
