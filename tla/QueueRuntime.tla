---------------------------- MODULE QueueRuntime ----------------------------
(***************************************************************************)
(* The supervised queue of core/src/queue.rs: a bounded channel, a pool of *)
(* workers that share its receiver, and the RunningQueue handle that       *)
(* pauses, resumes and stops them.                                         *)
(*                                                                         *)
(* A worker is the loop of worker_loop.  Its biased select polls           *)
(* state.changed() and then the receiver; the handle may act between the   *)
(* two polls.  A watch receiver learns of a change once: unseen holds the  *)
(* workers that have not.  Messages are numbered in the order in which     *)
(* push accepted them.  Events are notifications that no component reads   *)
(* back and are left out; of the metrics the inflight gauge is kept.       *)
(***************************************************************************)
EXTENDS Naturals, Sequences, FiniteSets

CONSTANTS Workers, Capacity,
          MaxMessages,  \* bound: messages pushed
          MaxPauses     \* bound: calls of pause

ASSUME QueueConfig ==
  /\ IsFiniteSet(Workers) /\ Workers # {}
  /\ Capacity \in Nat \ {0}
  /\ MaxMessages \in Nat /\ MaxPauses \in Nat

VARIABLES
  channel, pushed, producers,  \* queued messages, how many were accepted, is a producer alive
  state, unseen,               \* the watched QueueState and who has not seen its last change
  pc, message, lock,           \* of each worker; lock: the worker that holds the receiver's mutex
  finished,                    \* messages whose handler returned Ok or Err
  lost,                        \* messages whose handler panicked or was aborted
  inflight,                    \* the inflight gauge
  handle,                      \* what the owner of the RunningQueue is doing
  joined, outcome,             \* tasks taken from the JoinSet; what shutdown or wait returned
  pauses, late                 \* history: calls of pause; who took a message while not Running

channel_vars == <<channel, pushed, producers>>
worker_vars == <<pc, message, lock, finished, lost, inflight>>
handle_vars == <<handle, joined, outcome, pauses>>
vars == <<channel_vars, state, unseen, worker_vars, handle_vars, late>>

Ended == {"exited", "panicked", "aborted"}
Alive == {w \in Workers : pc[w] \notin Ended}
Handling == {w \in Workers : pc[w] = "handling"}

TypeOK ==
  /\ channel \in Seq(1..MaxMessages) /\ Len(channel) <= Capacity
  /\ pushed \in 0..MaxMessages
  /\ producers \in BOOLEAN
  /\ state \in {"Running", "Paused", "Shutdown"}
  /\ unseen \subseteq Workers
  /\ pc \in [Workers -> {"check", "paused", "select", "receive", "parked", "handling"} \cup Ended]
  /\ message \in [Workers -> 0..MaxMessages]
  /\ lock \subseteq Workers /\ Cardinality(lock) <= 1
  /\ finished \subseteq 1..MaxMessages /\ lost \subseteq 1..MaxMessages
  /\ inflight \in Nat
  /\ handle \in {"held", "draining", "drained", "waiting", "waited", "dropped"}
  /\ joined \subseteq Workers
  /\ outcome \in {"none", "Ok", "WorkerPanicked", "ShutdownTimeout"}
  /\ pauses \in 0..MaxPauses
  /\ late \subseteq Workers

Init ==
  /\ channel = <<>> /\ pushed = 0 /\ producers = TRUE
  /\ state = "Running" /\ unseen = {}
  /\ pc = [w \in Workers |-> "check"]
  /\ message = [w \in Workers |-> 0]
  /\ lock = {} /\ finished = {} /\ lost = {} /\ inflight = 0
  /\ handle = "held" /\ joined = {} /\ outcome = "none" /\ pauses = 0
  /\ late = {}

-----------------------------------------------------------------------------
(* Producers                                                               *)

\* push once there is room, or try_push; both fail once every worker is gone.
Push ==
  /\ producers
  /\ pushed < MaxMessages
  /\ Len(channel) < Capacity
  /\ Alive # {}
  /\ pushed' = pushed + 1
  /\ channel' = Append(channel, pushed + 1)
  /\ UNCHANGED <<producers, state, unseen, worker_vars, handle_vars, late>>

DropProducers ==
  /\ producers
  /\ producers' = FALSE
  /\ UNCHANGED <<channel, pushed, state, unseen, worker_vars, handle_vars, late>>

-----------------------------------------------------------------------------
(* worker_loop                                                             *)

Goto(w, s) == pc' = [pc EXCEPT ![w] = s]

\* The watch sender is gone, so changed() returns an error.
SenderGone == handle \in {"drained", "waited", "dropped"}

\* The match on current_state.
Check(w) ==
  /\ pc[w] = "check"
  /\ Goto(w, CASE state = "Shutdown" -> "exited"
               [] state = "Paused"   -> "paused"
               [] state = "Running"  -> "select")
  /\ UNCHANGED <<channel_vars, state, unseen, message, lock, finished, lost, inflight,
                 handle_vars, late>>

\* changed() in either place that awaits it; the dropped select releases the mutex.
Changed(w) ==
  /\ pc[w] \in {"paused", "select"}
  /\ \/ w \in unseen /\ Goto(w, "check")
     \/ w \notin unseen /\ SenderGone /\ Goto(w, "exited")
  /\ unseen' = unseen \ {w}
  /\ lock' = lock \ {w}
  /\ UNCHANGED <<channel_vars, state, message, finished, lost, inflight, handle_vars, late>>

\* changed() is pending: the select goes on to the receiver.
Unchanged(w) ==
  /\ pc[w] = "select"
  /\ w \notin unseen /\ ~SenderGone
  /\ Goto(w, "receive")
  /\ UNCHANGED <<channel_vars, state, unseen, message, lock, finished, lost, inflight,
                 handle_vars, late>>

MayReceive(w) == lock \subseteq {w}

\* Fault: the mutex is not held while a message is taken.
ReceiveShared(w) ==
  /\ pc[w] = "receive"
  /\ MayReceive(w)
  /\ channel # <<>>
  /\ message' = [message EXCEPT ![w] = Head(channel)]
  /\ channel' \in {channel, Tail(channel)}
  /\ lock' = {}
  /\ inflight' = inflight + 1
  /\ late' = IF state = "Running" THEN late ELSE late \cup {w}
  /\ Goto(w, "handling")
  /\ UNCHANGED <<pushed, producers, state, unseen, finished, lost, handle_vars>>

Receive(w) ==
  /\ pc[w] = "receive"
  /\ MayReceive(w)
  /\ channel # <<>>
  /\ message' = [message EXCEPT ![w] = Head(channel)]
  /\ channel' = Tail(channel)
  /\ lock' = {}
  /\ inflight' = inflight + 1
  /\ late' = IF state = "Running" THEN late ELSE late \cup {w}
  /\ Goto(w, "handling")
  /\ UNCHANGED <<pushed, producers, state, unseen, finished, lost, handle_vars>>

\* Fault: a worker leaves when the producers are gone, whatever is still queued.
ReceiveClosedEarly(w) ==
  /\ pc[w] = "receive"
  /\ MayReceive(w)
  /\ ~producers
  /\ lock' = {}
  /\ Goto(w, "exited")
  /\ UNCHANGED <<channel_vars, state, unseen, message, finished, lost, inflight, handle_vars, late>>

\* Fault: a worker that leaves keeps the mutex.
ReceiveClosedLocked(w) ==
  /\ pc[w] = "receive"
  /\ MayReceive(w)
  /\ channel = <<>> /\ ~producers
  /\ lock' = {w}
  /\ Goto(w, "exited")
  /\ UNCHANGED <<channel_vars, state, unseen, message, finished, lost, inflight, handle_vars, late>>

\* recv() returns None.
ReceiveClosed(w) ==
  /\ pc[w] = "receive"
  /\ MayReceive(w)
  /\ channel = <<>> /\ ~producers
  /\ lock' = {}
  /\ Goto(w, "exited")
  /\ UNCHANGED <<channel_vars, state, unseen, message, finished, lost, inflight, handle_vars, late>>

\* Nothing to receive, with or without the mutex: the worker sleeps and keeps what it holds.
Park(w) ==
  /\ pc[w] = "receive"
  /\ \/ ~MayReceive(w) /\ UNCHANGED lock
     \/ MayReceive(w) /\ channel = <<>> /\ producers /\ lock' = {w}
  /\ Goto(w, "parked")
  /\ UNCHANGED <<channel_vars, state, unseen, message, finished, lost, inflight, handle_vars, late>>

\* Fault: a worker that sleeps in the select is not woken by a change of the state.
WakeForMessagesOnly(w) ==
  /\ pc[w] = "parked"
  /\ MayReceive(w) /\ (channel # <<>> \/ ~producers)
  /\ Goto(w, "select")
  /\ UNCHANGED <<channel_vars, state, unseen, message, lock, finished, lost, inflight,
                 handle_vars, late>>

\* Woken by either branch, the biased select polls both again, changed() first.
Wake(w) ==
  /\ pc[w] = "parked"
  /\ w \in unseen \/ SenderGone \/ (MayReceive(w) /\ (channel # <<>> \/ ~producers))
  /\ Goto(w, "select")
  /\ UNCHANGED <<channel_vars, state, unseen, message, lock, finished, lost, inflight,
                 handle_vars, late>>

\* Fault: the loop goes back to the select and does not look at the state again.
HandledWithoutCheck(w) ==
  /\ pc[w] = "handling"
  /\ finished' = finished \cup {message[w]}
  /\ message' = [message EXCEPT ![w] = 0]
  /\ inflight' = inflight - 1
  /\ Goto(w, "receive")
  /\ UNCHANGED <<channel_vars, state, unseen, lock, lost, handle_vars, late>>

\* The handler returned Ok or Err.
Handled(w) ==
  /\ pc[w] = "handling"
  /\ finished' = finished \cup {message[w]}
  /\ message' = [message EXCEPT ![w] = 0]
  /\ inflight' = inflight - 1
  /\ Goto(w, "check")
  /\ UNCHANGED <<channel_vars, state, unseen, lock, lost, handle_vars, late>>

\* The task ends in its handler; the message is gone and metrics.finish is not reached.
HandlerPanics(w) ==
  /\ pc[w] = "handling"
  /\ lost' = lost \cup {message[w]}
  /\ message' = [message EXCEPT ![w] = 0]
  /\ Goto(w, "panicked")
  /\ UNCHANGED <<channel_vars, state, unseen, lock, finished, inflight, handle_vars, late>>

\* abort_all, or the drop of the JoinSet, ends a task at the await it is at.
Aborted(w) ==
  /\ SenderGone
  /\ w \in Alive
  /\ lost' = IF pc[w] = "handling" THEN lost \cup {message[w]} ELSE lost
  /\ message' = [message EXCEPT ![w] = 0]
  /\ lock' = lock \ {w}
  /\ Goto(w, "aborted")
  /\ UNCHANGED <<channel_vars, state, unseen, finished, inflight, handle_vars, late>>

-----------------------------------------------------------------------------
(* RunningQueue                                                            *)

\* watch::Sender::send
SendState(s) ==
  /\ state' = s
  /\ unseen' = Workers
  /\ late' = IF state = "Running" \/ s = "Running" THEN {} ELSE late

Pause ==
  /\ handle = "held" /\ state = "Running" /\ pauses < MaxPauses
  /\ SendState("Paused")
  /\ pauses' = pauses + 1
  /\ UNCHANGED <<channel_vars, worker_vars, handle, joined, outcome>>

Resume ==
  /\ handle = "held" /\ state = "Paused"
  /\ SendState("Running")
  /\ UNCHANGED <<channel_vars, worker_vars, handle_vars>>

Shutdown ==
  /\ handle = "held"
  /\ SendState("Shutdown")
  /\ handle' = "draining"
  /\ UNCHANGED <<channel_vars, worker_vars, joined, outcome, pauses>>

Wait ==
  /\ handle = "held"
  /\ handle' = "waiting"
  /\ UNCHANGED <<channel_vars, state, unseen, worker_vars, joined, outcome, pauses, late>>

Return(result) ==
  /\ handle' = IF handle = "draining" THEN "drained" ELSE "waited"
  /\ outcome' = result

\* join_next returned w: both loops stop at the first task that panicked, and wait then asks
\* the others to shut down.
JoinNext(w) ==
  /\ handle \in {"draining", "waiting"}
  /\ pc[w] \in {"exited", "panicked"} /\ w \notin joined
  /\ joined' = joined \cup {w}
  /\ IF pc[w] = "panicked"
     THEN /\ Return("WorkerPanicked")
          /\ IF handle = "waiting" THEN SendState("Shutdown") ELSE UNCHANGED <<state, unseen, late>>
     ELSE /\ IF joined' = Workers THEN Return("Ok") ELSE UNCHANGED <<handle, outcome>>
          /\ UNCHANGED <<state, unseen, late>>
  /\ UNCHANGED <<channel_vars, worker_vars, pauses>>

\* shutdown_timeout
Timeout ==
  /\ handle = "draining"
  /\ Return("ShutdownTimeout")
  /\ UNCHANGED <<channel_vars, state, unseen, worker_vars, joined, pauses, late>>

\* The handle, or the future of shutdown or wait, is dropped.
DropHandle ==
  /\ handle \in {"held", "draining", "waiting"}
  /\ handle' = "dropped"
  /\ UNCHANGED <<channel_vars, state, unseen, worker_vars, joined, outcome, pauses, late>>

-----------------------------------------------------------------------------

WorkerStep(w) ==
  \/ Check(w)
  \/ Changed(w)
  \/ Unchanged(w)
  \/ Receive(w)
  \/ ReceiveClosed(w)
  \/ Park(w)
  \/ Wake(w)
  \/ Handled(w)

Next ==
  \/ Push
  \/ DropProducers
  \/ \E w \in Workers : WorkerStep(w) \/ HandlerPanics(w) \/ Aborted(w) \/ JoinNext(w)
  \/ Pause
  \/ Resume
  \/ Shutdown
  \/ Wait
  \/ Timeout
  \/ DropHandle

Spec == Init /\ [][Next]_vars

\* Tasks are scheduled, handlers return, and shutdown and wait are polled.  Nothing makes the
\* owner of the handle act, a producer go away or the shutdown deadline come.
Fairness == \A w \in Workers : WF_vars(WorkerStep(w)) /\ WF_vars(JoinNext(w))

FairSpec == Spec /\ Fairness

-----------------------------------------------------------------------------
(* Properties                                                              *)

\* An accepted message is in exactly one place: queued, with one worker, finished or lost with
\* its handler.  The inflight gauge counts those being handled and, for ever, those lost:
\* metrics.finish is not reached for them.
MessagesAccounted ==
  LET queued == {channel[i] : i \in DOMAIN channel}
      held   == {message[w] : w \in Handling}
  IN /\ queued \cup held \cup finished \cup lost = 1..pushed
     /\ Len(channel) + Cardinality(Handling) + Cardinality(finished) + Cardinality(lost) = pushed
     /\ inflight = Cardinality(Handling) + Cardinality(lost)

\* shutdown and wait return Ok only when every worker has left its loop, and wait only after
\* every message that was accepted has been handled.
OkMeansDrained ==
  outcome = "Ok" => /\ \A w \in Workers : pc[w] = "exited"
                    /\ handle = "waited" => finished = 1..pushed

\* No message goes astray, not even at the end of the queue.
MessagesKept == MessagesAccounted /\ OkMeansDrained

\* A worker takes at most one message after pause or shutdown was called: the one that its
\* select was already polling for.
StopsPromptly ==
  [][\A w \in Workers :
       state # "Running" /\ pc[w] = "receive" /\ pc'[w] = "handling" => w \notin late]_vars

\* shutdown returns without the help of its deadline as long as handlers return: workers that
\* are paused, asleep in the channel or between two polls all notice the change of the state.
ShutdownReturns == (handle = "draining") ~> SenderGone

\* In a queue that is not paused, wait returns once all producers are gone.  (A paused worker
\* awaits changed() and not the channel, so a wait that began while the queue was paused does not
\* return: wait has consumed the handle that could resume it.)
WaitReturns == (handle = "waiting" /\ ~producers /\ state = "Running") ~> SenderGone
=============================================================================
