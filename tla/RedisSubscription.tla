------------------------- MODULE RedisSubscription --------------------------
(***************************************************************************)
(* RedisSubscription (core/src/stores_redis.rs): the task that reads a     *)
(* Pub/Sub connection into a bounded channel, counts what did not fit,     *)
(* reconnects over the configured endpoints, and ends on shutdown or when  *)
(* the receiver goes.  The consumer reads, asks for shutdown, closes or    *)
(* drops its handle.                                                       *)
(*                                                                         *)
(* A message is its number among those the task read.  An event is         *)
(* [kind, n]: n the message's number, or how many Lagged reports.          *)
(***************************************************************************)
EXTENDS Naturals, Sequences

CONSTANTS
  Capacity,      \* RedisSubscriptionConfig::capacity
  Endpoints,     \* how many urls
  MaxMessages, MaxBreaks, MaxFailures    \* bounds

VARIABLES
  worker,     \* run_subscription: where it is
  index,      \* endpoint_index
  queue,      \* the mpsc channel
  dropped,    \* the task's counter
  asked,      \* the oneshot was sent or its sender dropped
  receiver,   \* "open", "closing" (inside close()) or "dropped"
  read,       \* messages read so far
  breaks, failures,
  expect,     \* history: the number the consumer is due next
  closed      \* history: Closed was sent

vars == <<worker, index, queue, dropped, asked, receiver, read, breaks, failures, expect, closed>>

Event(kind, n) == [kind |-> kind, n |-> n]
Sending == {"lagged", "disconnected", "reconnected", "closed"}

TypeOK ==
  /\ worker \in {"reading", "sleeping", "connecting", "done"} \cup Sending
  /\ index \in 0..(Endpoints - 1)
  /\ Len(queue) <= Capacity
  /\ dropped \in 0..MaxMessages /\ read \in 0..MaxMessages
  /\ receiver \in {"open", "closing", "dropped"}

\* start_subscription refuses a capacity below two and no urls
Init ==
  /\ Capacity >= 2 /\ Endpoints >= 1
  /\ worker = "reading" /\ index \in 0..(Endpoints - 1)
  /\ queue = <<>> /\ dropped = 0
  /\ asked = FALSE /\ receiver = "open"
  /\ read = 0 /\ breaks = 0 /\ failures = 0
  /\ expect = 1 /\ closed = FALSE

-----------------------------------------------------------------------------
(* enqueue_subscription_message: try_send twice, never waiting             *)

Room(q) == receiver # "dropped" /\ Len(q) < Capacity

\* Fault: the report clears the counter, the message that found no room behind
\* it is not counted.
EnqueueForgetful(n) ==
  IF dropped > 0
  THEN IF Room(queue)
       THEN LET reported == Append(queue, Event("Lagged", dropped)) IN
            /\ dropped' = 0
            /\ queue' = IF Room(reported) THEN Append(reported, Event("Message", n)) ELSE reported
       ELSE dropped' = dropped + 1 /\ queue' = queue
  ELSE IF Room(queue) THEN queue' = Append(queue, Event("Message", n)) /\ dropped' = dropped
       ELSE dropped' = dropped + 1 /\ queue' = queue

enqueue_subscription_message(n) ==
  IF dropped > 0
  THEN IF Room(queue)
       THEN LET reported == Append(queue, Event("Lagged", dropped)) IN
            /\ dropped' = IF Room(reported) THEN 0 ELSE 1
            /\ queue' = IF Room(reported) THEN Append(reported, Event("Message", n)) ELSE reported
       ELSE dropped' = dropped + 1 /\ queue' = queue
  ELSE IF Room(queue) THEN queue' = Append(queue, Event("Message", n)) /\ dropped' = dropped
       ELSE dropped' = dropped + 1 /\ queue' = queue

ReadMessage ==
  /\ worker = "reading" /\ read < MaxMessages
  /\ read' = read + 1
  /\ enqueue_subscription_message(read + 1)
  /\ UNCHANGED <<worker, index, asked, receiver, breaks, failures, expect, closed>>

\* messages.next() is None
Disconnect ==
  /\ worker = "reading" /\ breaks < MaxBreaks
  /\ breaks' = breaks + 1
  /\ worker' = IF dropped > 0 THEN "lagged" ELSE "disconnected"
  /\ UNCHANGED <<index, queue, dropped, asked, receiver, read, failures, expect, closed>>

\* send_subscription_event: the event each stage sends, and where it leads
EventOf == [lagged |-> "Lagged", disconnected |-> "Disconnected", reconnected |-> "Reconnected", closed |-> "Closed"]
After == [lagged |-> "disconnected", disconnected |-> "sleeping", reconnected |-> "reading", closed |-> "done"]

SendEvent ==
  /\ worker \in Sending
  /\ \/ /\ Room(queue)
        /\ queue' = Append(queue, Event(EventOf[worker], IF worker = "lagged" THEN dropped ELSE 0))
        /\ dropped' = IF worker = "lagged" THEN 0 ELSE dropped
        /\ worker' = After[worker]
        /\ closed' = (worker = "closed")
     \/ /\ receiver = "dropped"
        /\ worker' = "done"
        /\ UNCHANGED <<queue, dropped, closed>>
  /\ UNCHANGED <<index, asked, receiver, read, breaks, failures, expect>>

Slept ==
  /\ worker = "sleeping"
  /\ worker' = "connecting"
  /\ UNCHANGED <<index, queue, dropped, asked, receiver, read, breaks, failures, expect, closed>>

\* connect_subscription tries every url from the one after the last
Order(start) == [offset \in 0..(Endpoints - 1) |-> (start + offset) % Endpoints]
connect_subscription(up) ==
  LET order == Order((index + 1) % Endpoints) IN
  {order[i] : i \in {j \in DOMAIN order : order[j] \in up /\ \A h \in 0..(j - 1) : order[h] \notin up}}

Connect(up) ==
  /\ worker = "connecting"
  /\ \/ /\ \E i \in connect_subscription(up) : index' = i
        /\ worker' = "reconnected" /\ UNCHANGED failures
     \/ /\ connect_subscription(up) = {} /\ failures < MaxFailures
        /\ failures' = failures + 1
        /\ worker' = "disconnected" /\ UNCHANGED index
  /\ UNCHANGED <<queue, dropped, asked, receiver, read, breaks, expect, closed>>

\* Fault: the select around messages.next() has no shutdown arm.
TakeShutdownLate ==
  /\ asked /\ worker \notin {"closed", "done", "reading"}
  /\ worker' = "closed"
  /\ UNCHANGED <<index, queue, dropped, asked, receiver, read, breaks, failures, expect, closed>>

\* every select has a shutdown arm: Closed is what is sent next
TakeShutdown ==
  /\ asked /\ worker \notin {"closed", "done"}
  /\ worker' = "closed"
  /\ UNCHANGED <<index, queue, dropped, asked, receiver, read, breaks, failures, expect, closed>>

\* the sender.closed() arms
ReceiverGone ==
  /\ receiver = "dropped" /\ worker \in {"reading", "sleeping", "connecting"}
  /\ worker' = "done"
  /\ UNCHANGED <<index, queue, dropped, asked, receiver, read, breaks, failures, expect, closed>>

-----------------------------------------------------------------------------
(* the consumer's handle                                                   *)

\* recv and try_recv
recv ==
  /\ receiver # "dropped" /\ queue # <<>>
  /\ queue' = Tail(queue)
  /\ expect' = CASE Head(queue).kind = "Message" -> Head(queue).n + 1
                 [] Head(queue).kind = "Lagged"  -> expect + Head(queue).n
                 [] OTHER -> expect
  /\ UNCHANGED <<worker, index, dropped, asked, receiver, read, breaks, failures, closed>>

shutdown ==
  /\ receiver = "open" /\ ~asked
  /\ asked' = TRUE
  /\ UNCHANGED <<worker, index, queue, dropped, receiver, read, breaks, failures, expect, closed>>

close ==
  /\ receiver = "open"
  /\ receiver' = "closing" /\ asked' = TRUE
  /\ UNCHANGED <<worker, index, queue, dropped, read, breaks, failures, expect, closed>>

\* Drop, and close() once it saw Closed or the end of the channel
drop ==
  /\ receiver = "open" \/ (receiver = "closing" /\ worker = "done" /\ queue = <<>>)
  /\ receiver' = "dropped" /\ asked' = TRUE /\ queue' = <<>>
  /\ UNCHANGED <<worker, index, dropped, read, breaks, failures, expect, closed>>

Worker ==
  \/ ReadMessage \/ Disconnect \/ SendEvent \/ Slept \/ TakeShutdown \/ ReceiverGone
  \/ \E up \in SUBSET (0..(Endpoints - 1)) : Connect(up)

Next == Worker \/ recv \/ shutdown \/ close \/ drop

\* tokio polls the task and close() keeps reading; a caller that only asks for
\* shutdown need not read.
Spec ==
  /\ Init /\ [][Next]_vars
  /\ WF_vars(SendEvent) /\ WF_vars(TakeShutdown) /\ WF_vars(ReceiverGone)
  /\ WF_vars(receiver = "closing" /\ recv)

-----------------------------------------------------------------------------

\* The message at the channel's end is the one after the last one read plus
\* those the Lagged events in between counted: none is dropped silently,
\* reported twice or delivered out of order, across reconnects too.
NoSilentGap ==
  queue # <<>> /\ Head(queue).kind = "Message" => Head(queue).n = expect

\* The task ends under a receiver that is still there only after it delivered
\* Closed ("A final Closed is delivered before EOF").
ClosedBeforeEof == worker = "done" /\ receiver # "dropped" => closed

\* close() comes to its end, whatever the task was doing when it was called:
\* waiting for room, sleeping, connecting or reading.
CloseReturns == receiver = "closing" ~> worker = "done"
=============================================================================
