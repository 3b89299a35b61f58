------------------------------ MODULE Balancing -----------------------------
(***************************************************************************)
(* The in-process balancers: P2cBalancer of core/src/balancer.rs and the   *)
(* BalancedPusher and FanoutPusher of core/src/queue.rs.  A behaviour uses *)
(* one of them (kind).  A P2C pick reads two nodes under their own locks,  *)
(* one read at a time, and marks the node it selects in two more steps; a  *)
(* pusher tries one queue at a time while consumers drain and close them.  *)
(* A node's moving averages are abstracted to the side of the threshold    *)
(* they are on; an outcome moves an average toward itself or not at all.   *)
(***************************************************************************)
EXTENDS Naturals, Sequences, FiniteSets

CONSTANTS
  Nodes,        \* nodes of the P2C balancer
  Requests,     \* pickers and pushers
  Queues,       \* number of queues of a pusher
  QueueSize,    \* capacity of a queue
  MaxRounds     \* bound: picks of a request

VARIABLES
  kind,         \* "p2c", "balanced" or "fanout"
  node,         \* [inflight, healthy, latency, aged]
  request,      \* each request: where it is, its candidates and what it read
  steady,       \* history: each pick's candidates whose health did not change
  queue,        \* queue -> the values in it
  closed,       \* queues whose consumer is gone
  next,         \* BalancedPusher::next
  taken,        \* history: values consumed
  rounds

p2c == <<node, steady>>
push == <<queue, closed, next, taken>>
vars == <<kind, node, request, steady, queue, closed, next, taken, rounds>>

None == {}
Some(v) == {v}
Idle == [at |-> "idle", first |-> None, second |-> None, good |-> None, load |-> 0, node |-> None,
         start |-> 0, offset |-> 0, missed |-> {}]

-----------------------------------------------------------------------------
(* Node                                                                    *)

\* sqrt(latency) * (inflight + 1), a fast node's root is 1 and a slow one's 2
load(n) == node[n].latency * (node[n].inflight + 1)

\* Fault: the request stays counted when it fails.
complete_ok(n, success) ==
  \E l \in 1..2, h \in {node[n].healthy, success} :
    node' = [node EXCEPT ![n] = [inflight |-> @.inflight - (IF success THEN 1 ELSE 0), healthy |-> h,
                                 latency |-> l, aged |-> @.aged]]

complete(n, success) ==
  \E l \in 1..2, h \in {node[n].healthy, success} :
    node' = [node EXCEPT ![n] = [inflight |-> @.inflight - 1, healthy |-> h, latency |-> l, aged |-> @.aged]]

-----------------------------------------------------------------------------
(* P2cBalancer::pick                                                       *)

Picking(r, l) == kind = "p2c" /\ request[r].at = l /\ UNCHANGED kind /\ UNCHANGED push
Reading == UNCHANGED <<node, steady, rounds>>
Select(r, n) == request' = [request EXCEPT ![r].at = "mark", ![r].node = Some(n)]
The(o) == CHOOSE x \in o : TRUE
First(r) == The(request[r].first)
Second(r) == The(request[r].second)

\* two different indices, or the only node
pick(r) ==
  /\ Picking(r, "idle") /\ rounds < MaxRounds /\ rounds' = rounds + 1 /\ UNCHANGED node
  /\ \/ \E a, b \in DOMAIN node :
          /\ a # b /\ steady' = [steady EXCEPT ![r] = {a, b}]
          /\ request' = [request EXCEPT ![r] = [Idle EXCEPT !.at = "first", !.first = Some(a), !.second = Some(b)]]
     \/ \E a \in DOMAIN node : /\ DOMAIN node = {a} /\ Select(r, a) /\ steady' = [steady EXCEPT ![r] = {}]

\* choose: the health of the first, then of the second; the healthier one wins
ReadFirst(r) ==
  /\ Picking(r, "first") /\ Reading
  /\ request' = [request EXCEPT ![r].at = "second", ![r].good = Some(node[First(r)].healthy)]

\* Fault: a node that was not picked for long is forced before health is compared.
ForceFirst(r) ==
  /\ Picking(r, "second") /\ Reading
  /\ LET first == The(request[r].good)
         second == node[Second(r)].healthy IN
     IF node[Second(r)].aged THEN Select(r, Second(r))
     ELSE IF first # second THEN Select(r, IF first THEN First(r) ELSE Second(r))
     ELSE request' = [request EXCEPT ![r].at = "age"]

ReadSecond(r) ==
  /\ Picking(r, "second") /\ Reading
  /\ LET first == The(request[r].good)
         second == node[Second(r)].healthy IN
     IF first # second THEN Select(r, IF first THEN First(r) ELSE Second(r))
     ELSE request' = [request EXCEPT ![r].at = "age"]
\* the second is forced when it was not picked for FORCE_PICK_AFTER
ReadAge(r) ==
  /\ Picking(r, "age") /\ Reading
  /\ IF node[Second(r)].aged THEN Select(r, Second(r))
     ELSE request' = [request EXCEPT ![r].at = "load"]
ReadLoad(r) ==
  /\ Picking(r, "load") /\ Reading
  /\ request' = [request EXCEPT ![r].at = "compare", ![r].load = load(First(r))]
Compare(r) ==
  /\ Picking(r, "compare") /\ Reading
  /\ Select(r, IF request[r].load <= load(Second(r)) THEN First(r) ELSE Second(r))

\* mark_picked: last_pick under the lock, then the counter
mark_picked(r) ==
  /\ UNCHANGED <<steady, rounds>>
  /\ \/ /\ Picking(r, "mark") /\ request' = [request EXCEPT ![r].at = "count"]
        /\ node' = [node EXCEPT ![The(request[r].node)].aged = FALSE]
     \/ /\ Picking(r, "count") /\ request' = [request EXCEPT ![r].at = "held"]
        /\ node' = [node EXCEPT ![The(request[r].node)].inflight = @ + 1]

\* The request takes its node, so that a drop after complete finds none.
Finish(r, success) ==
  /\ Picking(r, "held") /\ UNCHANGED rounds /\ request' = [request EXCEPT ![r] = Idle]
  /\ \E n \in request[r].node :
       /\ complete(n, success)
       /\ steady' = [q \in Requests |-> IF node'[n].healthy # node[n].healthy THEN steady[q] \ {n} ELSE steady[q]]
Complete(r) == \E success \in BOOLEAN : Finish(r, success)
\* dropping an unfinished request is a failure
Drop(r) == Finish(r, FALSE)

\* more than FORCE_PICK_AFTER passes since a node was picked
Age(n) ==
  /\ kind = "p2c" /\ ~node[n].aged /\ node' = [node EXCEPT ![n].aged = TRUE]
  /\ UNCHANGED <<kind, request, steady, rounds>> /\ UNCHANGED push

-----------------------------------------------------------------------------
(* BalancedPusher and FanoutPusher; a request is the value it pushes       *)

Pushing == UNCHANGED <<kind, node, steady, rounds>>
Room(q) == q \notin closed /\ Len(queue[q]) < QueueSize

\* next.fetch_add modulo the number of queues
BalancedStart(r) ==
  /\ kind = "balanced" /\ request[r].at = "idle" /\ Pushing
  /\ request' = [request EXCEPT ![r].at = "try", ![r].start = next]
  /\ next' = (next + 1) % Queues /\ UNCHANGED <<queue, closed, taken>>

\* Fault: the scan goes on after a queue has taken the value.
TryAll(r) ==
  /\ kind = "balanced" /\ request[r].at = "try" /\ Pushing /\ UNCHANGED <<closed, next, taken>>
  /\ LET q == ((request[r].start + request[r].offset) % Queues) + 1
         last == request[r].offset + 1 = Queues IN
     /\ queue' = IF Room(q) THEN [queue EXCEPT ![q] = Append(@, r)] ELSE queue
     /\ request' = [request EXCEPT ![r].at = IF last THEN "pushed" ELSE @, ![r].offset = @ + 1]

\* one queue of the scan: a full or closed one gives the value back
BalancedTry(r) ==
  /\ kind = "balanced" /\ request[r].at = "try" /\ Pushing /\ UNCHANGED <<closed, next, taken>>
  /\ LET q == ((request[r].start + request[r].offset) % Queues) + 1
         last == request[r].offset + 1 = Queues IN
     IF Room(q)
     THEN queue' = [queue EXCEPT ![q] = Append(@, r)] /\ request' = [request EXCEPT ![r].at = "pushed"]
     ELSE /\ UNCHANGED queue
          /\ request' = [request EXCEPT ![r].at = IF last THEN "returned" ELSE @, ![r].offset = @ + 1]

\* a clone to each queue in turn; the indices that refused are the result
FanoutTry(r) ==
  /\ kind = "fanout" /\ request[r].at \in {"idle", "try"} /\ Pushing /\ UNCHANGED <<closed, next, taken>>
  /\ LET q == request[r].offset + 1 IN
     /\ queue' = IF Room(q) THEN [queue EXCEPT ![q] = Append(@, r)] ELSE queue
     /\ request' = [request EXCEPT ![r].at = IF q = Queues THEN "pushed" ELSE "try", ![r].offset = q,
                                   ![r].missed = @ \cup (IF Room(q) THEN {} ELSE {q})]

Consume(q) ==
  /\ kind # "p2c" /\ queue[q] # <<>> /\ q \notin closed
  /\ taken' = [taken EXCEPT ![q] = @ \cup {Head(queue[q])}] /\ queue' = [queue EXCEPT ![q] = Tail(@)]
  /\ Pushing /\ UNCHANGED <<request, closed, next>>
\* The consumer goes and what it left in the queue goes with it.
Close(q) ==
  /\ kind # "p2c" /\ q \notin closed /\ closed' = closed \cup {q}
  /\ Pushing /\ UNCHANGED <<request, queue, next, taken>>

-----------------------------------------------------------------------------
Init ==
  /\ kind \in {"p2c", "balanced", "fanout"} /\ rounds = 0
  /\ \E some \in SUBSET Nodes \ {{}} :
       node = [n \in some |-> [inflight |-> 0, healthy |-> TRUE, latency |-> 1, aged |-> FALSE]]
  /\ request = [r \in Requests |-> Idle] /\ steady = [r \in Requests |-> {}]
  /\ queue = [q \in 1..Queues |-> <<>>] /\ closed = {} /\ next = 0
  /\ taken = [q \in 1..Queues |-> {}]
Next ==
  \/ \E r \in Requests :
       \/ pick(r) \/ ReadFirst(r) \/ ReadSecond(r) \/ ReadAge(r) \/ ReadLoad(r) \/ Compare(r)
       \/ mark_picked(r) \/ Complete(r) \/ Drop(r)
       \/ BalancedStart(r) \/ BalancedTry(r) \/ FanoutTry(r)
  \/ \E n \in DOMAIN node : Age(n)
  \/ \E q \in 1..Queues : Consume(q) \/ Close(q)
Spec == Init /\ [][Next]_vars

-----------------------------------------------------------------------------
TypeOK ==
  /\ \A n \in DOMAIN node : node[n].healthy \in BOOLEAN /\ node[n].latency \in 1..2
  /\ \A q \in 1..Queues : Len(queue[q]) \in 0..QueueSize
  /\ next \in 0..(Queues - 1) /\ rounds \in 0..MaxRounds

\* A node's inflight counter is the number of requests that were picked for it and
\* neither completed nor dropped: each P2cRequest is uncounted exactly once.
InflightExact ==
  \A n \in DOMAIN node :
    node[n].inflight = Cardinality({r \in Requests : request[r].at = "held" /\ request[r].node = Some(n)})

\* A node that was unhealthy during the whole pick is not selected while the other
\* candidate was healthy during the whole pick, not even when it is overdue.
UnhealthyAvoided ==
  \A r \in Requests : request[r].at = "mark" /\ request[r].second # None =>
    \A n \in request[r].node : \A o \in (request[r].first \cup request[r].second) \ {n} :
      {n, o} \subseteq steady[r] => node[n].healthy \/ ~node[o].healthy

\* What a pusher says about a value is what happened to it: BalancedPusher puts it
\* into exactly one queue or gives it back, and FanoutPusher names exactly the
\* queues that did not take it.
PushesTold ==
  \A r \in Requests :
    LET in == {q \in 1..Queues : r \in taken[q] \/ \E i \in 1..Len(queue[q]) : queue[q][i] = r} IN
    /\ kind = "balanced" => Cardinality(in) = IF request[r].at = "pushed" THEN 1 ELSE 0
    /\ kind = "fanout" /\ request[r].at = "pushed" => in = (1..Queues) \ request[r].missed
=============================================================================
