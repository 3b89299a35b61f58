---------------------------- MODULE RestPipeline ----------------------------
(***************************************************************************)
(* The standard REST stack (standard_app! of rest/src/server.rs): what a   *)
(* request passes on its way to the handler and back, and the permits it   *)
(* holds meanwhile.  Outermost first: route policies, content encryption,  *)
(* body limit, circuit breaker, load shedder, concurrency limit, rate      *)
(* limit, timeout, metrics, recovery.                                      *)
(*                                                                         *)
(* The breaker and the shedder are cloned into every Actix worker.  The    *)
(* concurrency limit and the token bucket are built by the macro, which    *)
(* the HttpServer factory runs once per worker: they are per worker here.  *)
(*                                                                         *)
(* A breaker is reduced to the outcomes recorded on it; it may be open     *)
(* once it holds a failure (CircuitBreaker models when).  The shedder      *)
(* decides by CPU and latency, so here it may refuse at any time           *)
(* (LoadShedder models when).  Sizes, keys and tokens are reduced to the   *)
(* decision they lead to.                                                  *)
(***************************************************************************)
EXTENDS Naturals, FiniteSets, FiniteSetsExt

CONSTANTS
  Requests, Routes, Workers,
  Protected,      \* routes whose compiled policy has JWT secrets
  Priority,       \* routes whose policy says priority
  Sse,            \* routes whose policy says sse
  MaxConcurrent,  \* max_concurrent_requests
  ReserveSize,        \* priority_concurrency_reserve
  Burst,          \* rate_limit_burst
  MaxTicks        \* bound: refill periods, of one token each

VARIABLES
  request,    \* one record per request
  verdict,    \* per route, the outcomes its breaker recorded
  in_flight,  \* of the AdaptiveShedder
  semaphore,  \* per worker, free slots of ConcurrencyLimit.semaphore
  priority_reserve,
  bucket,     \* per worker, the TokenBucket
  gauge,      \* http_requests_in_flight
  ticks,      \* refill periods that have passed
  passed,     \* history: per worker, requests the token bucket let through
  faults,     \* history: per route, handler failures, timeouts and body errors
  overloads   \* history: per route, 503s of the shedder and the concurrency limit

vars == <<request, verdict, in_flight, semaphore, priority_reserve, bucket, gauge, ticks,
          passed, faults, overloads>>

Outcomes == {"Success", "Failure", "Cancellation"}

NewRequest ==
  [pc |-> "idle", route |-> {}, worker |-> {}, breaker |-> FALSE, shed |-> FALSE, slot |-> "none",
   outcome |-> "Success"]

Done == [NewRequest EXCEPT !.pc = "done"]

The(set) == CHOOSE x \in set : TRUE
RouteOf(r) == The(request[r].route)
WorkerOf(r) == The(request[r].worker)

TypeOK ==
  /\ \A r \in Requests :
       /\ request[r].pc \in {"idle", "policy", "sealed", "reading", "breaker", "shed", "slot", "rate",
                             "handling", "body", "done"}
       /\ request[r].slot \in {"none", "semaphore", "reserve"}
       /\ request[r].outcome \in Outcomes
  /\ verdict \in [Routes -> [Outcomes -> 0..Cardinality(Requests)]]
  /\ semaphore \in [Workers -> 0..MaxConcurrent]
  /\ priority_reserve \in [Workers -> 0..ReserveSize]
  /\ \A w \in Workers : bucket[w].available \in 0..Burst /\ bucket[w].elapsed \in 0..MaxTicks
  /\ in_flight \in 0..Cardinality(Requests) /\ gauge \in 0..Cardinality(Requests)

Init ==
  /\ request = [r \in Requests |-> NewRequest]
  /\ verdict = [t \in Routes |-> [o \in Outcomes |-> 0]]
  /\ in_flight = 0
  /\ semaphore = [w \in Workers |-> MaxConcurrent]
  /\ priority_reserve = [w \in Workers |-> ReserveSize]
  /\ bucket = [w \in Workers |-> [available |-> Burst, elapsed |-> 0]]
  /\ gauge = 0
  /\ ticks = 0
  /\ passed = [w \in Workers |-> 0]
  /\ faults = [t \in Routes |-> 0]
  /\ overloads = [t \in Routes |-> 0]

History == <<passed, faults, overloads>>
Slots == <<semaphore, priority_reserve>>
Limits == <<bucket, ticks>>

Goto(r, pc) == request' = [request EXCEPT ![r].pc = pc]

\* An Actix worker accepts a request for a route.
Arrive(r, t, w) ==
  /\ request[r].pc = "idle"
  /\ request' = [request EXCEPT ![r] = [NewRequest EXCEPT !.pc = "policy", !.route = {t}, !.worker = {w}]]
  /\ UNCHANGED <<verdict, in_flight, Slots, Limits, gauge, History>>

\* Before the breaker a request holds nothing: an answer there ends it.
Refused(r) == request' = [request EXCEPT ![r] = Done]

Unmoved == UNCHANGED <<verdict, in_flight, Slots, Limits, gauge, History>>

\* RoutePolicies::call: 401 on a protected route without a valid token.
RoutePolicies(r) ==
  /\ request[r].pc = "policy"
  /\ \/ RouteOf(r) \in Protected /\ Refused(r)
     \/ Goto(r, "sealed")
  /\ Unmoved

\* ContentEncryption::call before the inner service: 413, 415 or 400, the
\* decrypted payload, or a pass when no provider is configured.
DecryptRequest(r) ==
  /\ request[r].pc = "sealed"
  /\ Refused(r) \/ Goto(r, "reading")
  /\ Unmoved

\* RequestBodyLimit::call: 413 (declared, received or expanded size) or 400.
RequestBodyLimit(r) ==
  /\ request[r].pc = "reading"
  /\ Refused(r) \/ Goto(r, "breaker")
  /\ Unmoved

\* The client goes away before the breaker was asked: the future is dropped.
LeaveEarly(r) ==
  /\ request[r].pc \in {"sealed", "reading"}
  /\ Refused(r)
  /\ Unmoved

\* CircuitBreaker::acquire on the route's breaker; 503 while it is open.
ServerCircuitBreaker(r) ==
  /\ request[r].pc = "breaker"
  /\ \/ request' = [request EXCEPT ![r].pc = "shed", ![r].breaker = TRUE]
     \/ verdict[RouteOf(r)]["Failure"] > 0 /\ Refused(r)
  /\ Unmoved

\* A middleware inside the breaker answers without calling further in: the
\* response travels out as a body that the breaker's ServerCircuitBody wraps.
Answered(q, outcome) == [q EXCEPT !.pc = "body", !.slot = "none", !.outcome = outcome]

http_status_outcome(status) == IF status = "5xx" THEN "Failure" ELSE "Success"

AdaptiveLoadShed(r) ==
  /\ request[r].pc = "shed"
  /\ \/ /\ request' = [request EXCEPT ![r].pc = "slot", ![r].shed = TRUE]
        /\ in_flight' = in_flight + 1
        /\ UNCHANGED overloads
     \/ /\ request' = [request EXCEPT ![r] = Answered(@, http_status_outcome("5xx"))]
        /\ overloads' = [overloads EXCEPT ![RouteOf(r)] = @ + 1]
        /\ UNCHANGED in_flight
  /\ UNCHANGED <<verdict, Slots, Limits, gauge, passed, faults>>

\* ConcurrencyLimit::call: a slot of the worker's semaphore, for a priority
\* route one of the reserve, else 503.
ConcurrencyLimit(r) ==
  LET w == WorkerOf(r)
      fits == semaphore[w] > 0
      reserved == ~fits /\ RouteOf(r) \in Priority /\ priority_reserve[w] > 0
  IN /\ request[r].pc = "slot"
     /\ \/ /\ fits
           /\ semaphore' = [semaphore EXCEPT ![w] = @ - 1]
           /\ request' = [request EXCEPT ![r].pc = "rate", ![r].slot = "semaphore"]
           /\ UNCHANGED <<priority_reserve, overloads>>
        \/ /\ reserved
           /\ priority_reserve' = [priority_reserve EXCEPT ![w] = @ - 1]
           /\ request' = [request EXCEPT ![r].pc = "rate", ![r].slot = "reserve"]
           /\ UNCHANGED <<semaphore, overloads>>
        \/ /\ ~fits /\ ~reserved
           /\ request' = [request EXCEPT ![r] = Answered(@, http_status_outcome("5xx"))]
           /\ overloads' = [overloads EXCEPT ![RouteOf(r)] = @ + 1]
           /\ UNCHANGED Slots
     /\ UNCHANGED <<verdict, in_flight, Limits, gauge, passed, faults>>

\* Fault: a reserve slot is given back to the semaphore.
ReleaseToSemaphore(r) ==
  /\ semaphore' = [semaphore EXCEPT ![WorkerOf(r)] = IF request[r].slot = "none" THEN @ ELSE @ + 1]
  /\ UNCHANGED priority_reserve

\* drop(permit) of ConcurrencyLimit.
ReleaseSlot(r) ==
  /\ semaphore' = [semaphore EXCEPT ![WorkerOf(r)] = IF request[r].slot = "semaphore" THEN @ + 1 ELSE @]
  /\ priority_reserve' =
       [priority_reserve EXCEPT ![WorkerOf(r)] = IF request[r].slot = "reserve" THEN @ + 1 ELSE @]

\* Fault: last_refill is not moved.
RefilledAgain(b) == [available |-> Min({b.available + b.elapsed, Burst}), elapsed |-> b.elapsed]

\* TokenBucket::try_acquire: the refill since last_refill.
Refilled(b) == [available |-> Min({b.available + b.elapsed, Burst}), elapsed |-> 0]

\* RateLimit::call: a token, else 429.
RateLimit(r) ==
  LET w == WorkerOf(r)
      b == Refilled(bucket[w])
  IN /\ request[r].pc = "rate"
     /\ \/ /\ b.available >= 1
           /\ bucket' = [bucket EXCEPT ![w] = [b EXCEPT !.available = @ - 1]]
           /\ passed' = [passed EXCEPT ![w] = @ + 1]
           /\ Goto(r, "handling")
           /\ gauge' = gauge + 1
           /\ UNCHANGED Slots
        \/ /\ b.available < 1
           /\ bucket' = [bucket EXCEPT ![w] = b]
           /\ request' = [request EXCEPT ![r] = Answered(@, http_status_outcome("4xx"))]
           /\ ReleaseSlot(r)
           /\ UNCHANGED <<passed, gauge>>
     /\ UNCHANGED <<verdict, in_flight, ticks, faults, overloads>>

\* The handler's response is ready: the gauge and the slot are given back, the
\* shedder's and the breaker's permits stay with the body.
Respond(r, status) ==
  /\ request[r].pc = "handling"
  /\ request' = [request EXCEPT ![r] = Answered(@, http_status_outcome(status))]
  /\ gauge' = gauge - 1
  /\ ReleaseSlot(r)
  /\ faults' = [faults EXCEPT ![RouteOf(r)] = IF status = "5xx" THEN @ + 1 ELSE @]
  /\ UNCHANGED <<verdict, in_flight, Limits, passed, overloads>>

\* Every permit a dropped or finished request still holds goes back; its
\* breaker permit is finished with an outcome (Drop: cancellation).
Settle(r, outcome) ==
  /\ request' = [request EXCEPT ![r] = Done]
  /\ verdict' = [verdict EXCEPT ![RouteOf(r)][outcome] = IF request[r].breaker THEN @ + 1 ELSE @]
  /\ in_flight' = IF request[r].shed THEN in_flight - 1 ELSE in_flight
  /\ gauge' = IF request[r].pc = "handling" THEN gauge - 1 ELSE gauge
  /\ ReleaseSlot(r)

\* An Err of the inner service: a panic that Recover caught, or Timeout's 504,
\* which routes with an sse policy never get.  The breaker: finish(false).
HandlerError(r) ==
  /\ request[r].pc = "handling"
  /\ Settle(r, "Failure")
  /\ faults' = [faults EXCEPT ![RouteOf(r)] = @ + 1]
  /\ UNCHANGED <<Limits, passed, overloads>>

Timeout(r) == HandlerError(r) /\ RouteOf(r) \notin Sse

\* ServerCircuitBody::poll_next: the body ends, or breaks.
BodyEnds(r) ==
  /\ request[r].pc = "body"
  /\ Settle(r, request[r].outcome)
  /\ UNCHANGED <<Limits, History>>

BodyBreaks(r) ==
  /\ request[r].pc = "body"
  /\ Settle(r, "Failure")
  /\ faults' = [faults EXCEPT ![RouteOf(r)] = @ + 1]
  /\ UNCHANGED <<Limits, passed, overloads>>

\* Fault: a caller that leaves is charged to the route.
DropBodyBlaming(r) ==
  /\ request[r].pc \in {"handling", "body"}
  /\ Settle(r, "Failure")
  /\ UNCHANGED <<Limits, History>>

\* The future or the body is dropped: the client left, or ContentEncryption
\* answers 500 instead of an event stream or an oversized body.
DropBody(r) ==
  /\ request[r].pc \in {"handling", "body"}
  /\ Settle(r, "Cancellation")
  /\ UNCHANGED <<Limits, History>>

Tick ==
  /\ ticks < MaxTicks
  /\ ticks' = ticks + 1
  /\ bucket' = [w \in Workers |-> [bucket[w] EXCEPT !.elapsed = @ + 1]]
  /\ UNCHANGED <<request, verdict, in_flight, Slots, gauge, History>>

Next ==
  \/ \E r \in Requests :
       \/ \E t \in Routes, w \in Workers : Arrive(r, t, w)
       \/ RoutePolicies(r) \/ DecryptRequest(r) \/ RequestBodyLimit(r) \/ LeaveEarly(r)
       \/ ServerCircuitBreaker(r) \/ AdaptiveLoadShed(r) \/ ConcurrencyLimit(r) \/ RateLimit(r)
       \/ \E status \in {"2xx", "4xx", "5xx"} : Respond(r, status)
       \/ HandlerError(r) \/ Timeout(r) \/ BodyEnds(r) \/ BodyBreaks(r) \/ DropBody(r)
  \/ Tick

Spec == Init /\ [][Next]_vars

-----------------------------------------------------------------------------

HoldingSlot(w, slot) == {r \in Requests : request[r].worker = {w} /\ request[r].slot = slot}
Asked(t) == {r \in Requests : request[r].breaker /\ request[r].route = {t}}

\* Every permit goes back where it came from on every path out of the stack
\* (answer, rejection further in, panic, timeout, disconnect, broken body): what
\* the semaphores, the shedder and the gauge count is what requests still hold.
PermitsConserved ==
  /\ \A w \in Workers :
       /\ semaphore[w] + Cardinality(HoldingSlot(w, "semaphore")) = MaxConcurrent
       /\ priority_reserve[w] + Cardinality(HoldingSlot(w, "reserve")) = ReserveSize
  /\ in_flight = Cardinality({r \in Requests : request[r].shed})
  /\ gauge = Cardinality({r \in Requests : request[r].pc = "handling"})

\* A route's breaker is charged a failure only for a handler that failed or for
\* a rejection the stack itself produced inside the breaker; a caller that goes
\* away is never charged.
FailuresExplained == \A t \in Routes : verdict[t]["Failure"] <= faults[t] + overloads[t]


\* One worker lets through at most the burst and one request per refill period.
WorkerRate == \A w \in Workers : passed[w] <= Burst + ticks

\* "process-local token-bucket": the process lets through at most the burst and
\* one request per refill period.
ProcessRate == MapThenSumSet(LAMBDA w : passed[w], Workers) <= Burst + ticks
=============================================================================
