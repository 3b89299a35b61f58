------------------------------ MODULE RpcStack ------------------------------
(***************************************************************************)
(* A gRPC call through the client stack and the server stack of            *)
(* rpc/src/stack.rs, with the server's timeout layer (rpc/src/timeout.rs)  *)
(* between transport and stack.                                            *)
(*                                                                         *)
(* Client: breaker, metrics, transport.  Server: timeout, bearer check,    *)
(* shedder, the method's breaker, metrics, the service.  A response is     *)
(* headers, then a body that ends with trailers.  Either side may go away  *)
(* at any point; each breaker permit is finished by the first of: a status *)
(* in the headers, a status in the trailers, a body error, the end of the  *)
(* body, or the drop of the body.                                          *)
(*                                                                         *)
(* A breaker is reduced to what was recorded on it, as in RestPipeline.    *)
(***************************************************************************)
EXTENDS Naturals, FiniteSets

CONSTANTS Calls, Methods

VARIABLES
  call,      \* one record per call
  client,    \* outcomes recorded by the client's breaker
  server,    \* per method, outcomes recorded by the server's breakers
  shed,      \* in-flight permits of the server's AdaptiveShedder
  gauge,     \* the server's in-flight metric
  observed,  \* completed calls the server's RpcMetrics counted
  entered,   \* history: calls that reached the server's metrics layer
  to_blame   \* history: per method, calls whose own service failed or broke off

vars == <<call, client, server, shed, gauge, observed, entered, to_blame>>

Outcomes == {"Success", "Failure", "Cancellation"}

\* The codes the stack produces or tells apart: NotFound stands for those that
\* are the caller's mistake, Internal for those that are the service's.
Codes == {"Ok", "NotFound", "Cancelled", "Internal", "DeadlineExceeded", "ResourceExhausted",
          "Unavailable", "Unauthenticated"}

status_outcome(code) ==
  CASE code = "Cancelled" -> "Cancellation"
    [] code \in {"DeadlineExceeded", "Internal", "Unavailable", "ResourceExhausted"} -> "Failure"
    [] OTHER -> "Success"

\* at: how far the server is; reply: what is on its way back to the client.
NewCall ==
  [at |-> "idle", method |-> {}, caller |-> "idle", breaker |-> FALSE, shed |-> FALSE,
   metric |-> FALSE, permit |-> FALSE, reply |-> "none"]

The(set) == CHOOSE x \in set : TRUE
MethodOf(c) == The(call[c].method)

Counts == [Outcomes -> 0..Cardinality(Calls)]

TypeOK ==
  /\ \A c \in Calls :
       /\ call[c].at \in {"idle", "auth", "shed", "breaker", "service", "body", "gone"}
       /\ call[c].caller \in {"idle", "waiting", "reading", "gone"}
       /\ call[c].reply \in {"none", "headers", "error"} \union Codes
  /\ client \in Counts
  /\ server \in [Methods -> Counts]
  /\ {shed, gauge, observed, entered} \subseteq 0..Cardinality(Calls)

Zero == [o \in Outcomes |-> 0]

Init ==
  /\ call = [c \in Calls |-> NewCall]
  /\ client = Zero
  /\ server = [m \in Methods |-> Zero]
  /\ shed = 0 /\ gauge = 0 /\ observed = 0 /\ entered = 0
  /\ to_blame = [m \in Methods |-> 0]

Finished == [NewCall EXCEPT !.at = "gone", !.caller = "gone"]

\* Once both sides are through with a call nothing of it is read again.
Update(c, new) ==
  call' = [call EXCEPT ![c] = IF new.at = "gone" /\ new.caller = "gone" THEN Finished ELSE new]

ServerSide == <<server, shed, gauge, observed, entered, to_blame>>

\* RpcClientStackService::call up to the transport: the token, trace and
\* timeout headers, then the breaker; UNAVAILABLE while it is open.
ClientCall(c, m) ==
  /\ call[c].at = "idle"
  /\ \/ Update(c, [NewCall EXCEPT !.at = "auth", !.method = {m}, !.caller = "waiting", !.permit = TRUE])
     \/ client["Failure"] > 0 /\ Update(c, Finished)
  /\ UNCHANGED <<client, ServerSide>>

\* The server answers with headers that carry a status and no body.
Reply(q, code) == [q EXCEPT !.at = "gone", !.reply = code]

Authenticate(c) ==
  /\ call[c].at = "auth"
  /\ \/ Update(c, [call[c] EXCEPT !.at = "shed"])
     \/ Update(c, Reply(call[c], "Unauthenticated"))
  /\ UNCHANGED <<client, ServerSide>>

Shed(c) ==
  /\ call[c].at = "shed"
  /\ \/ /\ Update(c, [call[c] EXCEPT !.at = "breaker", !.shed = TRUE])
        /\ shed' = shed + 1
     \/ /\ Update(c, Reply(call[c], "ResourceExhausted"))
        /\ UNCHANGED shed
  /\ UNCHANGED <<client, server, gauge, observed, entered, to_blame>>

\* Fault: a call the breaker refuses keeps its shed permit.
BreakLeaking(c) ==
  /\ call[c].at = "breaker"
  /\ \/ /\ Update(c, [call[c] EXCEPT !.at = "service", !.breaker = TRUE, !.metric = TRUE])
        /\ gauge' = gauge + 1 /\ entered' = entered + 1
     \/ /\ server[MethodOf(c)]["Failure"] > 0
        /\ Update(c, [Reply(call[c], "Unavailable") EXCEPT !.shed = FALSE])
        /\ UNCHANGED <<gauge, entered>>
  /\ UNCHANGED <<client, server, shed, observed, to_blame>>

\* ServerCircuitBreakers::acquire; on a refusal the shed permit is dropped.
Break(c) ==
  /\ call[c].at = "breaker"
  /\ \/ /\ Update(c, [call[c] EXCEPT !.at = "service", !.breaker = TRUE, !.metric = TRUE])
        /\ gauge' = gauge + 1 /\ entered' = entered + 1
        /\ UNCHANGED shed
     \/ /\ server[MethodOf(c)]["Failure"] > 0
        /\ Update(c, [Reply(call[c], "Unavailable") EXCEPT !.shed = FALSE])
        /\ shed' = shed - 1
        /\ UNCHANGED <<gauge, entered>>
  /\ UNCHANGED <<client, server, observed, to_blame>>

\* RpcObservation::finish, once per call.
Observe(c) ==
  /\ gauge' = IF call[c].metric THEN gauge - 1 ELSE gauge
  /\ observed' = IF call[c].metric THEN observed + 1 ELSE observed

\* The method breaker's permit is finished, if the call still holds it.
Record(c, outcome) ==
  server' = IF call[c].breaker THEN [server EXCEPT ![MethodOf(c)][outcome] = @ + 1] ELSE server

Blame(c, outcome) ==
  to_blame' = IF outcome = "Failure" THEN [to_blame EXCEPT ![MethodOf(c)] = @ + 1] ELSE to_blame

\* The service answers at once: its headers carry the code (RpcServerLogBody::finish).
ServiceStatus(c, code) ==
  /\ call[c].at = "service"
  /\ Update(c, [Reply(call[c], code) EXCEPT !.breaker = FALSE, !.metric = FALSE, !.shed = FALSE])
  /\ Record(c, status_outcome(code)) /\ Observe(c) /\ Blame(c, status_outcome(code))
  /\ shed' = shed - 1
  /\ UNCHANGED <<client, entered>>

\* The service starts a body; its status will be in the trailers.
ServiceHeaders(c) ==
  /\ call[c].at = "service"
  /\ Update(c, [call[c] EXCEPT !.at = "body", !.reply = "headers"])
  /\ UNCHANGED <<client, ServerSide>>

\* catch_unwind, or an Err of the inner service: finish(false).
ServicePanics(c) ==
  /\ call[c].at = "service"
  /\ Update(c, [Reply(call[c], "Internal") EXCEPT !.breaker = FALSE, !.metric = FALSE, !.shed = FALSE])
  /\ Record(c, "Failure") /\ Observe(c) /\ Blame(c, "Failure")
  /\ shed' = shed - 1
  /\ UNCHANGED <<client, entered>>

\* A status in the trailers, a broken body (code "error") or, with no status,
\* the end of the body; then the body is dropped, and the shed permit with it.
BodyEnds(c, code) ==
  LET outcome == IF code = "error" THEN "Failure" ELSE status_outcome(code)
  IN /\ call[c].at = "body"
     /\ Update(c, [Reply(call[c], code) EXCEPT !.breaker = FALSE, !.metric = FALSE, !.shed = FALSE])
     /\ Record(c, outcome) /\ Observe(c) /\ Blame(c, outcome)
     /\ shed' = shed - 1
     /\ UNCHANGED <<client, entered>>

\* Fault: an abandoned call counts as a failure of the method.
ServerDropBlaming(c, code) ==
  /\ call[c].at \in {"service", "body"}
  /\ Update(c, [Reply(call[c], code) EXCEPT !.breaker = FALSE, !.metric = FALSE, !.shed = FALSE])
  /\ Record(c, "Failure") /\ Observe(c)
  /\ shed' = shed - 1
  /\ UNCHANGED <<client, entered, to_blame>>

\* The server drops the future or the body of the call: every permit it holds
\* goes with it, the breaker's as a cancellation.
ServerDrop(c, code) ==
  /\ call[c].at \in {"service", "body"}
  /\ Update(c, [Reply(call[c], code) EXCEPT !.breaker = FALSE, !.metric = FALSE, !.shed = FALSE])
  /\ Record(c, "Cancellation") /\ Observe(c)
  /\ shed' = shed - 1
  /\ UNCHANGED <<client, entered, to_blame>>

\* RpcServerTimeoutService::call is outside the stack: its deadline drops the
\* stack's future.  A body that has started is not under it.
ServerTimeout(c) == call[c].at = "service" /\ ServerDrop(c, "DeadlineExceeded")

\* The transport notices that the caller has gone.
ServerReset(c) == call[c].caller = "gone" /\ ServerDrop(c, "none")

\* The client's permit is finished, if the call still holds it.
ClientRecord(c, outcome) ==
  client' = IF call[c].permit THEN [client EXCEPT ![outcome] = @ + 1] ELSE client

\* The response reaches RpcClientStackService: a status in the headers
\* finishes the permit, bare headers wrap the body in RpcCircuitBody.
ClientHeaders(c) ==
  /\ call[c].caller = "waiting"
  /\ \/ /\ call[c].reply = "headers"
        /\ Update(c, [call[c] EXCEPT !.caller = "reading"])
        /\ UNCHANGED client
     \/ /\ call[c].reply \in Codes
        /\ Update(c, [call[c] EXCEPT !.caller = "gone"])
        /\ ClientRecord(c, status_outcome(call[c].reply))
  /\ UNCHANGED ServerSide

\* RpcCircuitBody::poll_frame: trailers, or an error of the body.
ClientTrailers(c) ==
  /\ call[c].caller = "reading"
  /\ call[c].reply \in Codes \union {"error"}
  /\ Update(c, [call[c] EXCEPT !.caller = "gone"])
  /\ ClientRecord(c, IF call[c].reply = "error" THEN "Failure" ELSE status_outcome(call[c].reply))
  /\ UNCHANGED ServerSide

\* The transport fails under a waiting or reading client.
ClientError(c) ==
  /\ call[c].caller \in {"waiting", "reading"}
  /\ Update(c, [call[c] EXCEPT !.caller = "gone"])
  /\ ClientRecord(c, "Failure")
  /\ UNCHANGED ServerSide

\* The application drops the call: CircuitBreakerPermit::drop.
ClientDrop(c) ==
  /\ call[c].caller \in {"waiting", "reading"}
  /\ Update(c, [call[c] EXCEPT !.caller = "gone"])
  /\ ClientRecord(c, "Cancellation")
  /\ UNCHANGED ServerSide

ServiceCodes == {"Ok", "NotFound", "Cancelled", "Internal"}

Next ==
  \E c \in Calls :
    \/ \E m \in Methods : ClientCall(c, m)
    \/ Authenticate(c) \/ Shed(c) \/ Break(c)
    \/ \E code \in ServiceCodes : ServiceStatus(c, code)
    \/ ServiceHeaders(c) \/ ServicePanics(c)
    \/ \E code \in ServiceCodes \union {"error"} : BodyEnds(c, code)
    \/ ServerTimeout(c) \/ ServerReset(c)
    \/ ClientHeaders(c) \/ ClientTrailers(c) \/ ClientError(c) \/ ClientDrop(c)

Spec == Init /\ [][Next]_vars

-----------------------------------------------------------------------------

\* Whatever ends a call on the server (a status, trailers, a panic, the timeout
\* layer dropping the stack, a caller that left), its shed permit goes back and
\* the metrics count it exactly once.
CallsAccounted ==
  /\ shed = Cardinality({c \in Calls : call[c].shed})
  /\ gauge = Cardinality({c \in Calls : call[c].metric})
  /\ entered = observed + gauge

\* A method's breaker is charged only for failures of that method's own
\* service: not for rejections of the shedder, other methods, or callers and
\* deadlines that cut a call off.
MethodsIsolated == \A m \in Methods : server[m]["Failure"] <= to_blame[m]
=============================================================================
