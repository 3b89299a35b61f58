------------------------------ MODULE MCServers -------------------------------
(***************************************************************************)
(* The servers: the load shedder, the REST middleware stack, the RPC        *)
(* stack, the gateway, the metrics and the MCP server. They share no        *)
(* state; a behaviour is about one of them, chosen initially.               *)
(***************************************************************************)
EXTENDS LoadShedder, TLC

CONSTANTS
  Calls

VARIABLES
  focus,  \* the component this behaviour is about
  \* the state of any other component in focus; those it does not need stay 0
  x1, x2, x3, x4, x5, x6, x7, x8, x9, x10, x11

Route(p, n, mw) == [prefix |-> p, upstreams |-> n, urls_valid |-> TRUE, middleware |-> mw]
MCConfigs == {
  [routes |-> <<Route(<<>>, 1, <<>>), Route(<<"a">>, 2, <<"m">>)>>, grpc |-> {<<"b">>}, registered |-> {"m"}],
  [routes |-> <<Route(<<"a">>, 3, <<"m">>)>>, grpc |-> {<<"a", "b">>}, registered |-> {}],
  [routes |-> <<Route(<<"a">>, 0, <<>>)>>, grpc |-> {}, registered |-> {}]}
ServerSymmetry == Permutations(Requests) \cup Permutations(Calls)

Rest == INSTANCE RestPipeline WITH
  Routes <- {"a", "b"}, Workers <- {"w1", "w2"}, Protected <- {"a"}, Priority <- {"a"},
  Sse <- {"b"}, MaxConcurrent <- 1, ReserveSize <- 1, Burst <- 1, MaxTicks <- 1, request <- x1,
  verdict <- x2, in_flight <- x3, semaphore <- x4, priority_reserve <- x5, bucket <- x6,
  gauge <- x7, ticks <- x8, passed <- x9, faults <- x10, overloads <- x11
Rpc == INSTANCE RpcStack WITH
  Calls <- {"c1", "c2"}, Methods <- {"m1", "m2"}, call <- x1, client <- x2, server <- x3,
  shed <- x4, gauge <- x5, observed <- x6, entered <- x7, to_blame <- x8
Gate == INSTANCE Gateway WITH
  Configs <- MCConfigs, Paths <- {<<"a">>, <<"a", "b">>, <<"b">>}, Requests <- {"r1", "r2"},
  RequestLimit <- 1, ResponseLimit <- 1, MaxHealthChanges <- 2, MaxPicks <- 4, config <- x1,
  table <- x2, phase <- x3, next <- x4, healthy <- x5, req <- x6, changes <- x7, picks <- x8
Metric == INSTANCE Metrics WITH
  Paths <- {"a", "b"}, Known <- {"a"}, Durations <- {1, 3}, Bounds <- <<1, 2>>, MaxNews <- 2,
  set <- x1, namespace <- x2, values <- x3, kinds <- x4, news <- x5, building <- x6,
  handle <- x7, call <- x8, at <- x9, seen <- x10
Mcp == INSTANCE McpServer WITH
  Sessions <- {"s1"}, Posts <- Calls, Keys <- {"k1", "k2"}, Streams <- {"g1"},
  ReplayCapacity <- 2, ChannelCapacity <- 2, stateful <- x1, server <- x2, live <- x3,
  session <- x4, post <- x5, stream <- x6, overlapped <- x7

\* the slots from the i-th on, of which the component in focus has no need
rest11 == <<x11>>
unused11 == x11 = 0
rest9 == <<x9, x10, rest11>>
unused9 == x9 = 0 /\ x10 = 0 /\ unused11
rest8 == <<x8, rest9>>
unused8 == x8 = 0 /\ unused9
rest1 == <<x1, x2, x3, x4, x5, x6, x7, rest8>>
unused1 == x1 = 0 /\ x2 = 0 /\ x3 = 0 /\ x4 = 0 /\ x5 = 0 /\ x6 = 0 /\ x7 = 0 /\ unused8
allVars == <<focus, vars, rest1>>

MCInit ==
  /\ focus \in {"shedder", "rest", "rpc", "gateway", "metrics", "mcp"}
  /\ Init /\ (focus = "shedder" \/ mode = "Latency")
  /\ \/ focus = "shedder" /\ unused1
     \/ focus = "rest" /\ Rest!Init
     \/ focus = "rpc" /\ Rpc!Init /\ unused9
     \/ focus = "gateway" /\ Gate!Init /\ unused9
     \/ focus = "metrics" /\ Metric!Init /\ unused11
     \/ focus = "mcp" /\ Mcp!Init /\ unused8
MCNext ==
  /\ UNCHANGED focus
  /\ \/ focus = "shedder" /\ Next /\ UNCHANGED <<rest1>>
     \/ focus = "rest" /\ Rest!Next /\ UNCHANGED <<vars>>
     \/ focus = "rpc" /\ Rpc!Next /\ UNCHANGED <<vars, rest9>>
     \/ focus = "gateway" /\ Gate!Next /\ UNCHANGED <<vars, rest9>>
     \/ focus = "metrics" /\ Metric!Next /\ UNCHANGED <<vars, rest11>>
     \/ focus = "mcp" /\ Mcp!Next /\ UNCHANGED <<vars, rest8>>
MCSpec == MCInit /\ [][MCNext]_allVars
-----------------------------------------------------------------------------
\* The component in focus keeps its types.
TypesOK ==
  CASE focus = "shedder" -> TypeOK
    [] focus = "rest"    -> Rest!TypeOK
    [] focus = "rpc"     -> Rpc!TypeOK
    [] focus = "gateway" -> Gate!TypeOK
    [] focus = "metrics" -> Metric!TypeOK
    [] focus = "mcp"     -> Mcp!TypeOK

\* Whatever ends a request or a call, its books balance: concurrency permits go back where they
\* came from, a worker's rate limit holds, an RPC call's shed permit and metrics and an HTTP
\* call's gauge, counter and histogram agree, also in what a scrape shows.
OutcomesBalanced ==
  /\ focus = "rest" => Rest!PermitsConserved /\ Rest!WorkerRate
  /\ focus = "rpc" => Rpc!CallsAccounted
  /\ focus = "metrics" => Metric!CallsBalance /\ Metric!ScrapeConsistent

\* A breaker counts a failure only for what happened under it: on a protected route for faults of
\* its requests or overload, on an RPC method for that method's own calls.
FailuresStayHome ==
  /\ focus = "rest" => Rest!FailuresExplained
  /\ focus = "rpc" => Rpc!MethodsIsolated

\* The gateway gives a request the configured route with the longest matching prefix, and spreads
\* the requests of a route evenly over its upstreams while their health does not change.
RoutedRight == focus = "gateway" => Gate!MostSpecific /\ Gate!RoundRobinEven

\* What ends in an MCP session is told: the end of a session to the streams that were subscribed,
\* a cancellation to the request it names.
EndsTold == focus = "mcp" => Mcp!TerminationReaches /\ Mcp!CancelReaches

\* Nothing is refused or skipped without cause: the shedder turns a request away only while
\* another is active, and an MCP stream goes past an event only if the replay buffer dropped it.
NoCauselessLoss ==
  [][/\ focus = "shedder" => ShedUnderLoad
     /\ focus = "mcp" => Mcp!NoGap]_allVars
=============================================================================
