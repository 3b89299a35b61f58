------------------------------ MODULE Gateway ------------------------------
(***************************************************************************)
(* The HTTP gateway (gateway/src/lib.rs): building the route table from a  *)
(* configuration, selecting an upstream, forwarding through the route's    *)
(* middleware, and the handlers RestServer gets; and the JSON/gRPC         *)
(* transcoder (gateway/src/transcode.rs).                                  *)
(*                                                                         *)
(* A path or prefix is a sequence of one-letter segments, <<>> the root,   *)
(* so a prefix's length in bytes grows with its number of segments.  A     *)
(* body is counted in units.  A finished request is only its status.       *)
(***************************************************************************)
EXTENDS Naturals, FiniteSets, Sequences, SequencesExt

CONSTANTS
  Configs,        \* [routes, grpc, registered]: what the gateway is built from
  Paths,
  Requests,
  RequestLimit, ResponseLimit,
  MaxHealthChanges, \* bound
  MaxPicks          \* bound: selections

VARIABLES
  config,
  table,      \* GatewayRouter::routes, or <<>> before it is built
  phase,      \* "new", "invalid", "running"
  next,       \* per pool: next_upstream
  healthy,    \* per pool: the flags
  req,
  changes,    \* health changes so far
  picks       \* history: per pool and upstream, how often it was chosen

vars == <<config, table, phase, next, healthy, req, changes, picks>>

matches_prefix(path, prefix) == IsPrefix(prefix, path)

Idle == [pc |-> "idle"]
Answered(status) == [pc |-> "done", status |-> status]

TypeOK ==
  /\ config \in Configs
  /\ phase \in {"new", "invalid", "running"}
  /\ table \in Seq(UNION {Range(c.routes) : c \in Configs})
  /\ DOMAIN next = DOMAIN table /\ DOMAIN healthy = DOMAIN table
  /\ \A r \in Requests : req[r].pc \in {"idle", "scan", "body", "chain", "dispatch", "stream",
                                        "transcode", "done"}

Init ==
  /\ config \in Configs
  /\ table = <<>> /\ phase = "new"
  /\ next = <<>> /\ healthy = <<>> /\ picks = <<>>
  /\ req = [r \in Requests |-> Idle]
  /\ changes = 0

-----------------------------------------------------------------------------
(* GatewayConfig::validate and GatewayRouter::new                          *)

\* Fault: the shortest prefix first.
ShortestFirst(routes) ==
  {s \in SetToAllKPermutations(DOMAIN routes) :
     \A i, j \in DOMAIN s : i < j => Len(routes[s[i]].prefix) <= Len(routes[s[j]].prefix)}

\* sort_unstable_by_key(Reverse(prefix.len())): any order of equal lengths
Sorted(routes) ==
  {s \in SetToAllKPermutations(DOMAIN routes) :
     \A i, j \in DOMAIN s : i < j => Len(routes[s[i]].prefix) >= Len(routes[s[j]].prefix)}

\* windows(2): neighbours with one prefix are refused
NeighboursDiffer(routes) ==
  \A i \in 1..(Len(routes) - 1) : routes[i].prefix # routes[i + 1].prefix

valid_route(route) == route.upstreams > 0 /\ route.urls_valid

validate(c) ==
  /\ c.routes # <<>> \/ c.grpc # {}
  /\ \A i \in DOMAIN c.routes : valid_route(c.routes[i])
  /\ c.grpc \intersect {c.routes[i].prefix : i \in DOMAIN c.routes} = {}

\* loaded: every gRPC upstream was connected and its descriptors read
Build(order, loaded) ==
  LET routes == [i \in DOMAIN order |-> config.routes[order[i]]]
      ok == validate(config) /\ NeighboursDiffer(routes) /\ (loaded \/ config.grpc = {})
  IN  /\ phase = "new" /\ order \in Sorted(config.routes)
      /\ Len(order) = Len(config.routes)
      /\ phase' = IF ok THEN "running" ELSE "invalid"
      /\ table' = IF ok THEN routes ELSE <<>>
      /\ next' = [i \in DOMAIN table' |-> 0]
      /\ healthy' = [i \in DOMAIN table' |-> [u \in 0..(table'[i].upstreams - 1) |-> TRUE]]
      /\ picks' = [i \in DOMAIN table' |-> [u \in 0..(table'[i].upstreams - 1) |-> 0]]
      /\ UNCHANGED <<config, req, changes>>

set_upstream_health(p, u, value) ==
  /\ changes < MaxHealthChanges
  /\ healthy[p][u] # value
  /\ healthy' = [healthy EXCEPT ![p][u] = value]
  /\ changes' = changes + 1
  /\ UNCHANGED <<config, table, phase, next, req, picks>>

-----------------------------------------------------------------------------
(* GatewayServer::run_on, GatewayProxy::forward and dispatch_upstream      *)

\* run_on mounts the gRPC scopes before the HTTP resources.
ToGrpc(path) == \E prefix \in config.grpc : matches_prefix(path, prefix)

\* routes.iter().find(matches_prefix): 0 when no route matches
RouteOf(path) ==
  SelectInSeq(table, LAMBDA route : matches_prefix(path, route.prefix))

Set(r, value) == req' = [req EXCEPT ![r] = value]

NotMounted(r, path) ==
  /\ phase = "running" /\ req[r] = Idle
  /\ ~ToGrpc(path) /\ RouteOf(path) = 0
  /\ Set(r, Answered("404"))
  /\ UNCHANGED <<config, table, phase, next, healthy, changes, picks>>

\* Fault: a load and a later store, so overlapping selections share a turn.
StartScanPeeking(r, path) ==
  LET p == RouteOf(path)
      shared == \E q \in Requests : req[q].pc = "scan" /\ req[q].pool = p
      turn == IF shared THEN next[p] - 1 ELSE next[p]
  IN  /\ phase = "running" /\ req[r] = Idle
      /\ ~ToGrpc(path) /\ p # 0
      /\ picks[p][0] + picks[p][table[p].upstreams - 1] < MaxPicks
      /\ Set(r, [pc |-> "scan", path |-> path, pool |-> p, start |-> turn % table[p].upstreams, offset |-> 0])
      /\ next' = [next EXCEPT ![p] = turn + 1]
      /\ UNCHANGED <<config, table, phase, healthy, changes, picks>>

\* select_healthy: fetch_add takes the turn
StartScan(r, path) ==
  LET p == RouteOf(path) IN
  /\ phase = "running" /\ req[r] = Idle
  /\ ~ToGrpc(path) /\ p # 0
  /\ picks[p][0] + picks[p][table[p].upstreams - 1] < MaxPicks
  /\ Set(r, [pc |-> "scan", path |-> path, pool |-> p, start |-> next[p] % table[p].upstreams, offset |-> 0])
  /\ next' = [next EXCEPT ![p] = next[p] + 1]
  /\ UNCHANGED <<config, table, phase, healthy, changes, picks>>

\* ... and the flags are loaded one after the other.
Scan(r) ==
  LET q == req[r]
      u == (q.start + q.offset) % table[q.pool].upstreams
  IN  /\ q.pc = "scan"
      /\ \/ /\ healthy[q.pool][u]
            /\ Set(r, [pc |-> "body", path |-> q.path, pool |-> q.pool, size |-> 0])
            /\ picks' = [picks EXCEPT ![q.pool][u] = @ + 1]
         \/ /\ ~healthy[q.pool][u] /\ q.offset + 1 < table[q.pool].upstreams
            /\ Set(r, [q EXCEPT !.offset = @ + 1]) /\ UNCHANGED picks
         \/ /\ ~healthy[q.pool][u] /\ q.offset + 1 = table[q.pool].upstreams
            /\ Set(r, Answered("404")) /\ UNCHANGED picks
      /\ UNCHANGED <<config, table, phase, next, healthy, changes>>

ReadBody(r) ==
  LET q == req[r] IN
  /\ q.pc = "body"
  /\ \/ Set(r, IF q.size + 1 > RequestLimit THEN Answered("413") ELSE [q EXCEPT !.size = @ + 1])
     \/ Set(r, Answered("400"))
     \/ Set(r, [pc |-> "chain", path |-> q.path, pool |-> q.pool, left |-> table[q.pool].middleware])
  /\ UNCHANGED <<config, table, phase, next, healthy, changes, picks>>

\* The chain: each policy answers or calls the rest; a missing one is a 500.
Chain(r) ==
  LET q == req[r] IN
  /\ q.pc = "chain"
  /\ \/ q.left = <<>> /\ Set(r, [pc |-> "dispatch", path |-> q.path, pool |-> q.pool])
     \/ q.left # <<>> /\ Head(q.left) \notin config.registered /\ Set(r, Answered("500"))
     \/ q.left # <<>> /\ Head(q.left) \in config.registered /\ Set(r, Answered("policy"))
     \/ q.left # <<>> /\ Head(q.left) \in config.registered /\ Set(r, [q EXCEPT !.left = Tail(@)])
  /\ UNCHANGED <<config, table, phase, next, healthy, changes, picks>>

\* Timeout, no connection or a declared length over the limit; else the headers.
dispatch_upstream(r) ==
  LET q == req[r] IN
  /\ q.pc = "dispatch"
  /\ \/ \E status \in {"504", "502"} : Set(r, Answered(status))
     \/ Set(r, [pc |-> "stream", path |-> q.path, pool |-> q.pool, size |-> 0])
  /\ UNCHANGED <<config, table, phase, next, healthy, changes, picks>>

\* The status is out: a broken or too long upstream body ends the stream early.
Stream(r) ==
  LET q == req[r] IN
  /\ q.pc = "stream"
  /\ \/ Set(r, IF q.size + 1 > ResponseLimit THEN Answered("truncated") ELSE [q EXCEPT !.size = @ + 1])
     \/ \E status \in {"truncated", "upstream"} : Set(r, Answered(status))
  /\ UNCHANGED <<config, table, phase, next, healthy, changes, picks>>

-----------------------------------------------------------------------------
(* Transcoder::handle                                                      *)

StartTranscode(r, path) ==
  /\ phase = "running" /\ req[r] = Idle
  /\ ToGrpc(path)
  /\ Set(r, [pc |-> "transcode", path |-> path])
  /\ UNCHANGED <<config, table, phase, next, healthy, changes, picks>>

grpc_status_to_http == [
  Ok |-> "200", Cancelled |-> "499", Unknown |-> "500", Internal |-> "500", DataLoss |-> "500",
  InvalidArgument |-> "400", FailedPrecondition |-> "400", OutOfRange |-> "400",
  DeadlineExceeded |-> "504", NotFound |-> "404", AlreadyExists |-> "409", Aborted |-> "409",
  PermissionDenied |-> "403", Unauthenticated |-> "401", ResourceExhausted |-> "429",
  Unimplemented |-> "501", Unavailable |-> "503"]

\* No binding; JSON that does not decode; a body or a field the binding does
\* not take; no transport; the call's status, or a stream that breaks.
invoke(r) ==
  /\ req[r].pc = "transcode"
  /\ \/ \E status \in {"404", "400", "500", "503", "truncated"} : Set(r, Answered(status))
     \/ \E code \in DOMAIN grpc_status_to_http : Set(r, Answered(grpc_status_to_http[code]))
  /\ UNCHANGED <<config, table, phase, next, healthy, changes, picks>>

Next ==
  \/ \E order \in Sorted(config.routes), loaded \in BOOLEAN : Build(order, loaded)
  \/ \E p \in DOMAIN table : \E u \in DOMAIN healthy[p], value \in BOOLEAN : set_upstream_health(p, u, value)
  \/ \E r \in Requests :
       \/ \E path \in Paths : NotMounted(r, path) \/ StartScan(r, path) \/ StartTranscode(r, path)
       \/ Scan(r) \/ ReadBody(r) \/ Chain(r) \/ dispatch_upstream(r) \/ Stream(r) \/ invoke(r)

Spec == Init /\ [][Next]_vars

-----------------------------------------------------------------------------

\* A request in the proxy was given the configured route with the longest
\* matching prefix, wherever that route stood in the configuration.
MostSpecific ==
  \A r \in Requests :
    req[r].pc \in {"scan", "body", "chain", "dispatch", "stream"} =>
      /\ matches_prefix(req[r].path, table[req[r].pool].prefix)
      /\ \A i \in DOMAIN config.routes :
           matches_prefix(req[r].path, config.routes[i].prefix) =>
             Len(config.routes[i].prefix) <= Len(table[req[r].pool].prefix)

\* While every upstream of a pool has stayed healthy and nobody is between
\* taking a turn and choosing, the pool's upstreams were chosen equally often,
\* give or take one, however the selections interleaved.
RoundRobinEven ==
  changes = 0 /\ (\A r \in Requests : req[r].pc # "scan") =>
    \A p \in DOMAIN table : \A u, w \in DOMAIN picks[p] : picks[p][u] <= picks[p][w] + 1

\* "gateway route prefixes must be unique": a gateway that was built has no two
\* pools with one prefix.
PrefixesUnique ==
  phase = "running" =>
    \A i, j \in DOMAIN table : i # j => table[i].prefix # table[j].prefix
=============================================================================
