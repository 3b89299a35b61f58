----------------------------- MODULE RestConfig -----------------------------
(***************************************************************************)
(* How a REST server is configured (rest/src/server.rs) and how its route  *)
(* groups become policies (rest/src/route.rs).  RestServer::with_metrics   *)
(* validates the settings; building the middleware stack hands them to     *)
(* constructors that assert, to actix-cors, rustls and tokio's semaphores. *)
(* A number is 0, small or Huge (more than a semaphore can hold); a string *)
(* is a class of strings; a path that begins with '/' is the sequence of   *)
(* its segments ("/a/" is <<"a", "">>) and any other non-empty one is      *)
(* Relative.                                                               *)
(***************************************************************************)
EXTENDS Naturals, Sequences, FiniteSets, SequencesExt

CONSTANTS
  MaxSettings,   \* bound: settings of the server before it is built
  MaxRouting     \* bound: settings of the route groups before it is built

VARIABLES
  part,       \* "server" or "routes": which settings this behaviour makes
  config, cors, tls, groups,   \* RestServerConfig; cors and tls are Options
  taken,      \* the namespace is already in the metric registry
  settings,   \* how many settings were made
  registered, \* names given to with_route_middleware
  policies,   \* the compiled policies
  stage       \* "build", "refused", "server", "failed", "panicked", "running"

vars == <<part, config, cors, tls, groups, taken, settings, registered, policies, stage>>

None == {}
Some(v) == {v}
Optional(S) == {None} \cup {Some(v) : v \in S}
Huge == 3
or(a, b) == IF a = None THEN b ELSE a
unwrap_or(a, d) == IF a = None THEN d ELSE CHOOSE v \in a : TRUE
Relative == <<"relative">>

-----------------------------------------------------------------------------
(* RestServerConfig                                                        *)

default_config ==
  [workers |-> 1, shutdown_timeout_ms |-> 1, request_timeout_ms |-> 1, max_body_bytes |-> 2,
   max_multipart_field_bytes |-> 1, max_multipart_file_bytes |-> 2, max_multipart_total_bytes |-> 2,
   max_concurrent_requests |-> 1, priority_concurrency_reserve |-> 1,
   rate_limit_requests_per_second |-> None, rate_limit_burst |-> None,
   load_shed_cpu_threshold_percent |-> 90, load_shed_bucket_ms |-> 1, load_shed_buckets |-> 1,
   load_shed_cooldown_ms |-> 1, metrics |-> TRUE, metrics_namespace |-> "name"]
Rates == {"rate_limit_requests_per_second", "rate_limit_burst"}
Percents == {"load_shed_cpu_threshold_percent"}
Flags == {"metrics", "metrics_namespace"}
Positive == DOMAIN default_config \ (Rates \cup Percents \cup Flags)

default_cors == [origins |-> <<"origin">>, methods |-> <<"name">>, headers |-> <<>>, exposed |-> <<>>]
default_tls == [certificate |-> "pem", private_key |-> "pem", client_ca |-> None]

blank(s) == s \in {"", "blank"}
validate_wildcard_list(l) == (\E i \in 1..Len(l) : l[i] = "*") => l = <<"*">>

\* Fault: exposed headers are not looked at one by one.
validate_wildcard_only(l) == validate_wildcard_list(l)

validate_header_list(l) ==
  validate_wildcard_list(l) /\ \A i \in 1..Len(l) : l[i] = "*" \/ l[i] = "name"

\* RestCorsConfig::validate
validate_cors(c) ==
  /\ c.origins # <<>> /\ validate_wildcard_list(c.origins)
  /\ \A i \in 1..Len(c.origins) : c.origins[i] \in {"*", "null", "origin"}
  /\ c.methods # <<>> /\ validate_wildcard_list(c.methods)
  /\ \A i \in 1..Len(c.methods) : c.methods[i] \in {"*", "name"}
  /\ validate_header_list(c.headers) /\ validate_header_list(c.exposed)

\* RestTlsConfig::validate
validate_tls(t) == ~blank(t.certificate) /\ ~blank(t.private_key) /\ \A ca \in t.client_ca : ~blank(ca)

-----------------------------------------------------------------------------
(* route groups                                                            *)

New_group(prefix) ==
  [prefix |-> prefix, jwt |-> None, timeout_ms |-> None, max_body_bytes |-> None,
   priority |-> FALSE, sse |-> FALSE, middleware |-> <<>>, routes |-> <<>>]
New_route(method, path) ==
  [method |-> method, path |-> path, public |-> FALSE, jwt |-> None, timeout_ms |-> None,
   max_body_bytes |-> None, priority |-> None, sse |-> None]

validate_prefix(prefix) == prefix # Relative
validate_optional_limits(x) == x.timeout_ms # Some(0) /\ x.max_body_bytes # Some(0)
validate_middleware_names(names) ==
  (\A i \in 1..Len(names) : ~blank(names[i])) /\ Cardinality(ToSet(names)) = Len(names)
validate_jwt(x) == \A jwt \in x.jwt : jwt.secret # "" /\ jwt.previous_secret # Some("")
jwt_secrets(jwt) == <<jwt.secret>> \o (IF jwt.previous_secret = None THEN <<>>
                                       ELSE <<unwrap_or(jwt.previous_secret, "")>>)

trim_end(p) == LET kept == {i \in 1..Len(p) : p[i] # ""} IN
               SubSeq(p, 1, IF kept = {} THEN 0 ELSE CHOOSE i \in kept : \A j \in kept : j <= i)
join_route(prefix, path) ==
  IF path = <<>> THEN prefix
  ELSE IF prefix \in {<<>>, <<"">>} THEN path
  ELSE trim_end(prefix) \o path

\* one route of a group as a CompiledPolicy
Compiled(g, r) ==
  LET jwt == IF r.public THEN None ELSE or(r.jwt, g.jwt)
      sse == unwrap_or(r.sse, g.sse) IN
  [method |-> r.method, pattern |-> join_route(g.prefix, r.path),
   secrets |-> {jwt_secrets(j) : j \in jwt},
   timeout |-> IF sse THEN None ELSE or(r.timeout_ms, g.timeout_ms),
   max_body_bytes |-> or(r.max_body_bytes, g.max_body_bytes),
   priority |-> unwrap_or(r.priority, g.priority), sse |-> sse, middleware |-> g.middleware]
AllRoutes == FlattenSeq([g \in 1..Len(groups) |-> [r \in 1..Len(groups[g].routes) |-> <<g, r>>]])
RouteAt(gr) == groups[gr[1]].routes[gr[2]]
PolicyOf(gr) == Compiled(groups[gr[1]], RouteAt(gr))

valid_group(g) ==
  /\ validate_prefix(g.prefix) /\ validate_optional_limits(g)
  /\ validate_middleware_names(g.middleware) /\ validate_jwt(g)
valid_route(g, r) ==
  /\ ~(r.path = <<>> /\ g.prefix = <<>>) /\ r.path # Relative
  /\ validate_optional_limits(r) /\ validate_jwt(r) /\ ~(r.public /\ r.jwt # None)
  /\ r.method # "bad"

\* Fault: only the declared paths are compared.
unique_paths ==
  \A a, b \in ToSet(AllRoutes) :
    (a # b /\ a[1] = b[1]) => <<RouteAt(a).method, RouteAt(a).path>> # <<RouteAt(b).method, RouteAt(b).path>>

\* `unique`: one policy for a method and a joined pattern, over all groups
unique ==
  \A a, b \in ToSet(AllRoutes) :
    a # b => <<PolicyOf(a).method, PolicyOf(a).pattern>> # <<PolicyOf(b).method, PolicyOf(b).pattern>>

\* RoutePolicies::compile: whether it succeeds, and what it returns
compiles ==
  /\ \A g \in 1..Len(groups) :
       /\ valid_group(groups[g])
       /\ \A r \in 1..Len(groups[g].routes) : valid_route(groups[g], groups[g].routes[r])
  /\ unique
compile == [i \in 1..Len(AllRoutes) |-> PolicyOf(AllRoutes[i])]

\* the first policy for a request's method and matched pattern, if any
find(method, pattern) ==
  LET hits == {i \in 1..Len(policies) : policies[i].method = method /\ policies[i].pattern = pattern} IN
  IF hits = {} THEN None ELSE Some(policies[CHOOSE i \in hits : \A j \in hits : i <= j])

-----------------------------------------------------------------------------
(* settings                                                                *)

Setting(kind, bound) ==
  /\ stage = "build" /\ part = kind /\ settings < bound /\ settings' = settings + 1
  /\ UNCHANGED <<part, taken, registered, policies, stage>>

SetNumber ==
  /\ Setting("server", MaxSettings) /\ UNCHANGED <<cors, tls, groups>>
  /\ \/ \E f \in Positive, v \in 0..Huge : config' = [config EXCEPT ![f] = v]
     \/ \E f \in Rates, v \in Optional(0..1) : config' = [config EXCEPT ![f] = v]
     \/ \E v \in {0, 101} : config' = [config EXCEPT !.load_shed_cpu_threshold_percent = v]
     \/ \E n \in {"", "blank", "9x"} : config' = [config EXCEPT !.metrics_namespace = n]
     \/ config' = [config EXCEPT !.metrics = FALSE]
SetCors ==
  /\ Setting("server", MaxSettings) /\ UNCHANGED <<config, tls, groups>>
  /\ \E c \in {unwrap_or(cors, default_cors)}, f \in DOMAIN default_cors,
        l \in {<<>>, <<"*">>, <<"name">>, <<"*", "name">>, <<"origin">>, <<"null">>, <<"bad">>} :
       cors' = Some([c EXCEPT ![f] = l])
SetTls ==
  /\ Setting("server", MaxSettings) /\ UNCHANGED <<config, cors, groups>>
  /\ \E t \in [certificate : {"blank", "text", "pem"}, private_key : {"blank", "pem"},
               client_ca : Optional({"blank", "pem"})] : tls' = Some(t)

Jwts == {[secret |-> s, previous_secret |-> p] : s \in {"", "s"}, p \in Optional({"", "p"})}
AddGroup ==
  /\ Setting("routes", MaxRouting) /\ UNCHANGED <<config, cors, tls>>
  /\ \E prefix \in {<<>>, <<"">>, <<"a">>, <<"a", "">>, Relative} : groups' = Append(groups, New_group(prefix))
SetGroup ==
  /\ Setting("routes", MaxRouting) /\ UNCHANGED <<config, cors, tls>> /\ groups # <<>>
  /\ LET n == Len(groups) IN
     \/ \E jwt \in Jwts : groups' = [groups EXCEPT ![n].jwt = Some(jwt)]
     \/ \E f \in {"timeout_ms", "max_body_bytes"}, v \in 0..1 : groups' = [groups EXCEPT ![n][f] = Some(v)]
     \/ \E f \in {"priority", "sse"} : groups' = [groups EXCEPT ![n][f] = TRUE]
     \/ \E m \in {<<"m">>, <<"m", "m">>, <<"blank">>} : groups' = [groups EXCEPT ![n].middleware = m]
AddRoute ==
  /\ Setting("routes", MaxRouting) /\ UNCHANGED <<config, cors, tls>> /\ groups # <<>>
  /\ \E method \in {"GET", "PUT", "bad"}, path \in {<<>>, <<"">>, <<"x">>, <<"a", "x">>, Relative} :
       groups' = [groups EXCEPT ![Len(groups)].routes = Append(@, New_route(method, path))]
SetRoute ==
  /\ Setting("routes", MaxRouting) /\ UNCHANGED <<config, cors, tls>>
  /\ groups # <<>> /\ groups[Len(groups)].routes # <<>>
  /\ LET n == Len(groups)
         r == Len(groups[n].routes) IN
     \/ \E jwt \in Jwts : groups' = [groups EXCEPT ![n].routes[r].jwt = Some(jwt)]
     \/ groups' = [groups EXCEPT ![n].routes[r].public = TRUE]
     \/ \E f \in {"timeout_ms", "max_body_bytes"}, v \in {0, 2} :
          groups' = [groups EXCEPT ![n].routes[r][f] = Some(v)]
     \/ \E f \in {"priority", "sse"}, v \in BOOLEAN : groups' = [groups EXCEPT ![n].routes[r][f] = Some(v)]

-----------------------------------------------------------------------------
(* RestServer                                                              *)

\* RestServerConfig::validate
validate ==
  /\ \A f \in Positive : config[f] > 0
  /\ config.max_multipart_field_bytes <= config.max_multipart_total_bytes
  /\ config.max_multipart_file_bytes <= config.max_multipart_total_bytes
  /\ config.max_multipart_total_bytes <= config.max_body_bytes
  /\ (config.rate_limit_requests_per_second = None) = (config.rate_limit_burst = None)
  /\ \A f \in Rates : config[f] # Some(0)
  /\ config.load_shed_cpu_threshold_percent \in 1..100
  /\ config.metrics => ~blank(config.metrics_namespace)
  /\ \A t \in tls : validate_tls(t)
  /\ \A c \in cors : validate_cors(c)
  /\ compiles

\* HttpMetrics::new is called whether or not metrics are enabled.
metrics_ok == config.metrics_namespace \in {"", "name"} /\ ~taken

\* AdaptiveShedder::new: the assertions of LoadShedderConfig
shedder_asserts ==
  /\ config.max_concurrent_requests > 0 /\ config.load_shed_cpu_threshold_percent \in 1..100
  /\ config.load_shed_bucket_ms > 0 /\ config.load_shed_buckets > 0 /\ config.load_shed_cooldown_ms > 0

with_metrics ==
  /\ stage = "build"
  /\ stage' = IF ~validate \/ ~metrics_ok THEN "refused"
              ELSE IF ~shedder_asserts THEN "panicked" ELSE "server"
  /\ policies' = IF stage' = "server" THEN compile ELSE <<>>
  /\ UNCHANGED <<part, config, cors, tls, groups, taken, settings, registered>>

\* A blank or a repeated name consumes the server with an error.
with_route_middleware ==
  /\ stage = "server"
  /\ \E name \in {"m", "blank"} :
       /\ stage' = IF blank(name) \/ name \in registered THEN "failed" ELSE "server"
       /\ registered' = registered \cup {name}
  /\ UNCHANGED <<part, config, cors, tls, groups, taken, settings, policies>>

with_middleware == \A i \in 1..Len(policies) : ToSet(policies[i].middleware) \subseteq registered
rustls_config(t) == t.certificate = "pem" /\ t.private_key = "pem" /\ \A ca \in t.client_ca : ca = "pem"

\* The constructors of the middleware stack, as far as they assert; an enabled
\* CORS layer that actix-cors cannot build stops the worker that builds it.
standard_app_builds ==
  /\ config.request_timeout_ms > 0 /\ config.max_body_bytes > 0
  /\ config.max_concurrent_requests \in 1..Huge - 1
  /\ config.priority_concurrency_reserve \in 1..Huge - 1
  /\ \A f \in Rates : unwrap_or(config[f], 1) > 0
  /\ \A c \in cors :
       /\ \A i \in 1..Len(c.origins) : c.origins = <<"*">> \/ c.origins[i] \in {"origin", "null"}
       /\ \A l \in {c.methods, c.headers, c.exposed} : l = <<"*">> \/ ToSet(l) \subseteq {"name"}

run_on ==
  /\ stage = "server"
  /\ stage' = IF ~with_middleware \/ \E t \in tls : ~rustls_config(t) THEN "failed"
              ELSE IF ~standard_app_builds THEN "panicked" ELSE "running"
  /\ UNCHANGED <<part, config, cors, tls, groups, taken, settings, registered, policies>>

Init ==
  /\ part \in {"server", "routes"} /\ taken \in (IF part = "server" THEN BOOLEAN ELSE {FALSE})
  /\ config = default_config /\ cors = None /\ tls = None /\ groups = <<>>
  /\ settings = 0 /\ registered = {} /\ policies = <<>> /\ stage = "build"
Next ==
  \/ SetNumber \/ SetCors \/ SetTls \/ AddGroup \/ SetGroup \/ AddRoute \/ SetRoute
  \/ with_metrics \/ with_route_middleware \/ run_on
Spec == Init /\ [][Next]_vars

-----------------------------------------------------------------------------
TypeOK ==
  /\ stage \in {"build", "refused", "server", "failed", "panicked", "running"}
  /\ stage = "running" => Len(policies) = Len(AllRoutes)

\* A server that was built runs: no assertion of a middleware constructor and no
\* CORS layer fails on a configuration validate accepted, except that a limit may
\* exceed what a semaphore can hold.
AcceptedIsUsable ==
  stage = "panicked" =>
    \/ config.max_concurrent_requests = Huge
    \/ config.priority_concurrency_reserve = Huge

\* Every declared route is served under its own policy and no other: looking its
\* method and joined path up finds what its group and it say, so that a route of
\* a protected group is open only if it says so itself.
RoutesKeepTheirPolicy ==
  stage = "running" =>
    \A gr \in ToSet(AllRoutes) :
      LET g == groups[gr[1]]
          r == RouteAt(gr)
          found == find(r.method, join_route(g.prefix, r.path)) IN
      /\ found = Some(PolicyOf(gr))
      /\ \A p \in found : (g.jwt # None /\ ~r.public) => p.secrets # {}
=============================================================================
